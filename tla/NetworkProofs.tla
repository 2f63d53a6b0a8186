---------------------------- MODULE NetworkProofs ----------------------------
(***************************************************************************)
(* Theorems about the network, for every number of stations and every      *)
(* value of the other constants: what every event preserves for one        *)
(* station (StationHandlers), every dispatched event preserves for all of  *)
(* them.  Then about its packets: whatever calls the handlers make, the    *)
(* free list of the pool holds the packets that are not in use, each once. *)
(* The packets do not act back on the network, so that its invariant holds *)
(* with them too.                                                          *)
(***************************************************************************)
EXTENDS PacketMemory, StationHandlers, FiniteSetTheorems, WellFoundedInduction

\* The inductive invariant: every station is good, and whatever arrives is a
\* frame.
Inv ==
    /\ stations \in [Nodes -> Station]
    /\ \A n \in Nodes : stations[n] \in Good(n, {})
    /\ \A n \in toStart : stations[n].txc = "Idle"
    /\ \A a \in air : a \in Arrival /\ a.frame # NoFrame
    /\ toStart \subseteq Nodes
    /\ stopped \in BOOLEAN
    /\ got \in [Nodes -> 0 .. 2]

\* The constructors establish it.
LEMMA InvInit == Init => Inv
<1> SUFFICES ASSUME Init PROVE Inv
  OBVIOUS
<1>1. \A n \in Nodes : stations[n] \in Good(n, {}) /\ stations[n].txc = "Idle"
  BY InitGood DEF Init, InitStation
<1>2. stations \in [Nodes -> Station]
  <2>1. \A n \in Nodes : InitStation(n) \in Station
    BY InitSound DEF Sound
  <2> QED BY <2>1 DEF Init
<1>3. got \in [Nodes -> 0 .. 2]
  BY DEF Init
<1> QED BY <1>1, <1>2, <1>3 DEF Init, Inv

-----------------------------------------------------------------------------
\* The clock moves on at a station no timer of which is due before.
LEMMA OthersElapse ==
  ASSUME Inv, NEW m \in Nodes, NEW dt \in Nat, NotDueBefore(dt) \/ dt = 0
  PROVE  /\ Elapse(stations[m], dt) \in Good(m, {})
         /\ Elapse(stations[m], dt).txc = stations[m].txc
         /\ Elapse(stations[m], dt).phy = stations[m].phy
         /\ Elapse(stations[m], dt).ch = stations[m].ch
         /\ Elapse(stations[m], dt).out = stations[m].out
         /\ \A t \in Timers :
              Elapse(stations[m], dt).timer[t]
                = IF Pending(stations[m], t) THEN stations[m].timer[t] - dt
                                             ELSE stations[m].timer[t]
<1> DEFINE s == stations[m]
           e == Elapse(s, dt)
<1>1. s \in Good(m, {})
  BY DEF Inv
<1>2. \A t \in Timers : Pending(s, t) => dt <= s.timer[t]
  <2>1. CASE NotDueBefore(dt)
    BY <2>1 DEF NotDueBefore
  <2>2. CASE dt = 0
    BY <2>2 DEF Pending
  <2> QED BY <2>1, <2>2
<1>3. dt \in Int /\ dt >= 0
  OBVIOUS
<1> HIDE DEF s
<1>4. /\ e \in Good(m, {}) /\ Touches(s, e, {"calls"}, Timers)
      /\ \A t \in Timers : e.timer[t] = IF Pending(s, t) THEN s.timer[t] - dt ELSE s.timer[t]
  BY <1>1, <1>2, <1>3, ElapseGood
<1> HIDE DEF e
<1>5. e.txc = s.txc /\ e.phy = s.phy /\ e.ch = s.ch /\ e.out = s.out
  BY <1>4 DEF Touches, Fields
<1> QED BY <1>4, <1>5 DEF e, s

\* What every dispatch does around the handler of one station.
LEMMA CommitInv ==
  ASSUME Inv, NEW n \in Nodes, NEW before, NEW s \in Good(n, {}), NEW dt \in Nat,
         NotDueBefore(dt) \/ dt = 0, NEW rest, rest \subseteq air,
         \A a \in rest : dt <= a.left,
         Commit(n, before, s, dt, rest),
         toStart' \subseteq toStart \ {n}, stopped' \in BOOLEAN
  PROVE  Inv'
<1> DEFINE u == [s EXCEPT !.out = NoFrame, !.up = NoFrame]
<1>0. s \in Station /\ s.fault # "exit" /\ toStart \subseteq Nodes
  BY DEF Good, Steady, Sound, Inv
<1>1. u \in Good(n, {})
  <2>1. Touches(s, u, {"out", "up", "done", "fault"}, {}) /\ u.fault = s.fault
    BY <1>0, NoFrameType DEF Touches, Fields, Station
  <2> HIDE DEF u
  <2> QED BY <1>0, <2>1, ForgetGood
<1>2. \A m \in Nodes : stations'[m] = IF m = n THEN u ELSE Elapse(stations[m], dt)
  BY DEF Commit
<1> HIDE DEF u
<1>4. \A m \in Nodes : stations'[m] \in Good(m, {})
  BY <1>1, <1>2, OthersElapse
<1>5. stations' \in [Nodes -> Station]
  <2>1. \A m \in Nodes : stations'[m] \in Station
    BY <1>4 DEF Good, Steady, Sound
  <2>2. stations' = [m \in Nodes |-> stations'[m]]
    BY DEF Commit
  <2> QED BY <2>1, <2>2
<1>6. \A m \in toStart' : stations'[m].txc = "Idle"
  <2> SUFFICES ASSUME NEW m \in toStart' PROVE stations'[m].txc = "Idle"
    OBVIOUS
  <2>1. m \in Nodes /\ m # n /\ stations[m].txc = "Idle"
    BY <1>0 DEF Inv
  <2> QED BY <1>2, <2>1, OthersElapse
<1>7. \A a \in air' : a \in Arrival /\ a.frame # NoFrame
  <2>1. PICK e \in Errors(s.out) :
          air' = {[a EXCEPT !.left = @ - dt] : a \in rest}
                 \cup (IF s.out = NoFrame THEN {}
                       ELSE Copies([s.out EXCEPT !.bad = e], n))
    BY DEF Commit
  <2>2. ASSUME NEW a \in rest
        PROVE  /\ [a EXCEPT !.left = @ - dt] \in Arrival
               /\ [a EXCEPT !.left = @ - dt].frame # NoFrame
    <3>1. a \in Arrival /\ a.frame # NoFrame /\ dt <= a.left
      BY <2>2 DEF Inv
    <3>2. a.left - dt \in Nat
      BY <3>1 DEF Arrival
    <3> QED BY <3>1, <3>2 DEF Arrival
  <2>3. s.out # NoFrame => /\ [s.out EXCEPT !.bad = e] \in Frame
                           /\ [s.out EXCEPT !.bad = e] # NoFrame
    <3>1. s.out \in Frame /\ e \in BOOLEAN
      BY <1>0 DEF Station, Errors
    <3> QED BY <3>1, DamagedType
  <2>4. ASSUME NEW f \in Frame, f # NoFrame
        PROVE  \A a \in Copies(f, n) : a \in Arrival /\ a.frame # NoFrame
    <3>1. ChannelDelay + PropagationDelay(f) \in Nat
      BY <2>4, DelayType, NetworkAssumption
    <3> QED BY <2>4, <3>1 DEF Copies, Arrival
  <2> QED BY <2>1, <2>2, <2>3, <2>4
<1>8. got' \in [Nodes -> 0 .. 2]
  <2>1. \A m \in Nodes : got[m] \in 0 .. 2
    BY DEF Inv
  <2>2. \A m \in Nodes : (IF got[m] = 2 THEN 2 ELSE got[m] + 1) \in 0 .. 2
    BY <2>1
  <2> QED BY <2>1, <2>2 DEF Commit
<1> QED BY <1>0, <1>4, <1>5, <1>6, <1>7, <1>8 DEF Inv

\* Every action preserves it.
LEMMA InvNext == Inv /\ [Next]_vars => Inv'
<1> SUFFICES ASSUME Inv, [Next]_vars PROVE Inv'
  OBVIOUS
<1>0. Inputs(MaxDraw) \subseteq AnyInput /\ Inputs(0) \subseteq AnyInput
  BY NetworkAssumption, InputsType
<1>1. ASSUME NEW n \in Nodes, Start(n) PROVE Inv'
  <2>1. PICK in \in Inputs(MaxDraw) :
          Commit(n, stations[n], TrafficStart(stations[n], in), 0, air)
    BY <1>1 DEF Start
  <2>2. TrafficStart(stations[n], in) \in Good(n, {})
    <3>1. stations[n] \in Good(n, {}) /\ stations[n].txc = "Idle"
      BY <1>1 DEF Start, Inv
    <3> QED BY <1>0, <2>1, <3>1, TrafficStartGood
  <2>3. toStart' \subseteq toStart \ {n} /\ stopped' \in BOOLEAN
    BY <1>1 DEF Start, Inv
  <2>4. \A a \in air : 0 <= a.left
    BY DEF Inv, Arrival
  <2> QED BY <2>1, <2>2, <2>3, <2>4, CommitInv
<1>2. ASSUME NEW n \in Nodes, NEW t \in Timers, Dispatch(n, t) PROVE Inv'
  <2> DEFINE dt == stations[n].timer[t]
             e == Elapse(stations[n], dt)
  <2>1. PICK in \in Inputs(MaxDraw) :
          /\ NotDueBefore(dt)
          /\ Commit(n, stations[n], HandleTimer(e, t, in), dt, air)
    BY <1>2 DEF Dispatch
  <2>2. stations[n] \in Good(n, {}) /\ Pending(stations[n], t) /\ dt \in Nat
    <3>1. stations[n] \in Good(n, {}) /\ Pending(stations[n], t) /\ dt >= 0
      BY <1>2 DEF Inv, Dispatch, Pending
    <3>2. dt \in Int
      BY <3>1, TimerValues DEF Good, Steady
    <3> QED BY <3>1, <3>2
  <2>3. e \in Good(n, {}) /\ e.timer[t] = 0
    <3>1. e \in Good(n, {}) /\ e.timer[t] = stations[n].timer[t] - dt
      <4> HIDE DEF dt
      <4> QED BY <2>1, <2>2, OthersElapse
    <3> QED BY <2>2, <3>1
  <2> HIDE DEF e
  <2>4. HandleTimer(e, t, in) \in Good(n, {})
    BY <1>0, <2>1, <2>3, HandleTimerGood
  <2>5. toStart' \subseteq toStart \ {n} /\ stopped' \in BOOLEAN
    BY <1>2 DEF Dispatch, Inv
  <2>6. \A a \in air : dt <= a.left
    BY <2>1 DEF NotDueBefore
  <2> HIDE DEF dt
  <2> QED BY <2>1, <2>2, <2>4, <2>5, <2>6, CommitInv
<1>3. ASSUME NEW a \in air, Arrive(a) PROVE Inv'
  <2> DEFINE e == Elapse(stations[a.to], a.left)
             here == [e EXCEPT !.done = "none", !.fault = "none"]
  <2>1. PICK in \in Inputs(0) :
          Commit(a.to, stations[a.to], Recv(here, a.frame, in), a.left, air \ {a})
    BY <1>3 DEF Arrive
  <2>2. a.to \in Nodes /\ a.frame \in Frame /\ a.frame # NoFrame /\ a.left \in Nat
    BY <1>3 DEF Inv, Arrival
  <2>3. NotDueBefore(a.left)
    BY <1>3 DEF Arrive
  <2>4. e \in Good(a.to, {})
    BY <2>2, <2>3, OthersElapse
  <2> HIDE DEF e
  <2>5. here \in Good(a.to, {})
    <3>1. e \in Station
      BY <2>4 DEF Good, Steady, Sound
    <3>2. Touches(e, here, {"out", "up", "done", "fault"}, {}) /\ here.fault = "none"
      BY <3>1 DEF Touches, Fields, Station
    <3> HIDE DEF here
    <3> QED BY <2>4, <3>2, ForgetGood
  <2> HIDE DEF here
  <2>6. Recv(here, a.frame, in) \in Good(a.to, {})
    BY <2>2, <2>5, RecvGood
  <2>7. toStart' \subseteq toStart \ {a.to} /\ stopped' \in BOOLEAN /\ air \ {a} \subseteq air
    BY <1>3 DEF Arrive, Inv
  <2>8. \A b \in air \ {a} : a.left <= b.left
    BY <2>3 DEF NotDueBefore
  <2> QED BY <2>1, <2>2, <2>3, <2>6, <2>7, <2>8, CommitInv
<1>4. CASE StopSimulation
  <2>1. \A n \in Nodes : TrafficStop(stations[n]) \in Good(n, {})
    BY TrafficStopGood DEF Inv
  <2>2. stations' = [n \in Nodes |-> TrafficStop(stations[n])]
    BY <1>4 DEF StopSimulation
  <2>3. stations' \in [Nodes -> Station] /\ \A n \in Nodes : stations'[n] \in Good(n, {})
    <3>1. \A n \in Nodes : TrafficStop(stations[n]) \in Station
      BY <2>1 DEF Good, Steady, Sound
    <3> QED BY <2>1, <2>2, <3>1
  <2> QED BY <1>4, <2>3 DEF StopSimulation, Inv
<1>5. CASE UNCHANGED vars
  BY <1>5 DEF Inv, vars
<1> QED BY <1>1, <1>2, <1>3, <1>4, <1>5 DEF Next, Return

\* It always holds.
LEMMA Invariance == Spec => []Inv
BY InvInit, InvNext, PTL DEF Spec

-----------------------------------------------------------------------------
\* Every station and every scheduled arrival always has its type: no timer is
\* left in the status TIMER_HANDLING, and the dispatch of the earliest event
\* leaves no other one in the past.
THEOREM TypeCorrect == Spec => []TypeOK
<1>1. Inv => TypeOK
  <2> SUFFICES ASSUME Inv PROVE TypeOK
    OBVIOUS
  <2>1. \A n \in Nodes : stations[n].id = n
    BY DEF Inv, Good, Steady, Sound
  <2> QED BY <2>1 DEF Inv, TypeOK
<1> QED BY <1>1, Invariance, PTL

\* In a network of any size no station reaches a call of exit or abort, so
\* that no station keeps Scheduler::run from its next event.
THEOREM NoHalt == Spec => []NeverHalts
<1>1. Inv => NeverHalts
  BY DEF Inv, Good, Steady, NeverHalts, Alive
<1> QED BY <1>1, Invariance, PTL
-----------------------------------------------------------------------------
(* Folds are recursive functions over sets of indices.  What a proof needs   *)
(* of them is shown by a least counterexample.                               *)

\* Every nonempty set of natural numbers has a least member.
LEMMA Least ==
  ASSUME NEW S \in SUBSET Nat, S # {}
  PROVE  \E k \in S : \A n \in S : k <= n
<1>1. PICK k \in S : \A n \in S : ~(<<n, k>> \in OpToRel(<, Nat))
  BY WFMin, NatLessThanWellFounded
<1>2. \A n \in S : ~(n < k)
  BY <1>1 DEF OpToRel
<1> QED BY <1>2

\* The maximum of the first numbers, or of any of them, is one of them.
LEMMA Highest ==
  ASSUME NEW N \in Nat, NEW S \in SUBSET (1 .. N), S # {}
  PROVE  SX!Max(S) \in S /\ \A n \in S : SX!Max(S) >= n
<1> DEFINE R == {k \in 0 .. N : N - k \in S}
<1>1. R \in SUBSET Nat
  OBVIOUS
<1>2. R # {}
  <2>1. PICK n \in S : TRUE
    OBVIOUS
  <2>2. N - n \in R
    BY <2>1
  <2> QED BY <2>2
<1>3. PICK k \in R : \A n \in R : k <= n
  <2> HIDE DEF R
  <2> QED BY <1>1, <1>2, Least
<1>4. ASSUME NEW n \in S PROVE N - k >= n
  <2>1. N - n \in R
    OBVIOUS
  <2>2. k <= N - n /\ k \in Nat /\ n \in Nat
    BY <1>3, <2>1
  <2> QED BY <2>2
<1>5. \E x \in S : \A y \in S : x >= y
  BY <1>3, <1>4
<1> QED BY <1>5 DEF SX!Max

\* The first numbers without the last of them.
LEMMA Prefix ==
  ASSUME NEW N \in Nat, NEW k \in 1 .. N
  PROVE  /\ 1 .. k \in SUBSET (1 .. N) /\ 1 .. k # {} /\ 1 .. (k - 1) \in SUBSET (1 .. N)
         /\ SX!Max(1 .. k) = k /\ (1 .. k) \ {k} = 1 .. (k - 1)
<1>1. k \in Nat /\ k \in 1 .. k
  OBVIOUS
<1>2. SX!Max(1 .. k) \in 1 .. k /\ SX!Max(1 .. k) >= k
  BY <1>1, Highest
<1>3. SX!Max(1 .. k) = k
  BY <1>1, <1>2
<1>4. (1 .. k) \ {k} = 1 .. (k - 1)
  BY <1>1
<1> QED BY <1>1, <1>3, <1>4

\* The function that folds the first N members of q into base.
Folding(f, step, base, q, N) ==
    f = [s \in SUBSET (1 .. N) |->
           IF s = {} THEN base ELSE step[<<f[s \ {SX!Max(s)}], q[SX!Max(s)]>>]]

\* There is one, though its definition is recursive.
LEMMA FoldingExists ==
  ASSUME NEW step, NEW base, NEW q, NEW N \in Nat
  PROVE  \E f : Folding(f, step, base, q, N)
<1> DEFINE Bad == {m \in Nat : ~\E f : Folding(f, step, base, q, m)}
<1>1. SUFFICES ASSUME Bad # {} PROVE FALSE
  OBVIOUS
<1>2. PICK m \in Bad : \A k \in Bad : m <= k
  <2>1. Bad \in SUBSET Nat
    OBVIOUS
  <2> HIDE DEF Bad
  <2> QED BY <1>1, <2>1, Least
<1>3. m \in Nat /\ ~\E f : Folding(f, step, base, q, m)
  OBVIOUS
<1>4. CASE m = 0
  <2> DEFINE f == [s \in SUBSET (1 .. m) |-> base]
  <2>1. \A s \in SUBSET (1 .. m) : s = {}
    BY <1>4
  <2>2. Folding(f, step, base, q, m)
    BY <2>1, Zenon DEF Folding
  <2> QED BY <1>3, <2>2
<1>5. CASE m # 0
  <2>1. m - 1 \in Nat /\ m - 1 \notin Bad
    BY <1>2, <1>3, <1>5
  <2>2. PICK f : Folding(f, step, base, q, m - 1)
    BY <2>1
  <2> HIDE DEF Bad
  <2> DEFINE g == [s \in SUBSET (1 .. m) |->
                     IF m \notin s THEN f[s] ELSE step[<<f[s \ {m}], q[m]>>]]
  <2>3. \A s \in SUBSET (1 .. m - 1) :
          f[s] = IF s = {} THEN base ELSE step[<<f[s \ {SX!Max(s)}], q[SX!Max(s)]>>]
    BY <2>2, Zenon DEF Folding
  <2>4. ASSUME NEW s \in SUBSET (1 .. m)
        PROVE  g[s] = IF s = {} THEN base ELSE step[<<g[s \ {SX!Max(s)}], q[SX!Max(s)]>>]
    <3>1. CASE s = {}
      <4>1. g[s] = f[s] /\ s \in SUBSET (1 .. m - 1)
        BY <3>1
      <4> QED BY <2>3, <3>1, <4>1
    <3>2. CASE s # {}
      <4>1. SX!Max(s) \in s /\ (\A x \in s : SX!Max(s) >= x)
        BY <1>3, <3>2, Highest
      <4>2. s \ {SX!Max(s)} \in SUBSET (1 .. m)
        OBVIOUS
      <4>3. CASE m \notin s
        <5>0. \A x \in s : x \in 1 .. m - 1
          <6> HIDE DEF g
          <6> QED BY <1>3, <4>3
        <5>1. s \in SUBSET (1 .. m - 1) /\ s \ {SX!Max(s)} \in SUBSET (1 .. m - 1)
              /\ m \notin s \ {SX!Max(s)}
          BY <4>3, <5>0
        <5>2. g[s] = f[s] /\ g[s \ {SX!Max(s)}] = f[s \ {SX!Max(s)}]
          BY <4>2, <4>3, <5>1
        <5>3. f[s] = step[<<f[s \ {SX!Max(s)}], q[SX!Max(s)]>>]
          BY <2>3, <3>2, <5>1
        <5> HIDE DEF g
        <5> QED BY <3>2, <5>2, <5>3
      <4>4. CASE m \in s
        <5>1. SX!Max(s) = m
          <6> HIDE DEF g
          <6>1. SX!Max(s) \in 1 .. m /\ SX!Max(s) >= m
            BY <4>1, <4>4
          <6> QED BY <1>3, <6>1
        <5>2. g[s] = step[<<f[s \ {m}], q[m]>>] /\ g[s \ {m}] = f[s \ {m}]
          BY <4>2, <4>4, <5>1
        <5> HIDE DEF g
        <5> QED BY <3>2, <5>1, <5>2
      <4> QED BY <4>3, <4>4
    <3> QED BY <3>1, <3>2
  <2>5. g = [s \in SUBSET (1 .. m) |-> g[s]]
    OBVIOUS
  <2> HIDE DEF g
  <2>6. Folding(g, step, base, q, m)
    BY <2>4, <2>5, Zenon DEF Folding
  <2> QED BY <1>3, <2>6
<1> QED BY <1>4, <1>5

\* What every step keeps holds of the whole fold, and of each part of it.
LEMMA FoldingKeeps ==
  ASSUME NEW S, NEW N \in Nat, NEW f, f[{}] \in S,
         \A s \in SUBSET (1 .. N) : s # {} /\ f[s \ {SX!Max(s)}] \in S => f[s] \in S
  PROVE  \A s \in SUBSET (1 .. N) : f[s] \in S
<1> DEFINE Bad == {k \in 0 .. N : \E s \in SUBSET (1 .. k) : f[s] \notin S}
<1>2. SUFFICES ASSUME Bad # {} PROVE FALSE
  <2>1. Bad = {} => N \notin Bad
    OBVIOUS
  <2> QED BY <2>1
<1>3. PICK k \in Bad : \A m \in Bad : k <= m
  <2>1. Bad \in SUBSET Nat
    OBVIOUS
  <2> HIDE DEF Bad
  <2> QED BY <1>2, <2>1, Least
<1>4. PICK s \in SUBSET (1 .. k) : f[s] \notin S
  OBVIOUS
<1>5. k \in 0 .. N /\ s \in SUBSET (1 .. N)
  BY <1>3, <1>4
<1>6. s # {}
  BY <1>4
<1> DEFINE t == s \ {SX!Max(s)}
           j == SX!Max(s)
<1>7. j \in s /\ \A n \in s : j >= n
  BY <1>5, <1>6, Highest
<1>8. t \in SUBSET (1 .. k - 1) /\ t \in SUBSET (1 .. N) /\ k - 1 \in 0 .. N /\ j \in 1 .. N
  <2>1. /\ k \in Nat /\ N \in Nat /\ k <= N /\ j \in s
        /\ \A n \in s : n \in 1 .. k /\ n <= j
    BY <1>4, <1>5, <1>7
  <2>2. \A n \in t : n \in s /\ n # j
    OBVIOUS
  <2> HIDE DEF t, j, Bad
  <2>3. j \in 1 .. k
    BY <2>1
  <2>4. ASSUME NEW n \in t PROVE n \in 1 .. k - 1
    <3>1. n \in 1 .. k /\ n <= j /\ n # j
      BY <2>1, <2>2
    <3> QED BY <2>1, <2>3, <3>1
  <2>5. \A n \in 1 .. k - 1 : n \in 1 .. N
    BY <2>1
  <2> QED BY <2>1, <2>3, <2>4, <2>5
<1>9. f[t] \in S
  <2>1. k - 1 \notin Bad
    <3> HIDE DEF Bad
    <3> QED BY <1>3, <1>5, <1>8
  <2> QED BY <1>8, <2>1
<1> QED BY <1>4, <1>5, <1>6, <1>9

-----------------------------------------------------------------------------
(* The packet pool *)

\* The pools in which the free list holds the packets that are not in use,
\* each once.
SoundPools ==
    { q \in Pool :
        /\ q.used \subseteq 1 .. q.made
        /\ \A i, j \in 1 .. Len(q.free) : q.free[i] = q.free[j] => i = j
        /\ \A p \in 1 .. q.made : p \in q.used \/ \E i \in 1 .. Len(q.free) : q.free[i] = p
        /\ \A i \in 1 .. Len(q.free) : q.free[i] \in (1 .. q.made) \ q.used }

\* It is what FreeListIsSound says.
LEMMA SoundPoolIs == FreeListIsSound <=> pool \in SoundPools
<1> DEFINE l == pool.free
<1>1. ASSUME pool \in Pool
      PROVE  l \in Seq(Packets) /\ DOMAIN l = 1 .. Len(l)
  BY <1>1 DEF Pool
<1>2. FreeListIsSound <=>
        /\ pool \in Pool /\ pool.used \subseteq 1 .. pool.made
        /\ \A i, j \in DOMAIN l : l[i] = l[j] => i = j
        /\ {l[i] : i \in DOMAIN l} = (1 .. pool.made) \ pool.used
  BY DEF FreeListIsSound, SX!IsInjective, SX!ToSet
<1> HIDE DEF l
<1>3. ASSUME pool \in Pool, pool.used \subseteq 1 .. pool.made
      PROVE  {l[i] : i \in DOMAIN l} = (1 .. pool.made) \ pool.used
               <=> /\ \A p \in 1 .. pool.made : p \in pool.used \/ \E i \in 1 .. Len(l) : l[i] = p
                   /\ \A i \in 1 .. Len(l) : l[i] \in (1 .. pool.made) \ pool.used
  BY <1>1, <1>3
<1>4. ASSUME pool \in Pool
      PROVE  (\A i, j \in DOMAIN l : l[i] = l[j] => i = j)
               <=> \A i, j \in 1 .. Len(l) : l[i] = l[j] => i = j
  BY <1>1, <1>4
<1> QED BY <1>2, <1>3, <1>4, Zenon DEF SoundPools, l

\* Packet::alloc returns a packet that was not in use, and keeps the list
\* sound whether it takes one from it or makes one.
LEMMA AllocatedIs ==
  ASSUME NEW q \in SoundPools
  PROVE  /\ Allocated(q) \in Packets /\ Allocated(q) \notin q.used
         /\ AllocPacket(q) \in SoundPools
<1> DEFINE p == Allocated(q)
           r == AllocPacket(q)
<1>1. /\ q \in Pool /\ q.made \in Nat /\ q.free \in Seq(Packets) /\ q.used \subseteq 1 .. q.made
      /\ q.used \in SUBSET Packets /\ q.queued \in SUBSET Packets /\ q.failed \in BOOLEAN
      /\ Len(q.free) \in Nat
      /\ \A i, j \in 1 .. Len(q.free) : q.free[i] = q.free[j] => i = j
      /\ \A x \in 1 .. q.made : x \in q.used \/ \E i \in 1 .. Len(q.free) : q.free[i] = x
      /\ \A i \in 1 .. Len(q.free) : q.free[i] \in (1 .. q.made) \ q.used
  BY DEF SoundPools, Pool
<1>2. CASE q.free = <<>>
  <2>1. p = q.made + 1 /\ p \in Packets /\ p \notin q.used
    BY <1>1, <1>2 DEF Allocated, Packets
  <2>2. r = [q EXCEPT !.made = p, !.used = @ \cup {p}]
    BY <1>2 DEF AllocPacket
  <2> HIDE DEF p, r
  <2>3. /\ r.made = p /\ r.free = q.free /\ r.used = q.used \cup {p} /\ r.queued = q.queued
        /\ r.failed = q.failed /\ r \in Pool
    BY <1>1, <2>1, <2>2 DEF Pool, Packets
  <2>4. Len(q.free) = 0 /\ 1 .. p = (1 .. q.made) \cup {p}
    BY <1>1, <1>2, <2>1
  <2>5. r \in SoundPools
    BY <1>1, <2>1, <2>3, <2>4 DEF SoundPools
  <2> QED BY <2>1, <2>5 DEF p, r
<1>3. CASE q.free # <<>>
  <2>1. p = q.free[1] /\ 1 \in 1 .. Len(q.free) /\ p \in Packets /\ p \in (1 .. q.made) \ q.used
    <3>1. Len(q.free) # 0 /\ Head(q.free) = q.free[1]
      BY <1>1, <1>3
    <3>2. 1 \in 1 .. Len(q.free)
      BY <1>1, <3>1
    <3> QED BY <1>1, <1>3, <3>1, <3>2 DEF Allocated, Packets
  <2>2. r = [q EXCEPT !.free = Tail(@), !.used = @ \cup {p}, !.queued = @ \ {p},
                      !.failed = @ \/ p \in q.used]
    BY <1>3 DEF AllocPacket
  <2>3. PICK rest : rest = Tail(q.free)
    OBVIOUS
  <2>4. /\ rest \in Seq(Packets) /\ Len(rest) = Len(q.free) - 1
        /\ \A i \in 1 .. Len(rest) : rest[i] = q.free[i + 1]
    BY <1>1, <1>3, <2>3
  <2> HIDE DEF p, r
  <2>5. r = [q EXCEPT !.free = rest, !.used = q.used \cup {p}, !.queued = q.queued \ {p},
                      !.failed = q.failed]
    BY <1>1, <2>1, <2>2, <2>3
  <2>6. /\ r.made = q.made /\ r.free = rest /\ r.used = q.used \cup {p} /\ r \in Pool
    BY <1>1, <2>1, <2>4, <2>5 DEF Pool, Packets
  <2>7. \A i \in 1 .. Len(rest) : i + 1 \in 1 .. Len(q.free) /\ i + 1 # 1
    BY <1>1, <2>4
  <2>8. \A i \in 1 .. Len(q.free) : i = 1 \/ (i - 1 \in 1 .. Len(rest) /\ rest[i - 1] = q.free[i])
    BY <1>1, <2>4
  <2>9. \A i, j \in 1 .. Len(rest) : rest[i] = rest[j] => i = j
    BY <1>1, <2>4, <2>7
  <2>10. \A x \in 1 .. q.made : x \in q.used \cup {p} \/ \E i \in 1 .. Len(rest) : rest[i] = x
    <3> SUFFICES ASSUME NEW x \in 1 .. q.made, x \notin q.used, x # p
                 PROVE  \E i \in 1 .. Len(rest) : rest[i] = x
      OBVIOUS
    <3>1. PICK i \in 1 .. Len(q.free) : q.free[i] = x
      BY <1>1
    <3> QED BY <2>1, <2>8, <3>1
  <2>11. \A i \in 1 .. Len(rest) : rest[i] \in (1 .. q.made) \ (q.used \cup {p})
    BY <1>1, <2>1, <2>4, <2>7
  <2>12. r \in SoundPools
    BY <1>1, <2>1, <2>6, <2>9, <2>10, <2>11 DEF SoundPools
  <2> QED BY <2>1, <2>12 DEF p, r
<1> QED BY <1>2, <1>3

\* Packet::free keeps the list sound for any argument: a packet that is not in
\* use is not put on it again.
LEMMA FreeIs ==
  ASSUME NEW q \in SoundPools, NEW p
  PROVE  FreePacket(q, p) \in SoundPools
<1>1. CASE p \notin q.used
  BY <1>1 DEF FreePacket
<1>2. CASE p \in q.used
  <2>1. /\ q \in Pool /\ q.made \in Nat /\ q.free \in Seq(Packets) /\ q.used \subseteq 1 .. q.made
        /\ q.used \in SUBSET Packets /\ q.queued \in SUBSET Packets /\ q.failed \in BOOLEAN
        /\ Len(q.free) \in Nat
        /\ \A i, j \in 1 .. Len(q.free) : q.free[i] = q.free[j] => i = j
        /\ \A x \in 1 .. q.made : x \in q.used \/ \E i \in 1 .. Len(q.free) : q.free[i] = x
        /\ \A i \in 1 .. Len(q.free) : q.free[i] \in (1 .. q.made) \ q.used
    BY DEF SoundPools, Pool
  <2>2. PICK l : l = <<p>> \o q.free
    OBVIOUS
  <2>3. PICK b \in BOOLEAN : b = (q.failed \/ p \in q.queued)
    OBVIOUS
  <2>4. FreePacket(q, p) = [q EXCEPT !.free = l, !.used = q.used \ {p}, !.failed = b]
    BY <1>2, <2>1, <2>2, <2>3 DEF FreePacket
  <2>5. /\ p \in Packets /\ p \in 1 .. q.made /\ l \in Seq(Packets) /\ Len(l) = Len(q.free) + 1
        /\ l[1] = p /\ \A i \in 1 .. Len(l) : i # 1 => l[i] = q.free[i - 1]
    BY <1>2, <2>1, <2>2
  <2>6. PICK r : r = FreePacket(q, p)
    OBVIOUS
  <2>7. r.made = q.made /\ r.free = l /\ r.used = q.used \ {p} /\ r \in Pool
    <3>0. q \in Pool
      BY <2>1
    <3>1. PICK u : u = q.used \ {p}
      OBVIOUS
    <3>2. u \in SUBSET Packets
      BY <2>1, <3>1
    <3>3. r = [q EXCEPT !.free = l, !.used = u, !.failed = b]
      BY <2>4, <2>6, <3>1
    <3>4. r.made = q.made /\ r.free = l /\ r.used = u /\ r \in Pool
      BY ONLY <3>0, <2>3, <2>5, <3>2, <3>3 DEF Pool
    <3> QED BY <3>1, <3>4
  <2>8. \A i \in 1 .. Len(l) : i = 1 \/ i - 1 \in 1 .. Len(q.free)
    BY <2>1, <2>5
  <2>9. \A i \in 1 .. Len(q.free) : i + 1 \in 1 .. Len(l) /\ l[i + 1] = q.free[i]
    <3> SUFFICES ASSUME NEW i \in 1 .. Len(q.free)
                 PROVE  i + 1 \in 1 .. Len(l) /\ l[i + 1] = q.free[i]
      OBVIOUS
    <3>1. i + 1 \in 1 .. Len(l) /\ i + 1 # 1 /\ (i + 1) - 1 = i
      BY <2>1, <2>5
    <3> QED BY <2>5, <3>1
  <2>10. \A i, j \in 1 .. Len(l) : l[i] = l[j] => i = j
    <3> SUFFICES ASSUME NEW i \in 1 .. Len(l), NEW j \in 1 .. Len(l), l[i] = l[j] PROVE i = j
      OBVIOUS
    <3>0. ASSUME NEW k \in 1 .. Len(l), k # 1
          PROVE  k - 1 \in 1 .. Len(q.free) /\ l[k] = q.free[k - 1] /\ l[k] # p
      BY <1>2, <2>1, <2>5, <2>8, <3>0
    <3>1. CASE i = 1 \/ j = 1
      BY <2>5, <3>0, <3>1
    <3>2. CASE i # 1 /\ j # 1
      <4>0. PICK x \in 1 .. Len(q.free), y \in 1 .. Len(q.free) : x = i - 1 /\ y = j - 1
        BY <3>0, <3>2
      <4>1. i - 1 = j - 1
        <5>1. q.free[x] = q.free[y]
          BY <3>0, <3>2, <4>0
        <5>2. x = y
          BY <2>1, <5>1, Zenon
        <5> QED BY <4>0, <5>2
      <4>2. i \in Int /\ j \in Int
        BY <2>1, <2>5
      <4> QED BY <4>1, <4>2
    <3> QED BY <3>1, <3>2
  <2>11. \A x \in 1 .. q.made : x \in q.used \ {p} \/ \E i \in 1 .. Len(l) : l[i] = x
    <3>1. 1 \in 1 .. Len(l)
      BY <2>1, <2>5
    <3> SUFFICES ASSUME NEW x \in 1 .. q.made, x \notin q.used \/ x = p
                 PROVE  \E i \in 1 .. Len(l) : l[i] = x
      OBVIOUS
    <3>2. CASE x = p
      BY <2>5, <3>1, <3>2
    <3>3. CASE x \notin q.used
      <4>1. PICK i \in 1 .. Len(q.free) : q.free[i] = x
        BY <2>1, <3>3
      <4> QED BY <2>9, <4>1
    <3> QED BY <3>2, <3>3
  <2>12. \A i \in 1 .. Len(l) : l[i] \in (1 .. q.made) \ (q.used \ {p})
    BY <2>1, <2>5, <2>8
  <2>13. r \in SoundPools
    BY <2>1, <2>7, <2>10, <2>11, <2>12 DEF SoundPools
  <2> QED BY <2>6, <2>13
<1> QED BY <1>1, <1>2

\* Scheduling and dispatching a packet does not concern the list.
LEMMA QueueIs ==
  ASSUME NEW q \in SoundPools, NEW p
  PROVE  /\ p \in Packets => Enqueue(q, p) \in SoundPools
         /\ Dequeue(q, p) \in SoundPools
<1>1. q \in Pool
  BY DEF SoundPools
<1>2. ASSUME p \in Packets PROVE Enqueue(q, p) \in SoundPools
  <2>1. PICK b \in BOOLEAN : b = (q.failed \/ p \in q.queued)
    OBVIOUS
  <2>2. PICK r : r = Enqueue(q, p)
    OBVIOUS
  <2>3. r = [q EXCEPT !.queued = q.queued \cup {p}, !.failed = b]
    BY <1>1, <2>1, <2>2 DEF Enqueue
  <2>4. r \in Pool /\ r.made = q.made /\ r.free = q.free /\ r.used = q.used
    BY <1>1, <1>2, <2>3 DEF Pool
  <2> QED BY <2>2, <2>4 DEF SoundPools
<1>3. Dequeue(q, p) \in SoundPools
  <2>1. PICK r : r = Dequeue(q, p)
    OBVIOUS
  <2>2. r \in Pool /\ r.made = q.made /\ r.free = q.free /\ r.used = q.used
    BY <1>1, <2>1 DEF Pool, Dequeue
  <2> QED BY <2>1, <2>2 DEF SoundPools
<1> QED BY <1>2, <1>3

-----------------------------------------------------------------------------
(* The calls of a handler *)

\* What the calls of a handler act on.
Memories ==
    [pool : SoundPools, points : [Slots -> Nat], sent : [Nodes -> Nat]]

\* The types of its parts.
LEMMA MemoryFields ==
  ASSUME NEW m \in Memories
  PROVE  /\ m.pool \in SoundPools /\ m.points \in [Slots -> Nat] /\ m.sent \in [Nodes -> Nat]
         /\ m = [pool |-> m.pool, points |-> m.points, sent |-> m.sent]
  BY DEF Memories

\* One copy for one other interface.
LEMMA SendUpCopyIs ==
  ASSUME NEW m \in Memories, NEW to \in Nodes
  PROVE  SendUpCopy(m, to) \in Memories
<1> DEFINE p == Allocated(m.pool)
           q == Enqueue(AllocPacket(m.pool), p)
<1>1. p \in Packets /\ q \in SoundPools
  BY MemoryFields, AllocatedIs, QueueIs
<1>2. SendUpCopy(m, to) = [m EXCEPT !.pool = q, !.sent[to] = p]
  BY DEF SendUpCopy
<1> HIDE DEF p, q
<1>3. p \in Nat
  BY <1>1 DEF Packets
<1>4. PICK u : u = [m.sent EXCEPT ![to] = p]
  OBVIOUS
<1>5. u \in [Nodes -> Nat] /\ m.sent \in [Nodes -> Nat]
  BY <1>3, <1>4 DEF Memories
<1>6. SendUpCopy(m, to) = [m EXCEPT !.pool = q, !.sent = u]
  BY <1>2, <1>4, MemoryFields
<1> QED BY <1>1, <1>5, <1>6 DEF Memories

\* The list of the other interfaces.
LEMMA InterfacesIs ==
  ASSUME NEW n \in Nodes
  PROVE  LET q == SX!SetToSeq(Nodes \ {n})
         IN  Len(q) \in Nat /\ DOMAIN q = 1 .. Len(q) /\ \A k \in 1 .. Len(q) : q[k] \in Nodes
<1> DEFINE S == Nodes \ {n}
           q == SX!SetToSeq(S)
<1>1. IsFiniteSet(S)
  BY NodesAssumption, FS_Subset
<1>2. Cardinality(S) \in Nat /\ ExistsBijection(1 .. Cardinality(S), S)
  BY <1>1, FS_CardinalityType
<1>3. \E f \in [1 .. Cardinality(S) -> S] : SX!IsInjective(f)
  <2>1. PICK f \in Bijection(1 .. Cardinality(S), S) : TRUE
    BY <1>2 DEF ExistsBijection
  <2>2. f \in [1 .. Cardinality(S) -> S] /\ \A a, b \in 1 .. Cardinality(S) : f[a] = f[b] => a = b
    BY <2>1 DEF Bijection, Injection, IsInjective
  <2>3. DOMAIN f = 1 .. Cardinality(S)
    BY <2>2
  <2>4. SX!IsInjective(f)
    BY <2>2, <2>3, Zenon DEF SX!IsInjective
  <2> QED BY <2>2, <2>4
<1>4. q \in [1 .. Cardinality(S) -> S]
  <2>1. q = CHOOSE f \in [1 .. Cardinality(S) -> S] : SX!IsInjective(f)
    <3>1. SX!Cardinality(S) = Cardinality(S)
      BY Zenon DEF SX!Cardinality, Cardinality
    <3> QED BY <3>1, Zenon DEF SX!SetToSeq
  <2> HIDE DEF q, S
  <2> QED BY <1>3, <2>1, Zenon
<1> HIDE DEF q
<1>5. Len(q) = Cardinality(S)
  BY <1>2, <1>4
<1> QED BY <1>2, <1>4, <1>5 DEF q

\* The copies for all of them, one after the other.
LEMMA CopiesAre ==
  ASSUME NEW m \in Memories, NEW n \in Nodes
  PROVE  LET q == SX!SetToSeq(Nodes \ {n})
         IN  \E h \in [0 .. Len(q) -> Memories] :
                /\ h[0] = m /\ h[Len(q)] = SX!FoldLeft(SendUpCopy, m, q)
                /\ \A k \in 1 .. Len(q) : h[k] = SendUpCopy(h[k - 1], q[k])
<1> DEFINE q == SX!SetToSeq(Nodes \ {n})
           N == Len(q)
           step == [x \in Memories \X Nodes |-> SendUpCopy(x[1], x[2])]
           g == CHOOSE h : h = [s \in SUBSET DOMAIN q |->
                  IF s = {} THEN m ELSE SendUpCopy(h[s \ {SX!Max(s)}], q[SX!Max(s)])]
<1>1. N \in Nat /\ DOMAIN q = 1 .. N /\ \A k \in 1 .. N : q[k] \in Nodes
  BY InterfacesIs
<1>2. SX!FoldLeft(SendUpCopy, m, q) = g[DOMAIN q]
  BY Zenon DEF SX!FoldLeft, SX!MapThenFoldSet
<1>3. \A r \in Memories, to \in Nodes : step[<<r, to>>] = SendUpCopy(r, to) /\ step[<<r, to>>] \in Memories
  BY SendUpCopyIs
<1> HIDE DEF step, q, N
<1>4. PICK f : Folding(f, step, m, q, N)
  BY <1>1, FoldingExists
<1>5. \A s \in SUBSET (1 .. N) : f[s] \in Memories
  <2>1. \A s \in SUBSET (1 .. N) :
           f[s] = IF s = {} THEN m ELSE step[<<f[s \ {SX!Max(s)}], q[SX!Max(s)]>>]
    BY <1>4, Zenon DEF Folding
  <2>2. f[{}] \in Memories
    BY <2>1
  <2>3. ASSUME NEW s \in SUBSET (1 .. N), s # {}, f[s \ {SX!Max(s)}] \in Memories
        PROVE  f[s] \in Memories
    <3>1. q[SX!Max(s)] \in Nodes
      BY <1>1, <2>3, Highest
    <3> QED BY <1>3, <2>1, <2>3, <3>1
  <2> QED BY ONLY <1>1, <2>2, <2>3, FoldingKeeps
<1>6. f = [s \in SUBSET DOMAIN q |->
              IF s = {} THEN m ELSE SendUpCopy(f[s \ {SX!Max(s)}], q[SX!Max(s)])]
  <2>1. f = [s \in SUBSET (1 .. N) |->
               IF s = {} THEN m ELSE step[<<f[s \ {SX!Max(s)}], q[SX!Max(s)]>>]]
    BY <1>4, Zenon DEF Folding
  <2>2. ASSUME NEW s \in SUBSET (1 .. N), s # {}
        PROVE  step[<<f[s \ {SX!Max(s)}], q[SX!Max(s)]>>]
                 = SendUpCopy(f[s \ {SX!Max(s)}], q[SX!Max(s)])
    <3>1. SX!Max(s) \in 1 .. N /\ s \ {SX!Max(s)} \in SUBSET (1 .. N)
      BY <1>1, <2>2, Highest
    <3>2. q[SX!Max(s)] \in Nodes /\ f[s \ {SX!Max(s)}] \in Memories
      BY <1>1, <1>5, <3>1
    <3> QED BY <1>3, <3>2
  <2>3. \A s \in SUBSET (1 .. N) :
           (IF s = {} THEN m ELSE step[<<f[s \ {SX!Max(s)}], q[SX!Max(s)]>>])
             = IF s = {} THEN m ELSE SendUpCopy(f[s \ {SX!Max(s)}], q[SX!Max(s)])
    BY <2>2, Zenon
  <2> QED BY <1>1, <2>1, <2>3, Zenon
<1>7. g = [s \in SUBSET DOMAIN q |->
              IF s = {} THEN m ELSE SendUpCopy(g[s \ {SX!Max(s)}], q[SX!Max(s)])]
  BY <1>6, Zenon
<1> HIDE DEF g
<1>8. \A s \in SUBSET (1 .. N) :
        g[s] = IF s = {} THEN m ELSE SendUpCopy(g[s \ {SX!Max(s)}], q[SX!Max(s)])
  BY <1>1, <1>7, Zenon
<1>9. \A s \in SUBSET (1 .. N) : g[s] \in Memories
  <2>1. g[{}] \in Memories
    BY <1>8
  <2>2. ASSUME NEW s \in SUBSET (1 .. N), s # {}, g[s \ {SX!Max(s)}] \in Memories
        PROVE  g[s] \in Memories
    <3>1. q[SX!Max(s)] \in Nodes
      BY <1>1, <2>2, Highest
    <3> QED BY <1>8, <2>2, <3>1, SendUpCopyIs
  <2> QED BY ONLY <1>1, <2>1, <2>2, FoldingKeeps
<1>10. PICK h : h = [k \in 0 .. N |-> g[1 .. k]]
  OBVIOUS
<1>11. h \in [0 .. N -> Memories] /\ h[0] = m /\ h[N] = g[1 .. N]
  <2>1. \A k \in 0 .. N : 1 .. k \in SUBSET (1 .. N)
    BY <1>1
  <2>2. \A k \in 0 .. N : h[k] = g[1 .. k] /\ g[1 .. k] \in Memories
    BY <1>9, <1>10, <2>1
  <2>3. 1 .. 0 = {} /\ {} \in SUBSET (1 .. N) /\ 0 \in 0 .. N /\ N \in 0 .. N
    BY <1>1
  <2>4. g[{}] = m
    BY <1>8, <2>3
  <2>5. h[0] = m /\ h[N] = g[1 .. N]
    BY <2>2, <2>3, <2>4
  <2> QED BY <1>10, <2>2, <2>5
<1>12. ASSUME NEW k \in 1 .. N
       PROVE  h[k] = SendUpCopy(h[k - 1], q[k])
  <2>1. g[1 .. k] = SendUpCopy(g[1 .. (k - 1)], q[k])
    BY <1>1, <1>8, Prefix
  <2>2. k - 1 \in 0 .. N /\ k \in 0 .. N
    BY <1>1
  <2> QED BY <1>10, <2>1, <2>2
<1> QED
  <2>1. SX!FoldLeft(SendUpCopy, m, q) = h[N]
    BY <1>1, <1>2, <1>11
  <2> QED BY <1>11, <1>12, <2>1 DEF q, N

\* Channel::sendUp.
LEMMA ChannelSendUpIs ==
  ASSUME NEW m \in Memories, NEW n \in Nodes
  PROVE  ChannelSendUp(m, Nodes \ {n}) \in Memories
<1> DEFINE q == SX!SetToSeq(Nodes \ {n})
           c == SX!FoldLeft(SendUpCopy, m, q)
           p == FreePacket(c.pool, m.points["sent"])
<1>1. c \in Memories
  <2>1. PICK h \in [0 .. Len(q) -> Memories] : h[Len(q)] = c
    BY CopiesAre
  <2>2. Len(q) \in 0 .. Len(q)
    <3>1. Len(q) \in Nat
      BY InterfacesIs
    <3> HIDE DEF q
    <3> QED BY <3>1
  <2> QED BY <2>1, <2>2
<1>2. ChannelSendUp(m, Nodes \ {n}) = [c EXCEPT !.pool = p]
  BY DEF ChannelSendUp
<1>3. p \in SoundPools
  BY <1>1, MemoryFields, FreeIs
<1> HIDE DEF p, c
<1> QED BY <1>1, <1>2, <1>3 DEF Memories

\* One call of station n.
LEMMA PerformIs ==
  ASSUME NEW n \in Nodes, NEW m \in Memories, NEW call \in PoolCalls
  PROVE  Perform(n, m, call) \in Memories
<1>1. call[1] \in {"alloc", "free", "send"} /\ call[2] \in Slots
  BY DEF PoolCalls
<1>2. m.pool \in SoundPools /\ m.points \in [Slots -> Nat] /\ m.sent \in [Nodes -> Nat]
  BY MemoryFields
<1>3. CASE call[1] = "alloc"
  <2>1. PICK q, p, u : q = AllocPacket(m.pool) /\ p = Allocated(m.pool)
                       /\ u = [m.points EXCEPT ![call[2]] = p]
    OBVIOUS
  <2>2. q \in SoundPools /\ p \in Nat
    BY <1>2, <2>1, AllocatedIs DEF Packets
  <2>3. u \in [Slots -> Nat]
    BY <1>2, <2>1, <2>2
  <2>4. Perform(n, m, call) = [m EXCEPT !.pool = q, !.points = u]
    BY <1>2, <1>3, <2>1, MemoryFields DEF Perform
  <2> QED BY <2>2, <2>3, <2>4 DEF Memories
<1>4. CASE call[1] = "free"
  <2>1. PICK q : q = FreePacket(m.pool, m.points[call[2]])
    OBVIOUS
  <2>2. q \in SoundPools
    BY <1>2, <2>1, FreeIs
  <2>3. Perform(n, m, call) = [m EXCEPT !.pool = q]
    BY <1>4, <2>1 DEF Perform
  <2> QED BY <2>2, <2>3 DEF Memories
<1>5. CASE call[1] = "send"
  BY <1>5, ChannelSendUpIs DEF Perform
<1> QED BY <1>1, <1>3, <1>4, <1>5

\* All the calls of a handler, one after the other.
LEMMA PerformedAre ==
  ASSUME NEW m \in Memories, NEW n \in Nodes, NEW calls \in Seq(PoolCalls)
  PROVE  \E h \in [0 .. Len(calls) -> Memories] :
            /\ h[0] = m
            /\ h[Len(calls)] = Performed(n, m, calls)
            /\ \A k \in 1 .. Len(calls) : h[k] = Perform(n, h[k - 1], calls[k])
<1> DEFINE N == Len(calls)
           step == [x \in Memories \X PoolCalls |-> Perform(n, x[1], x[2])]
           g == CHOOSE h : h = [s \in SUBSET DOMAIN calls |->
                  IF s = {} THEN m ELSE Perform(n, h[s \ {SX!Max(s)}], calls[SX!Max(s)])]
           end == Performed(n, m, calls)
<1>1. N \in Nat /\ DOMAIN calls = 1 .. N /\ \A k \in 1 .. N : calls[k] \in PoolCalls
  OBVIOUS
<1>2. end = g[DOMAIN calls]
  BY Zenon DEF Performed, SX!FoldLeft, SX!MapThenFoldSet
<1>3. \A r \in Memories, c \in PoolCalls :
         step[<<r, c>>] = Perform(n, r, c) /\ step[<<r, c>>] \in Memories
  BY PerformIs
<1> HIDE DEF step, N, end
<1>4. PICK f : Folding(f, step, m, calls, N)
  BY <1>1, FoldingExists
<1>5. \A s \in SUBSET (1 .. N) :
         f[s] = IF s = {} THEN m ELSE step[<<f[s \ {SX!Max(s)}], calls[SX!Max(s)]>>]
  BY <1>4, Zenon DEF Folding
<1>6. \A s \in SUBSET (1 .. N) : f[s] \in Memories
  <2>1. f[{}] \in Memories
    BY <1>5
  <2>2. ASSUME NEW s \in SUBSET (1 .. N), s # {}, f[s \ {SX!Max(s)}] \in Memories
        PROVE  f[s] \in Memories
    <3>1. calls[SX!Max(s)] \in PoolCalls
      BY <1>1, <2>2, Highest
    <3> QED BY <1>3, <1>5, <2>2, <3>1
  <2> QED BY ONLY <1>1, <2>1, <2>2, FoldingKeeps
<1>7. f = [s \in SUBSET DOMAIN calls |->
              IF s = {} THEN m ELSE Perform(n, f[s \ {SX!Max(s)}], calls[SX!Max(s)])]
  <2>1. f = [s \in SUBSET (1 .. N) |->
               IF s = {} THEN m ELSE step[<<f[s \ {SX!Max(s)}], calls[SX!Max(s)]>>]]
    BY <1>4, Zenon DEF Folding
  <2>2. ASSUME NEW s \in SUBSET (1 .. N), s # {}
        PROVE  step[<<f[s \ {SX!Max(s)}], calls[SX!Max(s)]>>]
                 = Perform(n, f[s \ {SX!Max(s)}], calls[SX!Max(s)])
    <3>1. SX!Max(s) \in 1 .. N /\ s \ {SX!Max(s)} \in SUBSET (1 .. N)
      BY <1>1, <2>2, Highest
    <3>2. calls[SX!Max(s)] \in PoolCalls /\ f[s \ {SX!Max(s)}] \in Memories
      BY <1>1, <1>6, <3>1
    <3> QED BY <1>3, <3>2
  <2>3. \A s \in SUBSET (1 .. N) :
           (IF s = {} THEN m ELSE step[<<f[s \ {SX!Max(s)}], calls[SX!Max(s)]>>])
             = IF s = {} THEN m ELSE Perform(n, f[s \ {SX!Max(s)}], calls[SX!Max(s)])
    BY <2>2, Zenon
  <2> QED BY <1>1, <2>1, <2>3, Zenon
<1>8. g = [s \in SUBSET DOMAIN calls |->
              IF s = {} THEN m ELSE Perform(n, g[s \ {SX!Max(s)}], calls[SX!Max(s)])]
  BY <1>7, Zenon
<1> HIDE DEF g
<1>9. \A s \in SUBSET (1 .. N) :
        g[s] = IF s = {} THEN m ELSE Perform(n, g[s \ {SX!Max(s)}], calls[SX!Max(s)])
  BY <1>1, <1>8, Zenon
<1>10. \A s \in SUBSET (1 .. N) : g[s] \in Memories
  <2>1. g[{}] \in Memories
    BY <1>9
  <2>2. ASSUME NEW s \in SUBSET (1 .. N), s # {}, g[s \ {SX!Max(s)}] \in Memories
        PROVE  g[s] \in Memories
    <3>1. calls[SX!Max(s)] \in PoolCalls
      BY <1>1, <2>2, Highest
    <3> QED BY <1>9, <2>2, <3>1, PerformIs
  <2> QED BY ONLY <1>1, <2>1, <2>2, FoldingKeeps
<1>11. PICK h : h = [k \in 0 .. N |-> g[1 .. k]]
  OBVIOUS
<1>12. h \in [0 .. N -> Memories] /\ h[0] = m /\ h[N] = g[1 .. N]
  <2>1. \A k \in 0 .. N : 1 .. k \in SUBSET (1 .. N)
    BY <1>1
  <2>2. \A k \in 0 .. N : h[k] = g[1 .. k] /\ g[1 .. k] \in Memories
    BY <1>10, <1>11, <2>1
  <2>3. 1 .. 0 = {} /\ {} \in SUBSET (1 .. N) /\ 0 \in 0 .. N /\ N \in 0 .. N
    BY <1>1
  <2>4. g[{}] = m
    BY <1>9, <2>3
  <2>5. h[0] = m /\ h[N] = g[1 .. N]
    BY <2>2, <2>3, <2>4
  <2> QED BY <1>11, <2>2, <2>5
<1>13. ASSUME NEW k \in 1 .. N
       PROVE  h[k] = Perform(n, h[k - 1], calls[k])
  <2>1. g[1 .. k] = Perform(n, g[1 .. (k - 1)], calls[k])
    BY <1>1, <1>9, Prefix
  <2>2. k - 1 \in 0 .. N /\ k \in 0 .. N
    BY <1>1
  <2> QED BY <1>11, <2>1, <2>2
<1> QED
  <2>1. end = h[N]
    BY <1>1, <1>2, <1>12
  <2> QED BY <1>12, <1>13, <2>1 DEF N, end

-----------------------------------------------------------------------------
(* The memory of the network *)

\* The inductive invariant: that of the network, under which every call of a
\* handler names a slot, and the part of it that is about the memory.
MemoryInv ==
    /\ pool \in SoundPools
    /\ pointer \in [Nodes -> [Kept -> Nat]]
    /\ flight \in [Nodes -> [Nodes -> Nat]]

\* What a handler's calls make of it.
LEMMA CallsIs ==
  ASSUME MemoryInv, NEW n \in Nodes, NEW p \in Nat, Calls(n, p),
         stations'[n].calls \in Seq(PoolCalls)
  PROVE  MemoryInv'
<1> DEFINE points == [k \in Slots |-> IF k \in Kept THEN pointer[n][k]
                                      ELSE IF k = "arrived" THEN p ELSE 0]
           none == [to \in Nodes |-> 0]
           start == [pool |-> Dequeue(pool, p), points |-> points, sent |-> none]
           calls == stations'[n].calls
           end == Performed(n, start, calls)
<1>1. start \in Memories
  <2>1. points \in [Slots -> Nat] /\ none \in [Nodes -> Nat]
    BY DEF MemoryInv, Kept, Slots
  <2>2. Dequeue(pool, p) \in SoundPools
    BY QueueIs DEF MemoryInv
  <2> HIDE DEF points, none
  <2> QED BY <2>1, <2>2 DEF Memories
<1>2. /\ pool' = end.pool
      /\ pointer' = [pointer EXCEPT ![n] =
                       [k \in Kept |-> IF Null(stations'[n], k) THEN 0 ELSE end.points[k]]]
      /\ flight' = [to \in Nodes |-> [m \in Nodes |->
                      IF m = n /\ end.sent[to] # 0 THEN end.sent[to]
                      ELSE IF to = n /\ p # 0 /\ flight[to][m] = p THEN 0
                      ELSE flight[to][m]]]
  BY Zenon DEF Calls
<1> HIDE DEF start
<1>3. PICK h \in [0 .. Len(calls) -> Memories] : h[Len(calls)] = end
  BY <1>1, PerformedAre
<1>4. end \in Memories
  <2>1. Len(calls) \in 0 .. Len(calls)
    <3>1. calls \in Seq(PoolCalls)
      OBVIOUS
    <3> HIDE DEF calls
    <3> QED BY <3>1
  <2> HIDE DEF end, calls
  <2> QED BY <1>3, <2>1
<1> HIDE DEF end, calls
<1>5. end.pool \in SoundPools /\ end.points \in [Slots -> Nat] /\ end.sent \in [Nodes -> Nat]
  BY <1>4, MemoryFields
<1>6. pointer' \in [Nodes -> [Kept -> Nat]]
  <2>1. [k \in Kept |-> IF Null(stations'[n], k) THEN 0 ELSE end.points[k]] \in [Kept -> Nat]
    BY <1>5 DEF Kept, Slots
  <2> QED BY <1>2, <2>1 DEF MemoryInv
<1>7. flight' \in [Nodes -> [Nodes -> Nat]]
  BY <1>2, <1>5 DEF MemoryInv
<1> QED BY <1>2, <1>5, <1>6, <1>7 DEF MemoryInv

\* The network under the memory goes its own way.
LEMMA MemoryNextIs == [MemoryNext]_allVars => [Next]_vars
BY DEF MemoryNext, Next, Return, allVars

\* The pool starts empty and every pointer null.
LEMMA MemoryInvInit == MemoryInit => MemoryInv
<1> SUFFICES ASSUME MemoryInit PROVE MemoryInv
  OBVIOUS
<1>1. EmptyPool \in SoundPools
  BY DEF EmptyPool, SoundPools, Pool, Packets
<1> QED BY <1>1 DEF MemoryInit, MemoryInv

\* Every step keeps it.
LEMMA MemoryInvNext == Inv /\ Inv' /\ MemoryInv /\ [MemoryNext]_allVars => MemoryInv'
<1> SUFFICES ASSUME Inv, Inv', MemoryInv, [MemoryNext]_allVars PROVE MemoryInv'
  OBVIOUS
<1>1. \A n \in Nodes : stations'[n].calls \in Seq(PoolCalls)
  <2>1. \A n \in Nodes : stations'[n] \in Station
    BY DEF Inv
  <2> QED BY <2>1 DEF Station
<1>2. ASSUME NEW n \in Nodes, Calls(n, 0) PROVE MemoryInv'
  BY <1>1, <1>2, CallsIs
<1>3. ASSUME NEW a \in air, Calls(a.to, flight[a.to][a.frame.src]) PROVE MemoryInv'
  <2>1. a.to \in Nodes /\ a.frame \in Frame /\ a.frame # NoFrame
    BY DEF Inv, Arrival
  <2>2. a.frame.src \in Nodes
    BY <2>1 DEF Frame
  <2>3. flight[a.to][a.frame.src] \in Nat
    BY <2>1, <2>2 DEF MemoryInv
  <2> QED BY <1>1, <1>3, <2>1, <2>3, CallsIs
<1>4. CASE UNCHANGED memory
  BY <1>4 DEF MemoryInv, memory
<1> QED BY <1>2, <1>3, <1>4 DEF MemoryNext, allVars

\* The free list always holds exactly the packets that are not in use, each
\* once, so that no two allocations return the same packet, in a network of
\* any finite number of stations: not even the packets that WirelessPhy::recv
\* frees twice come to be on it twice.
THEOREM FreeList == MemorySpec => []FreeListIsSound
<1>1. MemoryInit => Inv /\ MemoryInv
  BY InvInit, MemoryInvInit DEF MemoryInit
<1>2. (Inv /\ MemoryInv) /\ [MemoryNext]_allVars => (Inv /\ MemoryInv)'
  BY MemoryNextIs, InvNext, MemoryInvNext
<1>3. Inv /\ MemoryInv => FreeListIsSound
  BY SoundPoolIs DEF MemoryInv
<1> QED BY <1>1, <1>2, <1>3, PTL DEF MemorySpec
=============================================================================
