----------------------------- MODULE EventQueue -----------------------------
(***************************************************************************)
(* What Scheduler promises: pending events, of which run takes the one     *)
(* with the smallest time and, among those of one time, the one scheduled  *)
(* first.  An event is its time and its number among the events of that    *)
(* time, the order in which Scheduler::schedule gave out their uid_s.      *)
(***************************************************************************)
EXTENDS Naturals, FiniteSets

CONSTANTS
    Times,      \* the instants, natural numbers with 0
    Numbers     \* the numbers events of one time may have

VARIABLES
    clock,      \* clock_, the time of the event dispatched last
    pending     \* the events in the queue

queueVars == <<clock, pending>>

Event == [time : Times, no : Numbers]

\* e is dispatched before f.
Before(e, f) == e.time < f.time \/ (e.time = f.time /\ e.no < f.no)

Init ==
    /\ clock = 0            \* SCHED_START
    /\ pending = {}

\* A handler schedules an event for the present or for later.
Schedule(e) ==
    /\ clock <= e.time
    /\ \A f \in pending : f.time = e.time => Before(f, e)
    /\ pending' = pending \cup {e}
    /\ UNCHANGED clock

Cancel(e) ==
    /\ e \in pending
    /\ pending' = pending \ {e}
    /\ UNCHANGED clock

\* Scheduler::run takes the next event and sets the clock to its time.
Dispatch(e) ==
    /\ e \in pending
    /\ \A f \in pending \ {e} : Before(e, f)
    /\ clock' = e.time
    /\ pending' = pending \ {e}

Next == \E e \in Event : Schedule(e) \/ Cancel(e) \/ Dispatch(e)

Spec == Init /\ [][Next]_queueVars

-----------------------------------------------------------------------------
(* Properties *)

\* Type invariant.
TypeOK == clock \in Times /\ pending \subseteq Event

\* No pending event lies in the past, so that Scheduler::dispatch never has to
\* abort with "scheduler going backwards in time".
NeverBackwards == \A e \in pending : clock <= e.time
=============================================================================
