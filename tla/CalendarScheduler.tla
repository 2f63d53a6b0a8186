-------------------------- MODULE CalendarScheduler --------------------------
(***************************************************************************)
(* The event queue of the simulator, a calendar queue: events are hashed   *)
(* by time into nbuckets_ buckets of width_, each a list sorted by time;   *)
(* deque scans the buckets from the one of the last event.  resize changes *)
(* the number of buckets, or their width only, and files every event anew. *)
(* The search statistics that choose a width are left out: a resize takes  *)
(* any width of Widths.  A step is one call of a handler (schedule or      *)
(* cancel) or one round of Scheduler::run.                                 *)
(***************************************************************************)
EXTENDS Integers, SequencesExt

CONSTANTS
    MaxTime,        \* bound of the times
    MaxTied,        \* bound of the events that are not the first of their time
    Widths          \* the widths a resize may choose

ASSUME CalendarAssumption ==
    MaxTime \in Nat /\ MaxTied \in Nat /\ Widths \subseteq Nat \ {0}

VARIABLES
    clock,          \* clock_
    cal             \* the fields of CalendarScheduler

vars == <<clock, cal>>

Times == 0 .. MaxTime
Event == [time : Times, no : 1 .. MaxTied + 1]    \* see EventQueue

-----------------------------------------------------------------------------
(* The operations, on the fields c *)

Hash(c, t) == (t \div c.width) % c.nbuckets       \* CALENDAR_HASH

\* An empty calendar of n buckets of width w, the last event being of time t.
Reinit(n, w, t) ==
    [buckets |-> [i \in 0 .. n - 1 |-> [list |-> <<>>, count |-> 0]],
     width |-> w, nbuckets |-> n, qsize |-> 0, stat_qsize |-> 0,
     lastbucket |-> (t \div w) % n, cal_clock |-> t]

\* Puts event e at position k of bucket i; new says whether its time is new.
Put(c, i, k, e, new) ==
    LET one == IF new THEN 1 ELSE 0
    IN  [c EXCEPT !.buckets[i] = [list |-> InsertAt(@.list, k, e), count |-> @.count + one],
                  !.qsize = @ + 1, !.stat_qsize = @ + one]

\* Removes the event at position k of bucket i; last says whether no other
\* event has its time.
Unlink(c, i, k, last) ==
    LET one == IF last THEN 1 ELSE 0
    IN  [c EXCEPT !.buckets[i] = [list |-> RemoveAt(@.list, k), count |-> @.count - one],
                  !.qsize = @ - 1, !.stat_qsize = @ - one]

\* Files an event before those of its time (insert2).
Insert2(c, e) ==
    LET i      == Hash(c, e.time)
        list   == c.buckets[i].list
        before == SelectInSeq(list, LAMBDA f : f.time >= e.time)
    IN  Put(c, i, IF before = 0 THEN Len(list) + 1 ELSE before, e,
            before = 0 \/ list[before].time # e.time)

\* Faulty variant: every bucket from its head to its tail.
TailsFirst_headsFirst(c) == FlattenSeq([i \in 1 .. c.nbuckets |-> c.buckets[i - 1].list])

\* All events, bucket by bucket, each bucket from its tail to its head.
TailsFirst(c) == FlattenSeq([i \in 1 .. c.nbuckets |-> Reverse(c.buckets[i - 1].list)])

\* Faulty variant: number and width of the buckets are swapped.
Resize_swapped(c, n, w) == FoldLeft(Insert2, Reinit(w, n, c.cal_clock), TailsFirst(c))

\* A new calendar with the events of c (resize, with reinit).
Resize(c, n, w) ==
    FoldLeft(Insert2, Reinit(IF n < 4 THEN 4 ELSE n, w, c.cal_clock), TailsFirst(c))

\* Files an event after those of its time; more than two times per bucket
\* double the buckets.
Insert(c, e, w) ==
    LET i     == Hash(c, e.time)
        list  == c.buckets[i].list
        after == SelectLastInSeq(list, LAMBDA f : f.time <= e.time)
        now   == IF c.cal_clock > e.time
                 THEN [c EXCEPT !.cal_clock = e.time, !.lastbucket = i] ELSE c
        new   == Put(now, i, after + 1, e, after = 0 \/ list[after].time < e.time)
    IN  IF new.stat_qsize > 2 * c.nbuckets THEN Resize(new, 2 * c.nbuckets, w) ELSE new

\* Faulty variant: the bucket of the last event is searched for a whole year.
HeadBucket_wholeYear(c) ==
    LET At(j)    == (c.lastbucket + j) % c.nbuckets
        First(j) == c.buckets[At(j)].list[1].time
        full     == {j \in 0 .. c.nbuckets - 1 : c.buckets[At(j)].list # <<>>}
        soon     == {j \in full : First(j) - c.cal_clock < c.nbuckets * c.width}
    IN  At(IF soon # {} THEN Min(soon)
           ELSE CHOOSE j \in full : \A k \in full : First(j) <= First(k))

\* The bucket whose head is due next: the first one, from the bucket of the
\* last event on, whose head is due within this year, and otherwise the one
\* with the earliest head.  The limits are diff0_, diff1_ and diff2_; the
\* bucket before the last event's is not asked.
HeadBucket(c) ==
    LET At(j)    == (c.lastbucket + j) % c.nbuckets
        First(j) == c.buckets[At(j)].list[1].time
        Limit(j) == IF j < 2 THEN (c.nbuckets * c.width) \div 2 + j * c.width
                    ELSE c.nbuckets * c.width
        full     == {j \in 0 .. c.nbuckets - 1 : c.buckets[At(j)].list # <<>>}
        soon     == {j \in full \ {c.nbuckets - 1} : First(j) - c.cal_clock < Limit(j)}
    IN  At(IF soon # {} THEN Min(soon)
           ELSE CHOOSE j \in full : \A k \in full : First(j) <= First(k))

\* The event deque returns.
HeadEvent(c) == c.buckets[HeadBucket(c)].list[1]

\* What deque leaves: head moves lastbucket_ and cal_clock_; the statistics may
\* ask for another width (w # width_); a sparse calendar halves its buckets.
Deque(c, w, v) ==
    LET e    == HeadEvent(c)
        at   == [c EXCEPT !.lastbucket = HeadBucket(c), !.cal_clock = e.time]
        wide == IF w = c.width THEN at ELSE Resize(at, c.nbuckets, w)
        i    == wide.lastbucket
        list == wide.buckets[i].list
        left == Unlink(wide, i, 1, Len(list) = 1 \/ list[2].time # e.time)
    IN  IF left.stat_qsize < c.nbuckets \div 2 - 2
        THEN Resize(left, c.nbuckets \div 2, v) ELSE left

\* Faulty variant: only the next event is asked.
CancelEvent_nextOnly(c, e) ==
    LET i    == Hash(c, e.time)
        list == c.buckets[i].list
        k    == SelectInSeq(list, LAMBDA f : f = e)
    IN  Unlink(c, i, k, Len(list) = 1 \/ list[(k % Len(list)) + 1].time # e.time)

\* Takes e out of its bucket; its neighbours in the circular list tell
\* whether its time goes with it.  The calendar is never resized here.
CancelEvent(c, e) ==
    LET i    == Hash(c, e.time)
        list == c.buckets[i].list
        len  == Len(list)
        k    == SelectInSeq(list, LAMBDA f : f = e)
        next == list[(k % len) + 1]
        prev == list[((k + len - 2) % len) + 1]
    IN  Unlink(c, i, k, len = 1 \/ (next.time # e.time /\ prev.time # e.time))

-----------------------------------------------------------------------------
(* The specification *)

Filed == UNION {{l[k] : k \in DOMAIN l} :
                   l \in {cal.buckets[i].list : i \in 0 .. cal.nbuckets - 1}}

Init ==
    /\ clock = 0
    /\ cal = Reinit(4, 1, 0)

\* Scheduler::schedule with a delay that is not negative.
Schedule(t) ==
    /\ t >= clock
    /\ LET same == {e.no : e \in {f \in Filed : f.time = t}}
           no   == IF same = {} THEN 1 ELSE Max(same) + 1
       IN  /\ no > 1 => /\ no <= MaxTied + 1
                       /\ Cardinality({f \in Filed : f.no > 1}) < MaxTied
           /\ \E w \in Widths : cal' = Insert(cal, [time |-> t, no |-> no], w)
    /\ UNCHANGED clock

\* Scheduler::cancel of an event that is in the queue.
Cancel(e) ==
    /\ cal' = CancelEvent(cal, e)
    /\ UNCHANGED clock

\* One round of Scheduler::run: deque and dispatch.
Dispatch ==
    /\ cal.qsize > 0
    /\ clock' = HeadEvent(cal).time
    /\ \E w \in Widths \cup {cal.width}, v \in Widths : cal' = Deque(cal, w, v)

Next ==
    \/ \E t \in Times : Schedule(t)
    \/ \E e \in Filed : Cancel(e)
    \/ Dispatch

Spec == Init /\ [][Next]_vars

-----------------------------------------------------------------------------
(* Properties *)

\* Type invariant.
TypeOK ==
    /\ clock \in Times
    /\ cal.nbuckets >= 4 /\ cal.width \in Nat \ {0}
    /\ cal.lastbucket \in 0 .. cal.nbuckets - 1 /\ cal.cal_clock \in Times
    /\ DOMAIN cal.buckets = 0 .. cal.nbuckets - 1
    /\ \A i \in 0 .. cal.nbuckets - 1 : cal.buckets[i].list \in Seq(Event)

\* stat_qsize_ and the buckets' count_ stay the numbers of distinct times, and
\* qsize_ that of the events, through every insertion, removal and resize:
\* they decide when to resize, and the assertions of newwidth and cancel
\* rest on them.
CountsAreDistinctTimes ==
    LET DistinctIn(l) == Cardinality({l[k].time : k \in DOMAIN l})
    IN  /\ \A i \in 0 .. cal.nbuckets - 1 :
             cal.buckets[i].count = DistinctIn(cal.buckets[i].list)
        /\ cal.stat_qsize = Cardinality({e.time : e \in Filed})
        /\ cal.qsize = Cardinality(Filed)

\* The calendar is an event queue: events leave it by time and, among those
\* of one time, in the order they were scheduled, whatever resizes happen in
\* between.
Queue == INSTANCE EventQueue WITH pending <- Filed, Numbers <- 1 .. MaxTied + 1
QueueSpec == Queue!Spec

\* No event in the calendar lies in the past.
NeverBackwards == Queue!NeverBackwards
=============================================================================
