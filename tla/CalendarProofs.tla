---------------------------- MODULE CalendarProofs ----------------------------
(***************************************************************************)
(* The calendar queue implements the event queue, for any times and any    *)
(* widths that its resizes may choose: through every insertion, removal    *)
(* and resize the buckets stay sorted lists, the counts are those of the   *)
(* events, and the scan of head finds the event that is due next.          *)
(***************************************************************************)
EXTENDS CalendarScheduler, TLAPS, FiniteSetTheorems, SequenceTheorems

-----------------------------------------------------------------------------
(* Numbers *)

\* Every nonempty set of natural numbers has a least member: what the
\* inductions below rest on.
LEMMA Least ==
    ASSUME NEW S \in SUBSET Nat, S # {}
    PROVE  \E k \in S : \A n \in S : k <= n
<1>1. PICK k \in S : \A n \in S : ~ (<<n, k>> \in OpToRel(<, Nat))
  BY WFMin, NatLessThanWellFounded
<1>2. \A n \in S : ~ (n < k)
  BY <1>1 DEF OpToRel
<1> QED
  BY <1>2

\* Min and Max are what they are called, wherever they exist.
LEMMA MinIsLeast ==
    ASSUME NEW S \in SUBSET Nat, S # {}
    PROVE  Min(S) \in S /\ \A n \in S : Min(S) <= n
<1>1. \E k \in S : \A n \in S : k =< n
  BY Least
<1> QED
  BY <1>1 DEF Min

\* A bounded set has a maximum.
LEMMA MaxIsGreatest ==
    ASSUME NEW B \in Nat, NEW S \in SUBSET (0 .. B), S # {}
    PROVE  Max(S) \in S /\ \A n \in S : Max(S) >= n
<1> DEFINE R == {k \in 0 .. B : B - k \in S}
<1>1. R \in SUBSET Nat
  OBVIOUS
<1>2. R # {}
  <2>1. PICK n \in S : TRUE
    OBVIOUS
  <2>2. B - n \in R
    BY <2>1
  <2> QED
    BY <2>2
<1>3. PICK k \in R : \A n \in R : k <= n
  <2> HIDE DEF R
  <2> QED
    BY <1>1, <1>2, Least
<1>4. ASSUME NEW n \in S
      PROVE  B - k >= n
  <2>1. B - n \in R
    OBVIOUS
  <2>2. k <= B - n /\ k \in Nat /\ n \in Nat
    BY <1>3, <2>1
  <2> QED
    BY <2>2
<1>5. \E x \in S : \A y \in S : x >= y
  BY <1>3, <1>4
<1> QED
  BY <1>5 DEF Max

-----------------------------------------------------------------------------
(* The inductive invariant *)

\* e comes out before f.
Earlier(e, f) == e.time < f.time \/ (e.time = f.time /\ e.no < f.no)

\* What is in a list, and its times.
In(l) == {l[k] : k \in DOMAIN l}
TimesOf(E) == {e.time : e \in E}

\* A list in the order in which its events come out.
Ordered(l) == \A j, k \in DOMAIN l : j < k => Earlier(l[j], l[k])

\* A calendar of n buckets, of any contents.
Bucket == [list : Seq(Event), count : Int]
Calendar(n) ==
    [ buckets : [0 .. n - 1 -> Bucket], width : Nat \ {0}, nbuckets : {n},
      qsize : Int, stat_qsize : Int, lastbucket : 0 .. n - 1, cal_clock : Times ]

\* The events of a calendar.
FiledIn(c) == UNION {In(c.buckets[i].list) : i \in 0 .. c.nbuckets - 1}

\* Every bucket is in order and holds the times that are hashed to it, each
\* counted once.
BucketsOK(c) ==
    \A i \in 0 .. c.nbuckets - 1 :
        /\ Ordered(c.buckets[i].list)
        /\ \A e \in In(c.buckets[i].list) : Hash(c, e.time) = i
        /\ c.buckets[i].count = Cardinality(TimesOf(In(c.buckets[i].list)))

\* The counts of the whole calendar.
CountsOK(c) ==
    /\ IsFiniteSet(FiledIn(c))
    /\ c.qsize = Cardinality(FiledIn(c))
    /\ c.stat_qsize = Cardinality(TimesOf(FiledIn(c)))

\* A calendar as every operation leaves it.
Good(c, n) == c \in Calendar(n) /\ BucketsOK(c) /\ CountsOK(c)

-----------------------------------------------------------------------------
(* Lists *)

\* The first elements of a sequence, and the rest.
LEMMA FirstPart ==
    ASSUME NEW S, NEW l \in Seq(S), NEW a \in 0 .. Len(l)
    PROVE  /\ SubSeq(l, 1, a) \in Seq(S) /\ Len(SubSeq(l, 1, a)) = a
           /\ \A j \in 1 .. a : SubSeq(l, 1, a)[j] = l[j]
<1>1. Len(l) \in Nat /\ \A j \in 1 .. Len(l) : l[j] \in S
  BY LenProperties, ElementOfSeq
<1> QED
  BY <1>1, SubSeqProperties

LEMMA LastPart ==
    ASSUME NEW S, NEW l \in Seq(S), NEW a \in 0 .. Len(l)
    PROVE  /\ SubSeq(l, a + 1, Len(l)) \in Seq(S) /\ Len(SubSeq(l, a + 1, Len(l))) = Len(l) - a
           /\ \A j \in 1 .. Len(l) - a : SubSeq(l, a + 1, Len(l))[j] = l[a + j]
<1> DEFINE L == Len(l)
           t == SubSeq(l, a + 1, L)
<1>1. L \in Nat /\ \A j \in 1 .. L : l[j] \in S
  BY LenProperties, ElementOfSeq
<1> HIDE DEF L
<1>2. a \in 0 .. L
  BY DEF L
<1>3. /\ t \in Seq(S) /\ Len(t) = (IF a + 1 <= L THEN L - (a + 1) + 1 ELSE 0)
      /\ \A j \in 1 .. L - (a + 1) + 1 : t[j] = l[(a + 1) + j - 1]
  <2>1. a + 1 \in Int /\ L \in Int /\ \A j \in a + 1 .. L : l[j] \in S
    BY <1>1, <1>2
  <2> QED
    BY <2>1, SubSeqProperties
<1> HIDE DEF t
<1>4. Len(t) = L - a
  BY <1>1, <1>2, <1>3
<1>5. \A j \in 1 .. L - a : j \in 1 .. L - (a + 1) + 1 /\ (a + 1) + j - 1 = a + j
  BY <1>1, <1>2
<1> QED
  BY <1>3, <1>4, <1>5 DEF L, t

\* InsertAt leaves what is before its place and moves the rest by one.
LEMMA InsertAtPlaces ==
    ASSUME NEW S, NEW l \in Seq(S), NEW e \in S, NEW k \in 1 .. Len(l) + 1
    PROVE  LET r == InsertAt(l, k, e)
           IN  /\ r \in Seq(S) /\ Len(r) = Len(l) + 1
               /\ \A j \in 1 .. k - 1 : r[j] = l[j]
               /\ r[k] = e
               /\ \A j \in k .. Len(l) : r[j + 1] = l[j]
<1> DEFINE L == Len(l)
           s == SubSeq(l, 1, k - 1)
           t == SubSeq(l, k, L)
           u == s \o <<e>>
           r == InsertAt(l, k, e)
<1>1. L \in Nat /\ k \in Nat /\ k - 1 \in 0 .. L /\ (k - 1) + 1 = k
  BY LenProperties
<1>2. s \in Seq(S) /\ Len(s) = k - 1 /\ \A j \in 1 .. k - 1 : s[j] = l[j]
  BY <1>1, FirstPart
<1>3. t \in Seq(S) /\ Len(t) = L - (k - 1) /\ \A j \in 1 .. L - (k - 1) : t[j] = l[(k - 1) + j]
  BY <1>1, LastPart
<1>4. r = u \o t
  BY DEF InsertAt
<1> HIDE DEF s, t, r, L
<1>5. <<e>> \in Seq(S) /\ Len(<<e>>) = 1 /\ <<e>>[1] = e
  OBVIOUS
<1>6. u \in Seq(S) /\ Len(u) = k /\ (\A j \in 1 .. k - 1 : u[j] = l[j]) /\ u[k] = e
  <2>1. /\ u \in Seq(S) /\ Len(u) = Len(s) + Len(<<e>>)
        /\ \A i \in 1 .. Len(s) + Len(<<e>>) :
              u[i] = IF i <= Len(s) THEN s[i] ELSE <<e>>[i - Len(s)]
    BY <1>2, <1>5, ConcatProperties
  <2>2. \A i \in 1 .. k : u[i] = IF i <= k - 1 THEN s[i] ELSE <<e>>[i - (k - 1)]
    BY <1>1, <1>2, <1>5, <2>1
  <2>3. k \in 1 .. k /\ ~ (k <= k - 1) /\ k - (k - 1) = 1
    BY <1>1
  <2>4. \A j \in 1 .. k - 1 : j \in 1 .. k /\ j <= k - 1
    BY <1>1
  <2> HIDE DEF u
  <2> QED
    BY <1>1, <1>2, <1>5, <2>1, <2>2, <2>3, <2>4
<1> HIDE DEF u
<1>7. /\ r \in Seq(S) /\ Len(r) = L + 1
      /\ \A i \in 1 .. L + 1 : r[i] = IF i <= k THEN u[i] ELSE t[i - k]
  <2>1. /\ r \in Seq(S) /\ Len(r) = Len(u) + Len(t)
        /\ \A i \in 1 .. Len(u) + Len(t) : r[i] = IF i <= Len(u) THEN u[i] ELSE t[i - Len(u)]
    BY <1>3, <1>4, <1>6, ConcatProperties
  <2>2. Len(u) + Len(t) = L + 1
    BY <1>1, <1>3, <1>6
  <2> QED
    BY <1>6, <2>1, <2>2
<1>8. ASSUME NEW j \in k .. L
      PROVE  r[j + 1] = l[j]
  <2>1. j + 1 \in 1 .. L + 1 /\ ~ (j + 1 <= k) /\ (j + 1) - k \in 1 .. L - (k - 1)
        /\ (k - 1) + ((j + 1) - k) = j
    BY <1>1
  <2> QED
    BY <1>3, <1>7, <2>1
<1>9. (\A j \in 1 .. k - 1 : r[j] = l[j]) /\ r[k] = e
  BY <1>1, <1>6, <1>7
<1> QED
  BY <1>7, <1>8, <1>9 DEF r, L

\* RemoveAt leaves what is before its place and moves back the rest.
LEMMA RemoveAtPlaces ==
    ASSUME NEW S, NEW l \in Seq(S), NEW k \in 1 .. Len(l)
    PROVE  LET r == RemoveAt(l, k)
           IN  /\ r \in Seq(S) /\ Len(r) = Len(l) - 1
               /\ \A j \in 1 .. k - 1 : r[j] = l[j]
               /\ \A j \in k .. Len(l) - 1 : r[j] = l[j + 1]
<1> DEFINE L == Len(l)
           s == SubSeq(l, 1, k - 1)
           t == SubSeq(l, k + 1, L)
           r == RemoveAt(l, k)
<1>1. L \in Nat /\ k \in Nat /\ k \in 1 .. L /\ k - 1 \in 0 .. L /\ k \in 0 .. L
  BY LenProperties
<1>2. s \in Seq(S) /\ Len(s) = k - 1 /\ \A j \in 1 .. k - 1 : s[j] = l[j]
  BY <1>1, FirstPart
<1>3. t \in Seq(S) /\ Len(t) = L - k /\ \A j \in 1 .. L - k : t[j] = l[k + j]
  BY <1>1, LastPart
<1>4. r = s \o t
  BY DEF RemoveAt
<1> HIDE DEF s, t, r, L
<1>5. /\ r \in Seq(S) /\ Len(r) = L - 1
      /\ \A i \in 1 .. L - 1 : r[i] = IF i <= k - 1 THEN s[i] ELSE t[i - (k - 1)]
  <2>1. /\ r \in Seq(S) /\ Len(r) = Len(s) + Len(t)
        /\ \A i \in 1 .. Len(s) + Len(t) : r[i] = IF i <= Len(s) THEN s[i] ELSE t[i - Len(s)]
    BY <1>2, <1>3, <1>4, ConcatProperties
  <2>2. Len(s) + Len(t) = L - 1
    BY <1>1, <1>2, <1>3
  <2> QED
    BY <1>2, <2>1, <2>2
<1>6. ASSUME NEW j \in k .. L - 1
      PROVE  r[j] = l[j + 1]
  <2>1. j \in 1 .. L - 1 /\ ~ (j <= k - 1) /\ j - (k - 1) \in 1 .. L - k
        /\ k + (j - (k - 1)) = j + 1
    BY <1>1
  <2> QED
    BY <1>3, <1>5, <2>1
<1>7. \A j \in 1 .. k - 1 : r[j] = l[j]
  BY <1>1, <1>2, <1>5
<1> QED
  BY <1>5, <1>6, <1>7 DEF r, L

\* Events have times and numbers.
LEMMA EventIs ==
    ASSUME NEW e \in Event
    PROVE  e.time \in Times /\ e.time \in Nat /\ e.time <= MaxTime /\ e.no \in 1 .. MaxTied + 1
  BY CalendarAssumption DEF Event, Times

\* Of two events that differ, one is earlier, and never both are.
LEMMA EarlierIsAnOrder ==
    ASSUME NEW e \in Event, NEW f \in Event
    PROVE  /\ e # f => Earlier(e, f) \/ Earlier(f, e)
           /\ ~ Earlier(e, e)
           /\ Earlier(e, f) => e # f /\ ~ Earlier(f, e) /\ e.time <= f.time
           /\ \A g \in Event : Earlier(e, f) /\ Earlier(f, g) => Earlier(e, g)
<1>1. \A g \in Event : g.time \in Nat /\ g.no \in Nat /\ g = [time |-> g.time, no |-> g.no]
  BY CalendarAssumption DEF Event, Times
<1>2. e.time = f.time /\ e.no = f.no => e = f
  BY <1>1
<1> QED
  BY <1>1, <1>2 DEF Earlier

\* What a list holds.
LEMMA InOfList ==
    ASSUME NEW l \in Seq(Event)
    PROVE  /\ Len(l) \in Nat /\ DOMAIN l = 1 .. Len(l)
           /\ \A k \in 1 .. Len(l) : l[k] \in Event /\ l[k] \in In(l)
           /\ In(l) \subseteq Event /\ IsFiniteSet(In(l))
           /\ \A e \in In(l) : \E k \in 1 .. Len(l) : l[k] = e
<1>1. Len(l) \in Nat /\ DOMAIN l = 1 .. Len(l) /\ \A k \in 1 .. Len(l) : l[k] \in Event
  BY LenProperties, ElementOfSeq
<1>2. IsFiniteSet(In(l))
  <2>1. IsFiniteSet(1 .. Len(l))
    BY <1>1, FS_Interval
  <2>2. In(l) = {l[k] : k \in 1 .. Len(l)}
    BY <1>1 DEF In
  <2> DEFINE f == [k \in 1 .. Len(l) |-> l[k]]
  <2>3. f \in Surjection(1 .. Len(l), In(l))
    BY <2>2 DEF Surjection
  <2> QED
    BY <2>1, <2>3, FS_Surjection
<1> QED
  BY <1>1, <1>2 DEF In

\* An event is put in its place.
LEMMA Inserted ==
    ASSUME NEW l \in Seq(Event), Ordered(l), NEW e \in Event, NEW k \in 1 .. Len(l) + 1,
           \A j \in 1 .. k - 1 : Earlier(l[j], e),
           \A j \in k .. Len(l) : Earlier(e, l[j])
    PROVE  LET r == InsertAt(l, k, e)
           IN  r \in Seq(Event) /\ Ordered(r) /\ In(r) = In(l) \cup {e} /\ e \notin In(l)
<1> DEFINE r == InsertAt(l, k, e)
           L == Len(l)
           old(j) == IF j < k THEN j ELSE j - 1
<1>1. /\ r \in Seq(Event) /\ Len(r) = L + 1
      /\ \A j \in 1 .. k - 1 : r[j] = l[j]
      /\ r[k] = e
      /\ \A j \in k .. L : r[j + 1] = l[j]
  BY InsertAtPlaces
<1> HIDE DEF r
<1>2. /\ L \in Nat /\ k \in 1 .. L + 1 /\ DOMAIN l = 1 .. L /\ DOMAIN r = 1 .. L + 1
      /\ \A j \in 1 .. L : l[j] \in Event
  BY <1>1, InOfList
<1> HIDE DEF L
<1>3. \A j \in DOMAIN r : j # k =>
         old(j) \in 1 .. L /\ r[j] = l[old(j)] /\ (j < k <=> old(j) < k)
  <2>1. ASSUME NEW j \in DOMAIN r, j < k
        PROVE  old(j) \in 1 .. L /\ r[j] = l[old(j)] /\ (j < k <=> old(j) < k)
    BY <1>1, <1>2, <2>1
  <2>2. ASSUME NEW j \in DOMAIN r, k < j
        PROVE  old(j) \in 1 .. L /\ r[j] = l[old(j)] /\ (j < k <=> old(j) < k)
    <3>1. j - 1 \in k .. L /\ (j - 1) + 1 = j /\ ~ (j < k)
      BY <1>2, <2>2
    <3>2. r[j] = l[j - 1]
      BY <1>1, <3>1
    <3> QED
      BY <1>2, <3>1, <3>2
  <2> QED
    BY <1>2, <2>1, <2>2
<1>4. \A i, j \in DOMAIN r : i # k /\ j # k /\ i < j => old(i) < old(j)
  BY <1>2
<1>5. \A j \in 1 .. L : (j < k => Earlier(l[j], e)) /\ (~ (j < k) => Earlier(e, l[j]))
  BY <1>2 DEF L
<1>6. Ordered(r)
  <2>1. ASSUME NEW i \in DOMAIN r, NEW j \in DOMAIN r, i < j
        PROVE  Earlier(r[i], r[j])
    <3>1. CASE i = k
      <4>1. j # k /\ ~ (j < k)
        BY <1>2, <2>1, <3>1
      <4> HIDE DEF old
      <4>2. old(j) \in 1 .. L /\ r[j] = l[old(j)] /\ ~ (old(j) < k)
        BY <1>3, <4>1
      <4> QED
        BY <1>1, <1>5, <3>1, <4>2
    <3>2. CASE j = k
      <4>1. i # k /\ i < k
        BY <1>2, <2>1, <3>2
      <4> HIDE DEF old
      <4>2. old(i) \in 1 .. L /\ r[i] = l[old(i)] /\ old(i) < k
        BY <1>3, <4>1
      <4> QED
        BY <1>1, <1>5, <3>2, <4>2
    <3>3. CASE i # k /\ j # k
      <4>1. old(i) \in 1 .. L /\ old(j) \in 1 .. L /\ r[i] = l[old(i)] /\ r[j] = l[old(j)]
            /\ old(i) < old(j)
        BY <1>3, <1>4, <2>1, <3>3
      <4> HIDE DEF old
      <4> QED
        BY <1>2, <4>1 DEF Ordered
    <3> QED
      BY <3>1, <3>2, <3>3
  <2> QED
    BY <2>1 DEF Ordered
<1>7. In(r) = In(l) \cup {e}
  <2>1. In(r) \subseteq In(l) \cup {e}
    <3> HIDE DEF old
    <3> QED
      BY <1>1, <1>2, <1>3 DEF In
  <2>2. k \in DOMAIN r
    BY <1>2
  <2>3. \A j \in 1 .. L : \E i \in DOMAIN r : r[i] = l[j]
    <3>1. ASSUME NEW j \in 1 .. L
          PROVE  \E i \in DOMAIN r : r[i] = l[j]
      <4>1. CASE j < k
        BY <1>1, <1>2, <4>1
      <4>2. CASE ~ (j < k)
        <5>1. j \in k .. L /\ j + 1 \in DOMAIN r
          BY <1>2, <4>2
        <5>2. r[j + 1] = l[j]
          BY <1>1, <5>1
        <5> QED
          BY <5>1, <5>2
      <4> QED
        BY <4>1, <4>2
    <3> QED
      BY <3>1
  <2>4. e \in In(r)
    BY <1>1, <2>2 DEF In
  <2>5. In(l) \subseteq In(r)
    BY <1>2, <2>3 DEF In
  <2> QED
    BY <2>1, <2>4, <2>5
<1>8. e \notin In(l)
  BY <1>2, <1>5, EarlierIsAnOrder DEF In
<1> QED
  BY <1>1, <1>6, <1>7, <1>8 DEF r

\* An event is taken out.
LEMMA Removed ==
    ASSUME NEW l \in Seq(Event), Ordered(l), NEW k \in 1 .. Len(l)
    PROVE  LET r == RemoveAt(l, k)
           IN  r \in Seq(Event) /\ Ordered(r) /\ In(r) = In(l) \ {l[k]}
<1> DEFINE r == RemoveAt(l, k)
           L == Len(l)
           new(j) == IF j < k THEN j ELSE j + 1
<1>1. /\ r \in Seq(Event) /\ Len(r) = L - 1
      /\ \A j \in 1 .. k - 1 : r[j] = l[j]
      /\ \A j \in k .. L - 1 : r[j] = l[j + 1]
  BY RemoveAtPlaces
<1> HIDE DEF r
<1>2. /\ L \in Nat /\ k \in 1 .. L /\ DOMAIN l = 1 .. L /\ DOMAIN r = 1 .. L - 1
      /\ \A j \in 1 .. L : l[j] \in Event
  BY <1>1, InOfList
<1> HIDE DEF L
<1>3. \A j \in DOMAIN r : new(j) \in 1 .. L /\ new(j) # k /\ r[j] = l[new(j)]
  BY <1>1, <1>2
<1>4. \A i, j \in DOMAIN r : i < j => new(i) < new(j)
  BY <1>2
<1>5. \A j \in 1 .. L : j # k => \E i \in DOMAIN r : new(i) = j
  <2>1. ASSUME NEW j \in 1 .. L, j < k
        PROVE  j \in DOMAIN r /\ new(j) = j
    BY <1>2, <2>1
  <2>2. ASSUME NEW j \in 1 .. L, k < j
        PROVE  j - 1 \in DOMAIN r /\ new(j - 1) = j
    BY <1>2, <2>2
  <2> HIDE DEF new
  <2> QED
    BY <1>2, <2>1, <2>2
<1> HIDE DEF new
<1>6. Ordered(r)
  BY <1>2, <1>3, <1>4 DEF Ordered
<1>7. \A i, j \in 1 .. L : l[i] = l[j] => i = j
  <2>1. ASSUME NEW i \in 1 .. L, NEW j \in 1 .. L, i < j
        PROVE  l[i] # l[j]
    BY <1>2, <2>1, EarlierIsAnOrder DEF Ordered
  <2> QED
    BY <1>2, <2>1
<1>8. In(r) = In(l) \ {l[k]}
  <2>1. \A j \in 1 .. L : j # k => l[j] \in In(r)
    BY <1>3, <1>5 DEF In
  <2>2. \A j \in DOMAIN r : r[j] \in In(l) /\ r[j] # l[k]
    BY <1>2, <1>3, <1>7 DEF In
  <2> QED
    BY <1>2, <2>1, <2>2 DEF In
<1> QED
  BY <1>1, <1>6, <1>8 DEF r

-----------------------------------------------------------------------------
(* Sets of events *)

\* One event more, and its time when it is new.
LEMMA CountMore ==
    ASSUME NEW E \in SUBSET Event, IsFiniteSet(E), NEW e \in Event, e \notin E
    PROVE  /\ IsFiniteSet(E \cup {e}) /\ Cardinality(E) \in Nat
           /\ Cardinality(E \cup {e}) = Cardinality(E) + 1
           /\ Cardinality(TimesOf(E)) \in Nat
           /\ Cardinality(TimesOf(E \cup {e})) =
                 Cardinality(TimesOf(E)) + (IF e.time \in TimesOf(E) THEN 0 ELSE 1)
<1>1. IsFiniteSet(TimesOf(E))
  <2> DEFINE f == [x \in E |-> x.time]
  <2>1. f \in Surjection(E, TimesOf(E))
    BY DEF Surjection, TimesOf
  <2> QED
    BY <2>1, FS_Surjection
<1>2. TimesOf(E \cup {e}) = TimesOf(E) \cup {e.time}
  BY DEF TimesOf
<1>3. Cardinality(E) \in Nat /\ Cardinality(TimesOf(E)) \in Nat
  BY <1>1, FS_CardinalityType
<1>4. CASE e.time \in TimesOf(E)
  <2>1. TimesOf(E \cup {e}) = TimesOf(E)
    BY <1>2, <1>4
  <2> QED
    BY <1>3, <1>4, <2>1, FS_AddElement
<1>5. CASE e.time \notin TimesOf(E)
  BY <1>1, <1>2, <1>3, <1>5, FS_AddElement
<1> QED
  BY <1>4, <1>5

\* One event less, and its time when no other has it.
LEMMA CountLess ==
    ASSUME NEW E \in SUBSET Event, IsFiniteSet(E), NEW e \in E
    PROVE  /\ IsFiniteSet(E \ {e}) /\ Cardinality(E) \in Nat
           /\ Cardinality(E \ {e}) = Cardinality(E) - 1
           /\ Cardinality(TimesOf(E)) \in Nat
           /\ Cardinality(TimesOf(E \ {e})) =
                 Cardinality(TimesOf(E)) - (IF e.time \in TimesOf(E \ {e}) THEN 0 ELSE 1)
<1>1. IsFiniteSet(E \ {e}) /\ E \ {e} \in SUBSET Event /\ e \in Event /\ e \notin E \ {e}
      /\ (E \ {e}) \cup {e} = E
  BY FS_RemoveElement
<1> DEFINE D == E \ {e}
<1> HIDE DEF D
<1>2. /\ IsFiniteSet(D \cup {e}) /\ Cardinality(D) \in Nat
      /\ Cardinality(D \cup {e}) = Cardinality(D) + 1
      /\ Cardinality(TimesOf(D)) \in Nat
      /\ Cardinality(TimesOf(D \cup {e})) =
            Cardinality(TimesOf(D)) + (IF e.time \in TimesOf(D) THEN 0 ELSE 1)
  <2>1. IsFiniteSet(D) /\ D \in SUBSET Event /\ e \in Event /\ e \notin D
    BY <1>1 DEF D
  <2> QED
    BY <2>1, CountMore
<1>3. D \cup {e} = E
  BY <1>1 DEF D
<1>4. Cardinality(E) = Cardinality(D) + 1
      /\ Cardinality(TimesOf(E)) = Cardinality(TimesOf(D)) + (IF e.time \in TimesOf(D) THEN 0 ELSE 1)
  BY <1>2, <1>3
<1> QED
  BY <1>1, <1>2, <1>4 DEF D

-----------------------------------------------------------------------------
(* Calendars *)

\* A number modulo n.
LEMMA Modulo ==
    ASSUME NEW n \in Nat \ {0}, NEW w \in Nat \ {0}, NEW t \in Nat
    PROVE  t \div w \in Nat /\ (t \div w) % n \in 0 .. n - 1
<1>1. t \div w \in Nat
  OBVIOUS
<1>2. \A a \in Nat : a % n \in 0 .. n - 1
  OBVIOUS
<1> QED
  BY <1>1, <1>2

\* The parts of a calendar.
LEMMA CalendarIs ==
    ASSUME NEW n \in Nat \ {0}, NEW c \in Calendar(n)
    PROVE  /\ c.nbuckets = n /\ c.width \in Nat \ {0} /\ c.qsize \in Int /\ c.stat_qsize \in Int
           /\ c.lastbucket \in 0 .. n - 1 /\ c.cal_clock \in Times /\ c.cal_clock \in Nat
           /\ c.buckets \in [0 .. n - 1 -> Bucket]
           /\ \A i \in 0 .. n - 1 : /\ c.buckets[i].list \in Seq(Event)
                                    /\ c.buckets[i].count \in Int
                                    /\ In(c.buckets[i].list) \subseteq FiledIn(c)
           /\ \A t \in Nat : Hash(c, t) \in 0 .. n - 1
           /\ FiledIn(c) \subseteq Event
           /\ \A e \in FiledIn(c) : \E i \in 0 .. n - 1 : e \in In(c.buckets[i].list)
<1>1. /\ c.nbuckets = n /\ c.width \in Nat \ {0} /\ c.qsize \in Int /\ c.stat_qsize \in Int
      /\ c.lastbucket \in 0 .. n - 1 /\ c.cal_clock \in Times
      /\ c.buckets \in [0 .. n - 1 -> Bucket]
  BY DEF Calendar
<1>2. \A i \in 0 .. n - 1 : c.buckets[i].list \in Seq(Event) /\ c.buckets[i].count \in Int
  BY <1>1 DEF Bucket
<1>3. \A i \in 0 .. n - 1 : In(c.buckets[i].list) \subseteq Event
  BY <1>2, InOfList
<1>4. FiledIn(c) = UNION {In(c.buckets[i].list) : i \in 0 .. n - 1}
  BY <1>1 DEF FiledIn
<1>5. \A t \in Nat : Hash(c, t) \in 0 .. n - 1
  BY <1>1, Modulo DEF Hash
<1>6. c.cal_clock \in Nat
  BY <1>1, CalendarAssumption DEF Times
<1> QED
  BY <1>1, <1>2, <1>3, <1>4, <1>5, <1>6

\* Every event is in the bucket of its time.
LEMMA InItsBucket ==
    ASSUME NEW n \in Nat \ {0}, NEW c \in Calendar(n), BucketsOK(c), NEW t \in Nat
    PROVE  \A e \in Event : e.time = t =>
              (e \in FiledIn(c) <=> e \in In(c.buckets[Hash(c, t)].list))
<1>1. c.nbuckets = n /\ Hash(c, t) \in 0 .. n - 1
  BY CalendarIs
<1>2. \A i \in 0 .. n - 1 : \A e \in In(c.buckets[i].list) : Hash(c, e.time) = i
  BY <1>1 DEF BucketsOK
<1>3. ASSUME NEW e \in Event, e.time = t, e \in FiledIn(c)
      PROVE  e \in In(c.buckets[Hash(c, t)].list)
  <2>1. PICK i \in 0 .. n - 1 : e \in In(c.buckets[i].list)
    BY <1>3, CalendarIs
  <2>2. Hash(c, e.time) = i
    BY <1>2, <2>1
  <2> QED
    BY <1>3, <2>1, <2>2
<1>4. In(c.buckets[Hash(c, t)].list) \subseteq FiledIn(c)
  BY <1>1, CalendarIs
<1> QED
  BY <1>3, <1>4

\* The times of a bucket are those of the calendar that are hashed to it.
LEMMA TimeInItsBucket ==
    ASSUME NEW n \in Nat \ {0}, NEW c \in Calendar(n), BucketsOK(c), NEW t \in Nat,
           NEW E, E = FiledIn(c) \/ \E x \in Event : x.time = t /\ E = FiledIn(c) \ {x},
           NEW B, B = E \cap In(c.buckets[Hash(c, t)].list)
    PROVE  t \in TimesOf(E) <=> t \in TimesOf(B)
<1>1. E \subseteq FiledIn(c) /\ E \subseteq Event
  BY CalendarIs
<1>2. \A x \in E : x.time = t => x \in B
  BY <1>1, InItsBucket
<1> QED
  BY <1>2 DEF TimesOf

\* One bucket of a calendar gets other contents.
LEMMA OtherBucket ==
    ASSUME NEW n \in Nat \ {0}, NEW c \in Calendar(n), BucketsOK(c), NEW i \in 0 .. n - 1,
           NEW b \in Bucket, Ordered(b.list), \A e \in In(b.list) : Hash(c, e.time) = i,
           b.count = Cardinality(TimesOf(In(b.list))),
           NEW d \in Calendar(n), d.width = c.width, d.buckets = [c.buckets EXCEPT ![i] = b]
    PROVE  /\ BucketsOK(d)
           /\ FiledIn(d) = (FiledIn(c) \ In(c.buckets[i].list)) \cup In(b.list)
<1>1. c.nbuckets = n /\ d.nbuckets = n /\ c.buckets \in [0 .. n - 1 -> Bucket]
  BY DEF Calendar
<1>2. /\ c.nbuckets = n /\ d.nbuckets = n /\ d.buckets[i] = b
      /\ \A j \in 0 .. n - 1 : j # i => d.buckets[j] = c.buckets[j]
  BY <1>1
<1>3. \A t : Hash(d, t) = Hash(c, t)
  BY <1>1 DEF Hash
<1>4. BucketsOK(d)
  BY <1>2, <1>3 DEF BucketsOK
<1>5. /\ FiledIn(c) = UNION {In(c.buckets[j].list) : j \in 0 .. n - 1}
      /\ FiledIn(d) = UNION {In(d.buckets[j].list) : j \in 0 .. n - 1}
  BY <1>2 DEF FiledIn
<1>6. \A j \in 0 .. n - 1 : j # i => In(c.buckets[j].list) \cap In(c.buckets[i].list) = {}
  BY <1>2 DEF BucketsOK
<1>7. FiledIn(d) = (FiledIn(c) \ In(c.buckets[i].list)) \cup In(b.list)
  <2>1. ASSUME NEW x \in FiledIn(d)
        PROVE  x \in (FiledIn(c) \ In(c.buckets[i].list)) \cup In(b.list)
    <3>1. PICK j \in 0 .. n - 1 : x \in In(d.buckets[j].list)
      BY <1>5, <2>1
    <3> QED
      BY <1>2, <1>5, <1>6, <3>1
  <2>2. ASSUME NEW x \in FiledIn(c), x \notin In(c.buckets[i].list)
        PROVE  x \in FiledIn(d)
    <3>1. PICK j \in 0 .. n - 1 : x \in In(c.buckets[j].list)
      BY <1>5, <2>2
    <3>2. d.buckets[j] = c.buckets[j]
      BY <1>2, <2>2, <3>1
    <3> QED
      BY <1>5, <3>1, <3>2
  <2>3. In(b.list) \subseteq FiledIn(d)
    BY <1>2, <1>5
  <2> QED
    BY <2>1, <2>2, <2>3
<1> QED
  BY <1>4, <1>7

\* An event is put in its place in its bucket.
LEMMA PutGood ==
    ASSUME NEW n \in Nat \ {0}, NEW c, Good(c, n), NEW e \in Event,
           NEW list, list = c.buckets[Hash(c, e.time)].list,
           NEW k \in 1 .. Len(list) + 1,
           \A j \in 1 .. k - 1 : Earlier(list[j], e),
           \A j \in k .. Len(list) : Earlier(e, list[j]),
           NEW new \in BOOLEAN, new <=> e.time \notin TimesOf(In(list))
    PROVE  LET d == Put(c, Hash(c, e.time), k, e, new)
           IN  /\ Good(d, n) /\ FiledIn(d) = FiledIn(c) \cup {e} /\ e \notin FiledIn(c)
               /\ d.width = c.width /\ d.lastbucket = c.lastbucket
               /\ d.cal_clock = c.cal_clock
<1> DEFINE i == Hash(c, e.time)
           one == IF new THEN 1 ELSE 0
           b == [list |-> InsertAt(list, k, e), count |-> c.buckets[i].count + one]
           q == c.qsize + 1
           s == c.stat_qsize + one
<1>0. PICK d : d = [c EXCEPT !.buckets[i] = b, !.qsize = q, !.stat_qsize = s]
  OBVIOUS
<1>1. c \in Calendar(n) /\ BucketsOK(c) /\ CountsOK(c)
  BY DEF Good
<1>2. e.time \in Nat
  BY EventIs
<1>3. /\ c.nbuckets = n /\ i \in 0 .. n - 1 /\ list \in Seq(Event) /\ c.buckets[i].count \in Int
      /\ c.qsize \in Int /\ c.stat_qsize \in Int /\ FiledIn(c) \subseteq Event
      /\ In(list) \subseteq FiledIn(c) /\ c.buckets \in [0 .. n - 1 -> Bucket]
  BY <1>1, <1>2, CalendarIs
<1>4. /\ Ordered(list) /\ (\A x \in In(list) : Hash(c, x.time) = i)
      /\ c.buckets[i].count = Cardinality(TimesOf(In(list)))
  BY <1>1, <1>3 DEF BucketsOK
<1>5. Put(c, i, k, e, new) = d
  <2>1. c.buckets[i].list = list
    OBVIOUS
  <2> HIDE DEF i
  <2> QED
    BY <1>0, <1>3, <2>1 DEF Put
<1> HIDE DEF i
<1>6. /\ b.list \in Seq(Event) /\ Ordered(b.list) /\ In(b.list) = In(list) \cup {e}
      /\ e \notin In(list)
  BY <1>3, <1>4, Inserted
<1>7. one \in Int /\ one = (IF e.time \in TimesOf(In(list)) THEN 0 ELSE 1)
  OBVIOUS
<1> HIDE DEF one
<1>8. b.count = Cardinality(TimesOf(In(b.list)))
  <2>1. In(list) \in SUBSET Event /\ IsFiniteSet(In(list))
    BY <1>3, InOfList
  <2>2. Cardinality(TimesOf(In(list) \cup {e})) =
           Cardinality(TimesOf(In(list))) + (IF e.time \in TimesOf(In(list)) THEN 0 ELSE 1)
    BY <1>6, <2>1, CountMore
  <2> QED
    BY <1>4, <1>6, <1>7, <2>2
<1>9. b \in Bucket /\ \A x \in In(b.list) : Hash(c, x.time) = i
  BY <1>3, <1>4, <1>6, <1>7 DEF Bucket, i
<1>10. q \in Int /\ s \in Int
  BY <1>3, <1>7
<1> HIDE DEF b, q, s
<1>11. /\ d \in Calendar(n) /\ BucketsOK(d)
       /\ FiledIn(d) = (FiledIn(c) \ In(c.buckets[i].list)) \cup In(b.list)
       /\ d.width = c.width /\ d.lastbucket = c.lastbucket
       /\ d.cal_clock = c.cal_clock /\ d.qsize = q /\ d.stat_qsize = s
  <2>1. /\ d \in Calendar(n) /\ d.width = c.width /\ d.lastbucket = c.lastbucket
        /\ d.cal_clock = c.cal_clock /\ d.qsize = q /\ d.stat_qsize = s
        /\ d.buckets = [c.buckets EXCEPT ![i] = b]
    BY <1>0, <1>1, <1>3, <1>9, <1>10 DEF Calendar
  <2>2. /\ BucketsOK(d)
        /\ FiledIn(d) = (FiledIn(c) \ In(c.buckets[i].list)) \cup In(b.list)
    <3>1. /\ c \in Calendar(n) /\ BucketsOK(c) /\ i \in 0 .. n - 1 /\ b \in Bucket
          /\ Ordered(b.list) /\ (\A x \in In(b.list) : Hash(c, x.time) = i)
          /\ b.count = Cardinality(TimesOf(In(b.list)))
          /\ d \in Calendar(n) /\ d.width = c.width
          /\ d.buckets = [c.buckets EXCEPT ![i] = b]
      BY <1>1, <1>3, <1>6, <1>8, <1>9, <2>1
    <3> QED
      BY ONLY <3>1, n \in Nat \ {0}, OtherBucket
  <2> QED
    BY <2>1, <2>2
<1>12. FiledIn(d) = FiledIn(c) \cup {e}
  BY <1>3, <1>6, <1>11 DEF i
<1>13. e \notin FiledIn(c)
  BY <1>1, <1>2, <1>6, InItsBucket DEF i
<1>14. e.time \in TimesOf(FiledIn(c)) <=> e.time \in TimesOf(In(list))
  <2>1. In(list) = FiledIn(c) \cap In(c.buckets[Hash(c, e.time)].list)
    BY <1>3
  <2> QED
    BY <1>1, <1>2, <2>1, TimeInItsBucket
<1>15. CountsOK(d)
  <2>1. IsFiniteSet(FiledIn(c)) /\ c.qsize = Cardinality(FiledIn(c))
        /\ c.stat_qsize = Cardinality(TimesOf(FiledIn(c)))
    BY <1>1 DEF CountsOK
  <2>2. /\ IsFiniteSet(FiledIn(c) \cup {e})
        /\ Cardinality(FiledIn(c) \cup {e}) = Cardinality(FiledIn(c)) + 1
        /\ Cardinality(TimesOf(FiledIn(c) \cup {e})) =
              Cardinality(TimesOf(FiledIn(c)))
                + (IF e.time \in TimesOf(FiledIn(c)) THEN 0 ELSE 1)
    BY <1>3, <1>13, <2>1, CountMore
  <2>3. s = c.stat_qsize + (IF e.time \in TimesOf(FiledIn(c)) THEN 0 ELSE 1) /\ q = c.qsize + 1
    BY <1>7, <1>14 DEF s, q
  <2> QED
    BY <1>11, <1>12, <2>1, <2>2, <2>3 DEF CountsOK
<1>16. Put(c, Hash(c, e.time), k, e, new) = d
  BY <1>5 DEF i
<1> QED
  BY <1>11, <1>12, <1>13, <1>15, <1>16 DEF Good

\* An event is taken out of its bucket.
LEMMA UnlinkGood ==
    ASSUME NEW n \in Nat \ {0}, NEW c, Good(c, n), NEW e \in Event,
           NEW list, list = c.buckets[Hash(c, e.time)].list,
           NEW k \in 1 .. Len(list), list[k] = e,
           NEW last \in BOOLEAN, last <=> e.time \notin TimesOf(In(list) \ {e})
    PROVE  LET d == Unlink(c, Hash(c, e.time), k, last)
           IN  /\ Good(d, n) /\ FiledIn(d) = FiledIn(c) \ {e} /\ e \in FiledIn(c)
               /\ d.width = c.width /\ d.lastbucket = c.lastbucket
               /\ d.cal_clock = c.cal_clock
<1> DEFINE i == Hash(c, e.time)
           one == IF last THEN 1 ELSE 0
           b == [list |-> RemoveAt(list, k), count |-> c.buckets[i].count - one]
           q == c.qsize - 1
           s == c.stat_qsize - one
<1>0. PICK d : d = [c EXCEPT !.buckets[i] = b, !.qsize = q, !.stat_qsize = s]
  OBVIOUS
<1>1. c \in Calendar(n) /\ BucketsOK(c) /\ CountsOK(c)
  BY DEF Good
<1>2. e.time \in Nat
  BY EventIs
<1>3. /\ c.nbuckets = n /\ i \in 0 .. n - 1 /\ list \in Seq(Event) /\ c.buckets[i].count \in Int
      /\ c.qsize \in Int /\ c.stat_qsize \in Int /\ FiledIn(c) \subseteq Event
      /\ In(list) \subseteq FiledIn(c) /\ c.buckets \in [0 .. n - 1 -> Bucket]
  BY <1>1, <1>2, CalendarIs
<1>4. /\ Ordered(list) /\ (\A x \in In(list) : Hash(c, x.time) = i)
      /\ c.buckets[i].count = Cardinality(TimesOf(In(list)))
  BY <1>1, <1>3 DEF BucketsOK
<1>5. Unlink(c, i, k, last) = d
  <2>1. c.buckets[i].list = list
    OBVIOUS
  <2> HIDE DEF i
  <2> QED
    BY <1>0, <1>3, <2>1 DEF Unlink
<1> HIDE DEF i
<1>6. /\ b.list \in Seq(Event) /\ Ordered(b.list) /\ In(b.list) = In(list) \ {e}
      /\ e \in In(list)
  BY <1>3, <1>4, Removed, InOfList
<1>7. one \in Int /\ one = (IF e.time \in TimesOf(In(list) \ {e}) THEN 0 ELSE 1)
  OBVIOUS
<1> HIDE DEF one
<1>8. b.count = Cardinality(TimesOf(In(b.list)))
  <2>1. In(list) \in SUBSET Event /\ IsFiniteSet(In(list))
    BY <1>3, InOfList
  <2>2. Cardinality(TimesOf(In(list) \ {e})) =
           Cardinality(TimesOf(In(list))) - (IF e.time \in TimesOf(In(list) \ {e}) THEN 0 ELSE 1)
    BY <1>6, <2>1, CountLess
  <2> QED
    BY <1>4, <1>6, <1>7, <2>2
<1>9. b \in Bucket /\ \A x \in In(b.list) : Hash(c, x.time) = i
  BY <1>3, <1>4, <1>6, <1>7 DEF Bucket, i
<1>10. q \in Int /\ s \in Int
  BY <1>3, <1>7
<1> HIDE DEF b, q, s
<1>11. /\ d \in Calendar(n) /\ BucketsOK(d)
       /\ FiledIn(d) = (FiledIn(c) \ In(c.buckets[i].list)) \cup In(b.list)
       /\ d.width = c.width /\ d.lastbucket = c.lastbucket
       /\ d.cal_clock = c.cal_clock /\ d.qsize = q /\ d.stat_qsize = s
  <2>1. /\ d \in Calendar(n) /\ d.width = c.width /\ d.lastbucket = c.lastbucket
        /\ d.cal_clock = c.cal_clock /\ d.qsize = q /\ d.stat_qsize = s
        /\ d.buckets = [c.buckets EXCEPT ![i] = b]
    BY <1>0, <1>1, <1>3, <1>9, <1>10 DEF Calendar
  <2>2. /\ BucketsOK(d)
        /\ FiledIn(d) = (FiledIn(c) \ In(c.buckets[i].list)) \cup In(b.list)
    <3>1. /\ c \in Calendar(n) /\ BucketsOK(c) /\ i \in 0 .. n - 1 /\ b \in Bucket
          /\ Ordered(b.list) /\ (\A x \in In(b.list) : Hash(c, x.time) = i)
          /\ b.count = Cardinality(TimesOf(In(b.list)))
          /\ d \in Calendar(n) /\ d.width = c.width
          /\ d.buckets = [c.buckets EXCEPT ![i] = b]
      BY <1>1, <1>3, <1>6, <1>8, <1>9, <2>1
    <3> QED
      BY ONLY <3>1, n \in Nat \ {0}, OtherBucket
  <2> QED
    BY <2>1, <2>2
<1>12. FiledIn(d) = FiledIn(c) \ {e}
  BY <1>3, <1>6, <1>11 DEF i
<1>13. e \in FiledIn(c)
  BY <1>3, <1>6
<1>14. e.time \in TimesOf(FiledIn(c) \ {e}) <=> e.time \in TimesOf(In(list) \ {e})
  <2>1. In(list) \ {e} = (FiledIn(c) \ {e}) \cap In(c.buckets[Hash(c, e.time)].list)
    BY <1>3
  <2> QED
    BY <1>1, <1>2, <2>1, TimeInItsBucket
<1>15. CountsOK(d)
  <2>1. IsFiniteSet(FiledIn(c)) /\ c.qsize = Cardinality(FiledIn(c))
        /\ c.stat_qsize = Cardinality(TimesOf(FiledIn(c)))
    BY <1>1 DEF CountsOK
  <2>2. /\ IsFiniteSet(FiledIn(c) \ {e})
        /\ Cardinality(FiledIn(c) \ {e}) = Cardinality(FiledIn(c)) - 1
        /\ Cardinality(TimesOf(FiledIn(c) \ {e})) =
              Cardinality(TimesOf(FiledIn(c)))
                - (IF e.time \in TimesOf(FiledIn(c) \ {e}) THEN 0 ELSE 1)
    BY <1>3, <1>13, <2>1, CountLess
  <2>3. s = c.stat_qsize - (IF e.time \in TimesOf(FiledIn(c) \ {e}) THEN 0 ELSE 1)
        /\ q = c.qsize - 1
    BY <1>7, <1>14 DEF s, q
  <2> QED
    BY <1>11, <1>12, <2>1, <2>2, <2>3 DEF CountsOK
<1>16. Unlink(c, Hash(c, e.time), k, last) = d
  BY <1>5 DEF i
<1> QED
  BY <1>11, <1>12, <1>13, <1>15, <1>16 DEF Good

\* In a list in order the times grow.
LEMMA TimesGrow ==
    ASSUME NEW l \in Seq(Event), Ordered(l), NEW j \in 1 .. Len(l), NEW k \in 1 .. Len(l), j <= k
    PROVE  l[j].time <= l[k].time /\ l[j].time \in Nat /\ l[k].time \in Nat
<1>1. DOMAIN l = 1 .. Len(l) /\ Len(l) \in Nat /\ l[j] \in Event /\ l[k] \in Event
  BY InOfList
<1>2. l[j].time \in Nat /\ l[k].time \in Nat
  BY <1>1, EventIs
<1>3. CASE j = k
  BY <1>2, <1>3
<1>4. CASE j < k
  BY <1>1, <1>2, <1>4 DEF Ordered, Earlier
<1> QED
  BY <1>1, <1>2, <1>3, <1>4

\* insert2 files an event before those of its time.
LEMMA Insert2Good ==
    ASSUME NEW n \in Nat \ {0}, NEW c, Good(c, n), NEW e \in Event,
           \A f \in FiledIn(c) : f.time = e.time => Earlier(e, f)
    PROVE  /\ Good(Insert2(c, e), n) /\ FiledIn(Insert2(c, e)) = FiledIn(c) \cup {e}
           /\ Insert2(c, e).width = c.width /\ Insert2(c, e).lastbucket = c.lastbucket
           /\ Insert2(c, e).cal_clock = c.cal_clock
<1> DEFINE i == Hash(c, e.time)
           list == c.buckets[i].list
           I == {j \in 1 .. Len(list) : list[j].time >= e.time}
           before == IF I # {} THEN Min(I) ELSE 0
           k == IF before = 0 THEN Len(list) + 1 ELSE before
<1>0. PICK new \in BOOLEAN : new = (before = 0 \/ list[before].time # e.time)
  OBVIOUS
<1>1. Insert2(c, e) = Put(c, i, k, e, new)
  BY <1>0, Zenon DEF Insert2, SelectInSeq
<1>2. e.time \in Nat /\ c \in Calendar(n) /\ BucketsOK(c)
  BY EventIs DEF Good
<1>3. /\ i \in 0 .. n - 1 /\ list \in Seq(Event) /\ In(list) \subseteq FiledIn(c)
      /\ c.nbuckets = n
  BY <1>2, CalendarIs
<1>4. Ordered(list)
  BY <1>2, <1>3 DEF BucketsOK
<1> HIDE DEF list
<1>5. /\ Len(list) \in Nat
      /\ \A j \in 1 .. Len(list) : list[j] \in Event /\ list[j] \in FiledIn(c)
      /\ \A j \in 1 .. Len(list) : list[j].time \in Nat
      /\ \A x \in In(list) : \E j \in 1 .. Len(list) : list[j] = x
      /\ \A j \in 1 .. Len(list) : list[j] \in In(list)
  BY <1>3, InOfList, EventIs
<1>6. /\ k \in 1 .. Len(list) + 1
      /\ \A j \in 1 .. k - 1 : list[j].time < e.time
      /\ \A j \in k .. Len(list) : list[j].time >= e.time
      /\ before # 0 => before = k /\ k \in 1 .. Len(list)
      /\ before = 0 => k = Len(list) + 1
  <2>1. CASE I = {}
    BY <1>2, <1>5, <2>1
  <2>2. CASE I # {}
    <3>1. Min(I) \in I /\ \A m \in I : Min(I) <= m
      <4>1. I \in SUBSET Nat
        BY <1>5
      <4> HIDE DEF I
      <4> QED
        BY <2>2, <4>1, MinIsLeast
    <3>2. k = Min(I) /\ before = k /\ k \in 1 .. Len(list) /\ list[k].time >= e.time
      BY <2>2, <3>1
    <3> HIDE DEF k
    <3>3. ASSUME NEW j \in 1 .. k - 1
          PROVE  list[j].time < e.time
      <4>1. j \in 1 .. Len(list) /\ ~ (k <= j)
        BY <1>5, <3>2
      <4>2. j \notin I
        BY <3>1, <3>2, <4>1
      <4> QED
        BY <1>2, <1>5, <4>1, <4>2
    <3>4. ASSUME NEW j \in k .. Len(list)
          PROVE  list[j].time >= e.time
      <4>1. j \in 1 .. Len(list) /\ k <= j
        BY <1>5, <3>2
      <4>2. list[k].time <= list[j].time
        BY <1>3, <1>4, <3>2, <4>1, TimesGrow
      <4> QED
        BY <1>2, <1>5, <3>2, <4>1, <4>2
    <3> QED
      BY <1>5, <3>2, <3>3, <3>4
  <2> QED
    BY <2>1, <2>2
<1> HIDE DEF k, I, before
<1>7. \A j \in 1 .. k - 1 : Earlier(list[j], e)
  BY <1>6 DEF Earlier
<1>8. ASSUME NEW j \in k .. Len(list)
      PROVE  Earlier(e, list[j])
  <2>1. j \in 1 .. Len(list) /\ list[j].time >= e.time
    BY <1>5, <1>6
  <2>2. CASE list[j].time = e.time
    BY <1>5, <2>1, <2>2
  <2>3. CASE list[j].time # e.time
    BY <1>2, <1>5, <2>1, <2>3 DEF Earlier
  <2> QED
    BY <2>2, <2>3
<1>9. new <=> e.time \notin TimesOf(In(list))
  <2>0. new <=> before = 0 \/ list[before].time # e.time
    BY <1>0
  <2>1. CASE before = 0
    <3>1. \A j \in 1 .. Len(list) : list[j].time # e.time
      BY <1>2, <1>5, <1>6, <2>1
    <3> QED
      BY <1>5, <2>0, <2>1, <3>1 DEF TimesOf
  <2>2. CASE before # 0 /\ list[before].time = e.time
    BY <1>5, <1>6, <2>0, <2>2 DEF TimesOf
  <2>3. CASE before # 0 /\ list[before].time # e.time
    <3>1. before = k /\ k \in 1 .. Len(list) /\ list[k].time > e.time
      BY <1>2, <1>5, <1>6, <2>3
    <3>2. ASSUME NEW j \in 1 .. Len(list)
          PROVE  list[j].time # e.time
      <4>1. CASE j < k
        BY <1>2, <1>5, <1>6, <4>1
      <4>2. CASE k <= j
        <5>1. list[k].time <= list[j].time
          BY <1>3, <1>4, <3>1, <4>2, TimesGrow
        <5> QED
          BY <1>2, <1>5, <3>1, <5>1
      <4> QED
        BY <1>5, <1>6, <4>1, <4>2
    <3> QED
      BY <1>5, <2>0, <2>3, <3>2 DEF TimesOf
  <2> QED
    BY <2>1, <2>2, <2>3
<1>11. list = c.buckets[Hash(c, e.time)].list /\ i = Hash(c, e.time)
  BY DEF list
<1> HIDE DEF i
<1>12. PICK l, p : l = list /\ p = k
  OBVIOUS
<1>13. /\ l = c.buckets[Hash(c, e.time)].list /\ p \in 1 .. Len(l) + 1
       /\ \A j \in 1 .. p - 1 : Earlier(l[j], e)
       /\ \A j \in p .. Len(l) : Earlier(e, l[j])
       /\ new <=> e.time \notin TimesOf(In(l))
       /\ Insert2(c, e) = Put(c, Hash(c, e.time), p, e, new)
  BY <1>1, <1>6, <1>7, <1>8, <1>9, <1>11, <1>12
<1> QED
  BY ONLY n \in Nat \ {0}, Good(c, n), e \in Event, new \in BOOLEAN, <1>13, PutGood

-----------------------------------------------------------------------------
(* Filing a list of events *)

\* The function by which FoldLeft files the events of q, for its first N.
Filing(f, base, q, N) ==
    f = [s \in SUBSET (1 .. N) |->
            IF s = {} THEN base ELSE Insert2(f[s \ {Max(s)}], q[Max(s)])]

\* That function is well defined.
LEMMA FilingExists ==
    ASSUME NEW base, NEW q, NEW N \in Nat
    PROVE  \E f : Filing(f, base, q, N)
<1> DEFINE Bad == {m \in Nat : ~ \E f : Filing(f, base, q, m)}
<1>1. SUFFICES ASSUME Bad # {}
               PROVE  FALSE
  OBVIOUS
<1>2. PICK m \in Bad : \A k \in Bad : m <= k
  <2>1. Bad \in SUBSET Nat
    OBVIOUS
  <2> HIDE DEF Bad
  <2> QED
    BY <1>1, <2>1, Least
<1>3. m \in Nat /\ ~ \E f : Filing(f, base, q, m)
  OBVIOUS
<1>4. CASE m = 0
  <2> DEFINE f == [s \in SUBSET (1 .. m) |-> base]
  <2>1. \A s \in SUBSET (1 .. m) : s = {}
    BY <1>4
  <2>2. Filing(f, base, q, m)
    BY <2>1, Zenon DEF Filing
  <2> QED
    BY <1>3, <2>2
<1>5. CASE m # 0
  <2>1. m - 1 \in Nat /\ m - 1 \notin Bad
    BY <1>2, <1>3, <1>5
  <2>2. PICK f : Filing(f, base, q, m - 1)
    BY <2>1
  <2> HIDE DEF Bad
  <2> DEFINE g == [s \in SUBSET (1 .. m) |->
                      IF m \notin s THEN f[s] ELSE Insert2(f[s \ {m}], q[m])]
  <2>3. \A s \in SUBSET (1 .. m - 1) :
           f[s] = IF s = {} THEN base ELSE Insert2(f[s \ {Max(s)}], q[Max(s)])
    BY <2>2, Zenon DEF Filing
  <2>4. ASSUME NEW s \in SUBSET (1 .. m)
        PROVE  g[s] = IF s = {} THEN base ELSE Insert2(g[s \ {Max(s)}], q[Max(s)])
    <3>1. CASE s = {}
      <4>1. g[s] = f[s] /\ s \in SUBSET (1 .. m - 1)
        BY <3>1
      <4> QED
        BY <2>3, <3>1, <4>1
    <3>2. CASE s # {}
      <4>1. Max(s) \in s /\ (\A x \in s : Max(s) >= x)
        <5>1. s \in SUBSET (0 .. m)
          BY <1>3
        <5> QED
          BY <1>3, <3>2, <5>1, MaxIsGreatest
      <4>2. s \ {Max(s)} \in SUBSET (1 .. m)
        OBVIOUS
      <4>3. CASE m \notin s
        <5>0. \A x \in s : x \in 1 .. m - 1
          <6> HIDE DEF g
          <6> QED
            BY <1>3, <4>3
        <5>1. s \in SUBSET (1 .. m - 1) /\ s \ {Max(s)} \in SUBSET (1 .. m - 1)
              /\ m \notin s \ {Max(s)}
          BY <4>3, <5>0
        <5>2. g[s] = f[s] /\ g[s \ {Max(s)}] = f[s \ {Max(s)}]
          BY <4>2, <4>3, <5>1
        <5>3. f[s] = Insert2(f[s \ {Max(s)}], q[Max(s)])
          BY <2>3, <3>2, <5>1
        <5> HIDE DEF g
        <5> QED
          BY <3>2, <5>2, <5>3
      <4>4. CASE m \in s
        <5>1. Max(s) = m
          <6> HIDE DEF g
          <6>1. Max(s) \in 1 .. m /\ Max(s) >= m
            BY <4>1, <4>4
          <6> QED
            BY <1>3, <6>1
        <5>2. g[s] = Insert2(f[s \ {m}], q[m]) /\ g[s \ {m}] = f[s \ {m}]
          BY <4>2, <4>4, <5>1
        <5> HIDE DEF g
        <5> QED
          BY <3>2, <5>1, <5>2
      <4> QED
        BY <4>3, <4>4
    <3> QED
      BY <3>1, <3>2
  <2>5. g = [s \in SUBSET (1 .. m) |-> g[s]]
    OBVIOUS
  <2> HIDE DEF g
  <2>6. Filing(g, base, q, m)
    BY <2>4, <2>5, Zenon DEF Filing
  <2> QED
    BY <1>3, <2>6
<1> QED
  BY <1>4, <1>5

\* Filing the events of q one by one, those of one time from the last to the
\* first, leaves a calendar with all of them.
LEMMA AllFiled ==
    ASSUME NEW n \in Nat \ {0}, NEW base, Good(base, n), FiledIn(base) = {},
           NEW q \in Seq(Event),
           \A i, j \in 1 .. Len(q) :
               i < j /\ q[i].time = q[j].time => Earlier(q[j], q[i])
    PROVE  LET c == FoldLeft(Insert2, base, q)
           IN  /\ Good(c, n) /\ FiledIn(c) = In(q)
               /\ c.width = base.width /\ c.lastbucket = base.lastbucket
               /\ c.cal_clock = base.cal_clock
<1> DEFINE N == Len(q)
           f == CHOOSE f : Filing(f, base, q, N)
           Done(k) == /\ Good(f[1 .. k], n) /\ FiledIn(f[1 .. k]) = {q[j] : j \in 1 .. k}
                       /\ f[1 .. k].width = base.width
                       /\ f[1 .. k].lastbucket = base.lastbucket
                       /\ f[1 .. k].cal_clock = base.cal_clock
           Bad == {k \in 0 .. N : ~ Done(k)}
<1>1. N \in Nat /\ DOMAIN q = 1 .. N /\ \A j \in 1 .. N : q[j] \in Event
  BY InOfList
<1>2. FoldLeft(Insert2, base, q) = f[1 .. N]
  <2>1. FoldLeft(Insert2, base, q) =
          (CHOOSE h : h = [s \in SUBSET DOMAIN q |->
              IF s = {} THEN base ELSE Insert2(h[s \ {Max(s)}], q[Max(s)])])[DOMAIN q]
    BY Zenon DEF FoldLeft, MapThenFoldSet
  <2> HIDE DEF N
  <2>2. FoldLeft(Insert2, base, q) = f[DOMAIN q]
    BY <1>1, <2>1, Zenon DEF Filing
  <2> QED
    BY <1>1, <2>2, Zenon
<1>3. Filing(f, base, q, N)
  BY <1>1, FilingExists, Zenon
<1> HIDE DEF f, N
<1>4. \A s \in SUBSET (1 .. N) :
         f[s] = IF s = {} THEN base ELSE Insert2(f[s \ {Max(s)}], q[Max(s)])
  BY <1>3, Zenon DEF Filing
<1>5. Done(0)
  <2>1. 1 .. 0 = {} /\ {} \in SUBSET (1 .. N)
    OBVIOUS
  <2>2. f[1 .. 0] = base
    BY <1>4, <2>1
  <2> QED
    BY <2>1, <2>2
<1>6. ASSUME NEW k \in 1 .. N, Done(k - 1)
      PROVE  Done(k)
  <2>1. 1 .. k \in SUBSET (1 .. N) /\ 1 .. k # {} /\ (1 .. k) \ {k} = 1 .. k - 1
    <3> HIDE DEF Done
    <3>1. \A x \in 1 .. k : x \in 1 .. N
      BY <1>1
    <3>2. k \in 1 .. k
      BY <1>1
    <3>3. (1 .. k) \ {k} = 1 .. k - 1
      BY <1>1
    <3> QED
      BY <3>1, <3>2, <3>3
  <2>2. Max(1 .. k) = k
    <3>1. k \in Nat /\ 1 .. k \in SUBSET (0 .. k) /\ k \in 1 .. k
      BY <1>1
    <3>2. Max(1 .. k) \in 1 .. k /\ \A x \in 1 .. k : Max(1 .. k) >= x
      BY <2>1, <3>1, MaxIsGreatest
    <3> QED
      BY <3>1, <3>2
  <2>3. f[1 .. k] = Insert2(f[1 .. k - 1], q[k])
    BY <1>4, <2>1, <2>2
  <2>4. q[k] \in Event
    BY <1>1
  <2>5. ASSUME NEW x \in FiledIn(f[1 .. k - 1]), x.time = q[k].time
        PROVE  Earlier(q[k], x)
    <3>1. PICK j \in 1 .. k - 1 : x = q[j]
      BY <1>6
    <3>2. j \in 1 .. N /\ k \in 1 .. N /\ j < k
      BY <1>1
    <3> QED
      BY <2>5, <3>1, <3>2 DEF N
  <2>6. /\ Good(f[1 .. k], n) /\ FiledIn(f[1 .. k]) = FiledIn(f[1 .. k - 1]) \cup {q[k]}
        /\ f[1 .. k].width = base.width
        /\ f[1 .. k].lastbucket = base.lastbucket
        /\ f[1 .. k].cal_clock = base.cal_clock
    BY <1>6, <2>3, <2>4, <2>5, Insert2Good
  <2>7. {q[j] : j \in 1 .. k} = {q[j] : j \in 1 .. k - 1} \cup {q[k]}
    <3>1. 1 .. k = (1 .. k - 1) \cup {k}
      BY <1>1
    <3> QED
      BY <3>1
  <2> QED
    BY <1>6, <2>6, <2>7
<1> HIDE DEF Done
<1>7. Bad = {}
  <2>1. SUFFICES ASSUME Bad # {}
                 PROVE  FALSE
    OBVIOUS
  <2>2. Bad \in SUBSET Nat
    BY <1>1
  <2>3. PICK k \in Bad : \A m \in Bad : k <= m
    <3> HIDE DEF Bad
    <3> QED
      BY <2>1, <2>2, Least
  <2>4. k # 0 /\ k \in 0 .. N /\ ~ Done(k)
    BY <1>5
  <2>5. k \in 1 .. N /\ k - 1 \in 0 .. N /\ k - 1 \notin Bad
    BY <1>1, <2>3, <2>4
  <2>6. Done(k - 1)
    BY <2>5
  <2> QED
    BY <1>6, <2>4, <2>5, <2>6
<1>8. Done(N)
  BY <1>1, <1>7
<1>9. {q[j] : j \in 1 .. N} = In(q)
  BY <1>1 DEF In
<1> QED
  BY <1>2, <1>8, <1>9 DEF Done

-----------------------------------------------------------------------------
(* The order in which resize takes the events *)

\* The events of one time, the last of them first.
TiesBackwards(l) ==
    \A i, j \in 1 .. Len(l) : i < j /\ l[i].time = l[j].time => Earlier(l[j], l[i])

\* A bucket from its tail to its head.
LEMMA Reversed ==
    ASSUME NEW l \in Seq(Event), Ordered(l)
    PROVE  Reverse(l) \in Seq(Event) /\ In(Reverse(l)) = In(l) /\ TiesBackwards(Reverse(l))
<1> DEFINE N == Len(l)
           r == Reverse(l)
<1>1. N \in Nat /\ DOMAIN l = 1 .. N /\ \A k \in 1 .. N : l[k] \in Event
  BY InOfList
<1>2. r = [i \in 1 .. N |-> l[(N - i) + 1]]
  BY DEF Reverse
<1> HIDE DEF r, N
<1>3. \A i \in 1 .. N : (N - i) + 1 \in 1 .. N /\ (N - ((N - i) + 1)) + 1 = i
  BY <1>1
<1>4. r \in Seq(Event)
  <2>1. \A i \in 1 .. N : l[(N - i) + 1] \in Event
    BY <1>1, <1>3
  <2> QED
    BY <1>1, <1>2, <2>1
<1>5. Len(r) = N /\ DOMAIN r = 1 .. N /\ \A i \in 1 .. N : r[i] = l[(N - i) + 1]
  BY <1>1, <1>2, <1>4
<1>6. In(r) = In(l)
  <2>1. \A i \in 1 .. N : r[(N - i) + 1] = l[i]
    BY <1>3, <1>5
  <2>2. \A i \in 1 .. N : l[i] \in In(r) /\ r[i] \in In(l)
    BY <1>1, <1>3, <1>5, <2>1 DEF In
  <2> QED
    BY <1>1, <1>5, <2>2 DEF In
<1>7. \A i, j \in 1 .. N : i < j => (N - j) + 1 < (N - i) + 1
  BY <1>1
<1>8. TiesBackwards(r)
  BY <1>1, <1>3, <1>5, <1>7 DEF TiesBackwards, Ordered
<1> QED
  BY <1>4, <1>6, <1>8 DEF r

\* Two lists without a common time, one after the other.
LEMMA Joined ==
    ASSUME NEW a \in Seq(Event), NEW b \in Seq(Event), TiesBackwards(a), TiesBackwards(b),
           \A x \in In(a), y \in In(b) : x.time # y.time
    PROVE  a \o b \in Seq(Event) /\ In(a \o b) = In(a) \cup In(b) /\ TiesBackwards(a \o b)
<1> DEFINE A == Len(a)
           B == Len(b)
           r == a \o b
<1>1. /\ A \in Nat /\ B \in Nat /\ DOMAIN a = 1 .. A /\ DOMAIN b = 1 .. B
      /\ \A i \in 1 .. A : a[i] \in In(a)
      /\ \A i \in 1 .. B : b[i] \in In(b)
  BY InOfList
<1>2. /\ r \in Seq(Event) /\ Len(r) = A + B
      /\ \A i \in 1 .. A + B : r[i] = IF i <= A THEN a[i] ELSE b[i - A]
  BY ConcatProperties
<1> HIDE DEF r, A, B
<1>3. DOMAIN r = 1 .. A + B
  BY <1>1, <1>2
<1>4. \A i \in 1 .. A : i \in 1 .. A + B /\ r[i] = a[i]
  BY <1>1, <1>2
<1>5. \A i \in 1 .. B : i + A \in 1 .. A + B /\ r[i + A] = b[i]
  <2>1. \A i \in 1 .. B : i + A \in 1 .. A + B /\ ~ (i + A <= A) /\ (i + A) - A = i
    BY <1>1
  <2> QED
    BY <1>2, <2>1
<1>6. \A i \in 1 .. A + B : i \in 1 .. A \/ (i - A \in 1 .. B /\ r[i] = b[i - A] /\ i > A)
  BY <1>1, <1>2
<1>7. In(r) = In(a) \cup In(b)
  <2>1. In(a) \subseteq In(r)
    BY <1>1, <1>3, <1>4 DEF In
  <2>2. In(b) \subseteq In(r)
    BY <1>1, <1>3, <1>5 DEF In
  <2>3. ASSUME NEW i \in 1 .. A + B
        PROVE  r[i] \in In(a) \cup In(b)
    BY <1>1, <1>4, <1>6
  <2> QED
    BY <1>3, <2>1, <2>2, <2>3 DEF In
<1>8. ASSUME NEW i \in 1 .. A + B, NEW j \in 1 .. A + B, i < j, r[i].time = r[j].time
      PROVE  Earlier(r[j], r[i])
  <2>1. CASE i \in 1 .. A /\ j \in 1 .. A
    BY <1>4, <1>8, <2>1 DEF TiesBackwards, A
  <2>2. CASE i \notin 1 .. A
    <3>1. i - A \in 1 .. B /\ j - A \in 1 .. B /\ i - A < j - A
          /\ r[i] = b[i - A] /\ r[j] = b[j - A]
      <4>1. i > A /\ j > A /\ i \in Int /\ j \in Int
        BY <1>1, <1>6, <1>8, <2>2
      <4>2. j \notin 1 .. A
        BY <1>1, <4>1
      <4> QED
        BY <1>1, <1>6, <1>8, <2>2, <4>1, <4>2
    <3> QED
      BY <1>8, <3>1 DEF TiesBackwards, B
  <2>3. CASE i \in 1 .. A /\ j \notin 1 .. A
    BY <1>1, <1>4, <1>6, <1>8, <2>3
  <2> QED
    BY <2>1, <2>2, <2>3
<1>9. TiesBackwards(r)
  BY <1>2, <1>8 DEF TiesBackwards
<1> QED
  BY <1>2, <1>7, <1>9 DEF r

\* The function by which FlattenSeq joins the first N lists of ls.
Joining(f, ls, N) ==
    f = [i \in 1 .. N |-> IF i = 1 THEN ls[i] ELSE f[i - 1] \o ls[i]]

\* That function is well defined.
LEMMA JoiningExists ==
    ASSUME NEW ls, NEW N \in Nat
    PROVE  \E f : Joining(f, ls, N)
<1> DEFINE Bad == {m \in Nat : ~ \E f : Joining(f, ls, m)}
<1>1. SUFFICES ASSUME Bad # {}
               PROVE  FALSE
  OBVIOUS
<1>2. PICK m \in Bad : \A k \in Bad : m <= k
  <2>1. Bad \in SUBSET Nat
    OBVIOUS
  <2> HIDE DEF Bad
  <2> QED
    BY <1>1, <2>1, Least
<1>3. m \in Nat /\ ~ \E f : Joining(f, ls, m)
  OBVIOUS
<1>4. CASE m = 0
  <2> DEFINE f == [i \in 1 .. m |-> ls]
  <2>1. ~ \E i : i \in 1 .. m
    BY <1>4
  <2>2. Joining(f, ls, m)
    BY <2>1, Zenon DEF Joining
  <2> QED
    BY <1>3, <2>2
<1>5. CASE m # 0
  <2>1. m - 1 \in Nat /\ m - 1 \notin Bad
    BY <1>2, <1>3, <1>5
  <2>2. PICK f : Joining(f, ls, m - 1)
    BY <2>1
  <2> HIDE DEF Bad
  <2> DEFINE g == [i \in 1 .. m |->
                      IF i = m THEN (IF m = 1 THEN ls[m] ELSE f[m - 1] \o ls[m]) ELSE f[i]]
  <2>3. \A i \in 1 .. m - 1 : f[i] = IF i = 1 THEN ls[i] ELSE f[i - 1] \o ls[i]
    BY <2>2, Zenon DEF Joining
  <2>4. ASSUME NEW i \in 1 .. m
        PROVE  g[i] = IF i = 1 THEN ls[i] ELSE g[i - 1] \o ls[i]
    <3>1. CASE i = m
      <4>1. m # 1 => m - 1 \in 1 .. m /\ m - 1 # m
        BY <1>3, <1>5
      <4> QED
        BY <3>1, <4>1
    <3>2. CASE i # m
      <4> HIDE DEF g
      <4>1. i \in 1 .. m - 1 /\ (i # 1 => i - 1 \in 1 .. m /\ i - 1 # m)
        BY <1>3, <3>2
      <4>2. g[i] = f[i] /\ (i # 1 => g[i - 1] = f[i - 1])
        BY <3>2, <4>1 DEF g
      <4> QED
        BY <2>3, <4>1, <4>2
    <3> QED
      BY <3>1, <3>2
  <2>5. g = [i \in 1 .. m |-> g[i]]
    OBVIOUS
  <2> HIDE DEF g
  <2>6. Joining(g, ls, m)
    BY <2>4, <2>5, Zenon DEF Joining
  <2> QED
    BY <1>3, <2>6
<1> QED
  BY <1>4, <1>5

\* All lists of ls, one after the other.
LEMMA Flattened ==
    ASSUME NEW N \in Nat \ {0}, NEW ls \in [1 .. N -> Seq(Event)],
           \A i \in 1 .. N : TiesBackwards(ls[i]),
           \A i, j \in 1 .. N : \A x \in In(ls[i]), y \in In(ls[j]) :
               i # j => x.time # y.time
    PROVE  /\ FlattenSeq(ls) \in Seq(Event) /\ TiesBackwards(FlattenSeq(ls))
           /\ In(FlattenSeq(ls)) = UNION {In(ls[i]) : i \in 1 .. N}
<1> DEFINE f == CHOOSE f : Joining(f, ls, N)
           Done(k) == /\ f[k] \in Seq(Event) /\ TiesBackwards(f[k])
                      /\ In(f[k]) = UNION {In(ls[i]) : i \in 1 .. k}
           Bad == {k \in 1 .. N : ~ Done(k)}
<1>1. Len(ls) = N /\ N \in Nat /\ N # 0
  <2>1. ls \in Seq(Seq(Event))
    OBVIOUS
  <2> QED
    BY <2>1
<1>2. FlattenSeq(ls) = f[N]
  <2>1. FlattenSeq(ls) =
          (CHOOSE h : h = [i \in 1 .. Len(ls) |->
              IF i = 1 THEN ls[i] ELSE h[i - 1] \o ls[i]])[Len(ls)]
    BY <1>1, Zenon DEF FlattenSeq
  <2> QED
    BY <1>1, <2>1, Zenon DEF Joining
<1>3. Joining(f, ls, N)
  BY <1>1, JoiningExists, Zenon
<1> HIDE DEF f
<1>4. \A k \in 1 .. N : f[k] = IF k = 1 THEN ls[k] ELSE f[k - 1] \o ls[k]
  BY <1>3, Zenon DEF Joining
<1>5. Done(1)
  <2>1. 1 .. 1 = {1} /\ 1 \in 1 .. N
    BY <1>1
  <2>2. f[1] = ls[1]
    BY <1>4, <2>1
  <2> QED
    BY <2>1, <2>2
<1>6. ASSUME NEW k \in 1 .. N, k # 1, Done(k - 1)
      PROVE  Done(k)
  <2>1. f[k] = f[k - 1] \o ls[k] /\ ls[k] \in Seq(Event) /\ TiesBackwards(ls[k])
    BY <1>4, <1>6
  <2>2. ASSUME NEW x \in In(f[k - 1]), NEW y \in In(ls[k])
        PROVE  x.time # y.time
    <3>1. PICK i \in 1 .. k - 1 : x \in In(ls[i])
      BY <1>6
    <3>2. i \in 1 .. N /\ i # k
      BY <1>1
    <3> QED
      BY <3>1, <3>2
  <2>3. /\ f[k] \in Seq(Event) /\ TiesBackwards(f[k])
        /\ In(f[k]) = In(f[k - 1]) \cup In(ls[k])
    BY <1>6, <2>1, <2>2, Joined
  <2>4. 1 .. k = (1 .. k - 1) \cup {k}
    <3> HIDE DEF Done
    <3> QED
      BY <1>1
  <2>5. UNION {In(ls[i]) : i \in 1 .. k} =
           (UNION {In(ls[i]) : i \in 1 .. k - 1}) \cup In(ls[k])
    <3> HIDE DEF Done
    <3> QED
      BY <2>4
  <2> QED
    BY <1>6, <2>3, <2>5
<1> HIDE DEF Done
<1>7. Bad = {}
  <2>1. SUFFICES ASSUME Bad # {}
                 PROVE  FALSE
    OBVIOUS
  <2>2. Bad \in SUBSET Nat
    BY <1>1
  <2>3. PICK k \in Bad : \A m \in Bad : k <= m
    <3> HIDE DEF Bad
    <3> QED
      BY <2>1, <2>2, Least
  <2>4. k # 1 /\ k \in 1 .. N /\ ~ Done(k)
    BY <1>5
  <2>5. k - 1 \in 1 .. N /\ k - 1 \notin Bad
    BY <1>1, <2>3, <2>4
  <2>6. Done(k - 1)
    BY <2>5
  <2> QED
    BY <1>6, <2>4, <2>6
<1>8. Done(N)
  BY <1>1, <1>7
<1> QED
  BY <1>2, <1>8 DEF Done

\* TailsFirst lists every event of a calendar.
LEMMA TailsFirstIs ==
    ASSUME NEW n \in Nat \ {0}, NEW c, Good(c, n)
    PROVE  /\ TailsFirst(c) \in Seq(Event) /\ TiesBackwards(TailsFirst(c))
           /\ In(TailsFirst(c)) = FiledIn(c)
<1> DEFINE ls == [i \in 1 .. n |-> Reverse(c.buckets[i - 1].list)]
<1>1. c \in Calendar(n) /\ BucketsOK(c)
  BY DEF Good
<1>2. /\ c.nbuckets = n
      /\ \A i \in 0 .. n - 1 : /\ c.buckets[i].list \in Seq(Event)
                               /\ In(c.buckets[i].list) \subseteq Event
  BY <1>1, CalendarIs, InOfList
<1>3. TailsFirst(c) = FlattenSeq(ls)
  BY <1>2 DEF TailsFirst
<1>4. \A i \in 1 .. n : i - 1 \in 0 .. n - 1
  OBVIOUS
<1>5. \A i \in 1 .. n : /\ ls[i] \in Seq(Event) /\ In(ls[i]) = In(c.buckets[i - 1].list)
                        /\ TiesBackwards(ls[i])
  <2>1. ASSUME NEW i \in 1 .. n
        PROVE  /\ ls[i] \in Seq(Event) /\ In(ls[i]) = In(c.buckets[i - 1].list)
               /\ TiesBackwards(ls[i])
    <3>1. Ordered(c.buckets[i - 1].list)
      BY <1>1, <1>2, <1>4 DEF BucketsOK
    <3> QED
      BY <1>2, <1>4, <3>1, Reversed
  <2> QED
    BY <2>1
<1>6. ASSUME NEW i \in 1 .. n, NEW j \in 1 .. n, NEW x \in In(ls[i]), NEW y \in In(ls[j]), i # j
      PROVE  x.time # y.time
  <2>1. Hash(c, x.time) = i - 1 /\ Hash(c, y.time) = j - 1
    BY <1>1, <1>2, <1>4, <1>5 DEF BucketsOK
  <2> QED
    BY <1>6, <2>1
<1>7. ls \in [1 .. n -> Seq(Event)]
  BY <1>5
<1> HIDE DEF ls
<1>8. /\ FlattenSeq(ls) \in Seq(Event) /\ TiesBackwards(FlattenSeq(ls))
      /\ In(FlattenSeq(ls)) = UNION {In(ls[i]) : i \in 1 .. n}
  BY <1>5, <1>6, <1>7, Flattened
<1>9. UNION {In(ls[i]) : i \in 1 .. n} = FiledIn(c)
  <2>1. FiledIn(c) = UNION {In(c.buckets[i].list) : i \in 0 .. n - 1}
    BY <1>2 DEF FiledIn
  <2>2. UNION {In(ls[i]) : i \in 1 .. n} \subseteq FiledIn(c)
    BY <1>4, <1>5, <2>1
  <2>3. ASSUME NEW i \in 0 .. n - 1
        PROVE  In(c.buckets[i].list) \subseteq UNION {In(ls[k]) : k \in 1 .. n}
    <3>1. i + 1 \in 1 .. n /\ (i + 1) - 1 = i
      OBVIOUS
    <3>2. In(ls[i + 1]) = In(c.buckets[i].list)
      BY <1>5, <3>1
    <3> QED
      BY <3>1, <3>2
  <2> QED
    BY <2>1, <2>2, <2>3
<1> QED
  BY <1>3, <1>8, <1>9

-----------------------------------------------------------------------------
(* The operations *)

\* A calendar between two operations: of at least four buckets, as every
\* resize leaves it, and with lastbucket the bucket of its clock.
Sound(c) ==
    /\ c.nbuckets \in Nat /\ c.nbuckets >= 4 /\ Good(c, c.nbuckets)
    /\ c.lastbucket = Hash(c, c.cal_clock)

\* reinit leaves an empty calendar.
LEMMA ReinitGood ==
    ASSUME NEW n \in Nat, n >= 4, NEW w \in Nat \ {0}, NEW t \in Times
    PROVE  LET c == Reinit(n, w, t)
           IN  /\ Good(c, n) /\ FiledIn(c) = {} /\ c.nbuckets = n
               /\ c.width = w /\ c.cal_clock = t /\ c.lastbucket = (t \div w) % n
<1> DEFINE c == Reinit(n, w, t)
<1>1. /\ c.nbuckets = n /\ c.width = w /\ c.cal_clock = t /\ c.lastbucket = (t \div w) % n
      /\ c.qsize = 0 /\ c.stat_qsize = 0
      /\ \A i \in 0 .. n - 1 : c.buckets[i].list = <<>> /\ c.buckets[i].count = 0
  BY DEF Reinit
<1>2. t \in Nat /\ n \in Nat \ {0} /\ (t \div w) % n \in 0 .. n - 1
  <2>1. t \in Nat /\ n \in Nat \ {0}
    BY CalendarAssumption DEF Times
  <2> QED
    BY <2>1, Modulo
<1>3. c \in Calendar(n)
  <2>1. [list |-> <<>>, count |-> 0] \in Bucket
    BY DEF Bucket
  <2> QED
    BY <1>2, <2>1 DEF Reinit, Calendar
<1> HIDE DEF c
<1>4. In(<<>>) = {} /\ TimesOf({}) = {} /\ Ordered(<<>>)
  BY DEF In, TimesOf, Ordered
<1>5. FiledIn(c) = {}
  BY <1>1, <1>4 DEF FiledIn
<1>6. Cardinality({}) = 0 /\ IsFiniteSet({})
  BY FS_EmptySet
<1>7. BucketsOK(c)
  BY <1>1, <1>4, <1>6 DEF BucketsOK
<1>8. CountsOK(c)
  BY <1>1, <1>4, <1>5, <1>6 DEF CountsOK
<1> QED
  BY <1>1, <1>3, <1>5, <1>7, <1>8 DEF Good, c

\* resize keeps the events and the clock, and never loses the bucket of the
\* clock, whatever number and width of buckets it takes.
LEMMA ResizeSound ==
    ASSUME NEW n \in Nat \ {0}, NEW c, Good(c, n), NEW m \in Nat, NEW w \in Nat \ {0}
    PROVE  LET d == Resize(c, m, w)
           IN  /\ Sound(d) /\ FiledIn(d) = FiledIn(c) /\ d.cal_clock = c.cal_clock
               /\ d.width = w
<1> DEFINE M == IF m < 4 THEN 4 ELSE m
           base == Reinit(M, w, c.cal_clock)
           q == TailsFirst(c)
           d == Resize(c, m, w)
<1>1. M \in Nat /\ M >= 4 /\ M \in Nat \ {0}
  OBVIOUS
<1>2. c.cal_clock \in Times
  BY CalendarIs DEF Good
<1>3. d = FoldLeft(Insert2, base, q)
  BY Zenon DEF Resize
<1> HIDE DEF M, d
<1>4. /\ Good(base, M) /\ FiledIn(base) = {} /\ base.nbuckets = M
      /\ base.width = w /\ base.cal_clock = c.cal_clock
      /\ base.lastbucket = (c.cal_clock \div w) % M
  BY <1>1, <1>2, ReinitGood
<1>5. q \in Seq(Event) /\ In(q) = FiledIn(c)
      /\ \A i, j \in 1 .. Len(q) : i < j /\ q[i].time = q[j].time => Earlier(q[j], q[i])
  BY TailsFirstIs DEF TiesBackwards
<1> HIDE DEF base, q
<1>6. /\ Good(d, M) /\ FiledIn(d) = FiledIn(c)
      /\ d.width = base.width /\ d.lastbucket = base.lastbucket
      /\ d.cal_clock = base.cal_clock
  <2>1. PICK b, l : b = base /\ l = q
    OBVIOUS
  <2>2. /\ Good(FoldLeft(Insert2, b, l), M) /\ FiledIn(FoldLeft(Insert2, b, l)) = In(l)
        /\ FoldLeft(Insert2, b, l).width = b.width
        /\ FoldLeft(Insert2, b, l).lastbucket = b.lastbucket
        /\ FoldLeft(Insert2, b, l).cal_clock = b.cal_clock
    <3>1. /\ Good(b, M) /\ FiledIn(b) = {} /\ l \in Seq(Event)
          /\ \A i, j \in 1 .. Len(l) : i < j /\ l[i].time = l[j].time => Earlier(l[j], l[i])
      BY <1>4, <1>5, <2>1
    <3> QED
      BY ONLY <1>1, <3>1, AllFiled, Zenon
  <2> QED
    BY <1>3, <1>5, <2>1, <2>2, Zenon
<1>7. d.nbuckets = M
  BY <1>1, <1>6, CalendarIs DEF Good
<1>8. d.lastbucket = Hash(d, d.cal_clock)
  BY <1>4, <1>6, <1>7 DEF Hash
<1>9. d.width = w /\ d.cal_clock = c.cal_clock
  BY <1>4, <1>6
<1>10. Sound(d)
  BY <1>1, <1>6, <1>7, <1>8 DEF Sound
<1> QED
  BY <1>6, <1>9, <1>10 DEF d

\* insert files an event that is scheduled after those of its time.
LEMMA InsertSound ==
    ASSUME NEW c, Sound(c), NEW e \in Event, NEW w \in Nat \ {0}, c.cal_clock <= e.time,
           \A f \in FiledIn(c) : f.time = e.time => Earlier(f, e)
    PROVE  LET d == Insert(c, e, w)
           IN  Sound(d) /\ FiledIn(d) = FiledIn(c) \cup {e} /\ d.cal_clock = c.cal_clock
<1> DEFINE n == c.nbuckets
           i == Hash(c, e.time)
           list == c.buckets[i].list
           I == {j \in 1 .. Len(list) : list[j].time <= e.time}
           after == IF I # {} THEN Max(I) ELSE 0
           now == IF c.cal_clock > e.time
                  THEN [c EXCEPT !.cal_clock = e.time, !.lastbucket = i] ELSE c
           d == Insert(c, e, w)
<1>0. PICK new \in BOOLEAN : new = (after = 0 \/ list[after].time < e.time)
  OBVIOUS
<1>1. n \in Nat /\ n \in Nat \ {0} /\ n >= 4 /\ Good(c, n) /\ c \in Calendar(n) /\ BucketsOK(c)
      /\ c.lastbucket = Hash(c, c.cal_clock)
  BY DEF Sound, Good
<1>2. e.time \in Nat /\ c.cal_clock \in Nat
  BY <1>1, EventIs, CalendarIs
<1>3. now = c
  BY <1>2
<1>4. PICK x : x = Put(c, i, after + 1, e, new)
  OBVIOUS
<1>5. d = IF x.stat_qsize > 2 * c.nbuckets THEN Resize(x, 2 * c.nbuckets, w) ELSE x
  BY <1>0, <1>3, <1>4, Zenon DEF Insert, SelectLastInSeq
<1> HIDE DEF n
<1>6. i \in 0 .. n - 1 /\ list \in Seq(Event) /\ In(list) \subseteq FiledIn(c) /\ c.nbuckets = n
  BY <1>1, <1>2, CalendarIs
<1>7. Ordered(list)
  BY <1>1, <1>6 DEF BucketsOK
<1> HIDE DEF list, now, d
<1>8. /\ Len(list) \in Nat
      /\ \A j \in 1 .. Len(list) : list[j] \in Event /\ list[j] \in FiledIn(c)
      /\ \A j \in 1 .. Len(list) : list[j].time \in Nat
      /\ \A y \in In(list) : \E j \in 1 .. Len(list) : list[j] = y
      /\ \A j \in 1 .. Len(list) : list[j] \in In(list)
  BY <1>6, InOfList, EventIs
<1>9. /\ after \in 0 .. Len(list)
      /\ \A j \in 1 .. after : list[j].time <= e.time
      /\ \A j \in after + 1 .. Len(list) : list[j].time > e.time
  <2>1. CASE I = {}
    BY <1>2, <1>8, <2>1
  <2>2. CASE I # {}
    <3>1. Max(I) \in I /\ \A m \in I : Max(I) >= m
      <4>1. I \in SUBSET (0 .. Len(list))
        BY <1>8
      <4> HIDE DEF I
      <4> QED
        BY <1>8, <2>2, <4>1, MaxIsGreatest
    <3>2. after = Max(I) /\ after \in 1 .. Len(list) /\ list[after].time <= e.time
      BY <2>2, <3>1
    <3> HIDE DEF after
    <3>3. ASSUME NEW j \in 1 .. after
          PROVE  list[j].time <= e.time
      <4>1. j \in 1 .. Len(list) /\ j <= after
        BY <1>8, <3>2
      <4>2. list[j].time <= list[after].time
        BY <1>6, <1>7, <3>2, <4>1, TimesGrow
      <4> QED
        BY <1>2, <1>8, <3>2, <4>1, <4>2
    <3>4. ASSUME NEW j \in after + 1 .. Len(list)
          PROVE  list[j].time > e.time
      <4>1. j \in 1 .. Len(list) /\ ~ (after >= j)
        BY <1>8, <3>2
      <4>2. j \notin I
        BY <3>1, <3>2, <4>1
      <4> QED
        BY <1>2, <1>8, <4>1, <4>2
    <3> QED
      BY <1>8, <3>2, <3>3, <3>4
  <2> QED
    BY <2>1, <2>2
<1> HIDE DEF I, after
<1>10. \A j \in after + 1 .. Len(list) : Earlier(e, list[j])
  BY <1>9 DEF Earlier
<1>11. ASSUME NEW j \in 1 .. after
       PROVE  Earlier(list[j], e)
  <2>1. j \in 1 .. Len(list) /\ list[j].time <= e.time
    BY <1>8, <1>9
  <2>2. CASE list[j].time = e.time
    BY <1>8, <2>1, <2>2
  <2>3. CASE list[j].time # e.time
    BY <1>2, <1>8, <2>1, <2>3 DEF Earlier
  <2> QED
    BY <2>2, <2>3
<1>12. new <=> e.time \notin TimesOf(In(list))
  <2>0. new <=> after = 0 \/ list[after].time < e.time
    BY <1>0
  <2>1. CASE after = 0
    <3>1. \A j \in 1 .. Len(list) : list[j].time # e.time
      BY <1>2, <1>8, <1>9, <2>1
    <3> QED
      BY <1>8, <2>0, <2>1, <3>1 DEF TimesOf
  <2>2. CASE after # 0 /\ ~ (list[after].time < e.time)
    <3>1. after \in 1 .. Len(list) /\ after \in 1 .. after
      BY <1>8, <1>9, <2>2
    <3>2. list[after].time = e.time
      BY <1>2, <1>8, <1>9, <2>2, <3>1
    <3> QED
      BY <1>8, <2>0, <2>2, <3>1, <3>2 DEF TimesOf
  <2>3. CASE after # 0 /\ list[after].time < e.time
    <3>1. after \in 1 .. Len(list)
      BY <1>8, <1>9, <2>3
    <3>2. ASSUME NEW j \in 1 .. Len(list)
          PROVE  list[j].time # e.time
      <4>1. CASE after < j
        BY <1>2, <1>8, <1>9, <4>1
      <4>2. CASE j <= after
        <5>1. list[j].time <= list[after].time
          BY <1>6, <1>7, <3>1, <4>2, TimesGrow
        <5> QED
          BY <1>2, <1>8, <2>3, <3>1, <5>1
      <4> QED
        BY <1>8, <1>9, <4>1, <4>2
    <3> QED
      BY <1>8, <2>0, <2>3, <3>2 DEF TimesOf
  <2> QED
    BY <2>1, <2>2, <2>3
<1>13. /\ Good(x, n) /\ FiledIn(x) = FiledIn(c) \cup {e} /\ x.width = c.width
       /\ x.lastbucket = c.lastbucket /\ x.cal_clock = c.cal_clock
  <2>1. PICK l, p : l = list /\ p = after + 1
    OBVIOUS
  <2>2. (after + 1) - 1 = after
    BY <1>8, <1>9
  <2>3. /\ l = c.buckets[Hash(c, e.time)].list /\ p \in 1 .. Len(l) + 1
        /\ \A j \in 1 .. p - 1 : Earlier(l[j], e)
        /\ \A j \in p .. Len(l) : Earlier(e, l[j])
        /\ new <=> e.time \notin TimesOf(In(l))
        /\ x = Put(c, Hash(c, e.time), p, e, new)
    BY <1>4, <1>8, <1>9, <1>10, <1>11, <1>12, <2>1, <2>2 DEF list
  <2> QED
    BY ONLY <1>1, e \in Event, new \in BOOLEAN, <2>3, PutGood
<1>14. x.nbuckets = n /\ x.lastbucket = Hash(x, x.cal_clock)
  <2>1. x.nbuckets = n
    BY <1>1, <1>13, CalendarIs DEF Good
  <2> QED
    BY <1>1, <1>6, <1>13, <2>1 DEF Hash
<1>15. CASE x.stat_qsize > 2 * c.nbuckets
  <2>1. d = Resize(x, 2 * c.nbuckets, w) /\ 2 * c.nbuckets \in Nat
    BY <1>1, <1>5, <1>6, <1>15
  <2>2. Sound(d) /\ FiledIn(d) = FiledIn(x) /\ d.cal_clock = x.cal_clock
    BY <1>1, <1>13, <2>1, ResizeSound
  <2> QED
    BY <1>13, <2>2 DEF d
<1>16. CASE ~ (x.stat_qsize > 2 * c.nbuckets)
  <2>1. d = x
    BY <1>5, <1>16
  <2> QED
    BY <1>1, <1>13, <1>14, <2>1 DEF Sound, d
<1> QED
  BY <1>15, <1>16

\* cancel takes an event out of the calendar, and no other.
LEMMA CancelSound ==
    ASSUME NEW c, Sound(c), NEW e \in FiledIn(c)
    PROVE  LET d == CancelEvent(c, e)
           IN  Sound(d) /\ FiledIn(d) = FiledIn(c) \ {e} /\ d.cal_clock = c.cal_clock
<1> DEFINE n == c.nbuckets
           i == Hash(c, e.time)
           list == c.buckets[i].list
           len == Len(list)
           I == {j \in 1 .. Len(list) : list[j] = e}
           k == IF I # {} THEN Min(I) ELSE 0
           nextAt == (k % len) + 1
           prevAt == ((k + len - 2) % len) + 1
           d == CancelEvent(c, e)
<1>0. PICK last \in BOOLEAN :
         last = (len = 1 \/ (list[nextAt].time # e.time /\ list[prevAt].time # e.time))
  OBVIOUS
<1>1. n \in Nat /\ n \in Nat \ {0} /\ n >= 4 /\ Good(c, n) /\ c \in Calendar(n) /\ BucketsOK(c)
      /\ c.lastbucket = Hash(c, c.cal_clock)
  BY DEF Sound, Good
<1>2. e \in Event /\ e.time \in Nat
  BY <1>1, EventIs, CalendarIs
<1>3. d = Unlink(c, i, k, last)
  BY <1>0, Zenon DEF CancelEvent, SelectInSeq
<1> HIDE DEF n, d
<1>4. i \in 0 .. n - 1 /\ list \in Seq(Event) /\ c.nbuckets = n /\ e \in In(list)
  BY <1>1, <1>2, CalendarIs, InItsBucket
<1>5. Ordered(list)
  BY <1>1, <1>4 DEF BucketsOK
<1> HIDE DEF list
<1>6. /\ len \in Nat
      /\ \A j \in 1 .. len : list[j] \in Event /\ list[j].time \in Nat /\ list[j] \in In(list)
      /\ \A y \in In(list) : \E j \in 1 .. len : list[j] = y
      /\ DOMAIN list = 1 .. len
  BY <1>4, InOfList, EventIs
<1>7. k \in 1 .. len /\ list[k] = e
  <2>1. I # {} /\ I \in SUBSET Nat
    BY <1>4, <1>6
  <2>2. Min(I) \in I
    <3> HIDE DEF I
    <3> QED
      BY <2>1, MinIsLeast
  <2> QED
    BY <2>1, <2>2
<1> HIDE DEF k, I, len
<1>8. \A j \in 1 .. len : j # k => list[j] # e
  BY <1>2, <1>5, <1>6, <1>7, EarlierIsAnOrder DEF Ordered
<1>9. /\ k < len => nextAt = k + 1
      /\ k = len => nextAt = 1
      /\ k > 1 => prevAt = k - 1
      /\ k = 1 => prevAt = len
  <2>1. len \in Nat \ {0} /\ k \in Nat
    BY <1>6, <1>7
  <2>2. k < len => k % len = k
    BY <2>1
  <2>3. len % len = 0
    BY <2>1
  <2>4. k > 1 => (k + len - 2) % len = k - 2
    <3>1. ASSUME k > 1
          PROVE  (k + len - 2) % len = k - 2
      <4>1. k + len - 2 = (k - 2) + 1 * len /\ k - 2 \in 0 .. len - 1
        BY <1>7, <2>1, <3>1
      <4> QED
        BY <2>1, <4>1
    <3> QED
      BY <3>1
  <2>5. k = 1 => (k + len - 2) % len = len - 1
    BY <2>1
  <2> QED
    BY <2>1, <2>2, <2>3, <2>4, <2>5
<1>10. last <=> e.time \notin TimesOf(In(list) \ {e})
  <2>0. last <=> len = 1 \/ (list[nextAt].time # e.time /\ list[prevAt].time # e.time)
    BY <1>0
  <2>1. CASE len = 1
    <3>1. \A y \in In(list) : y = e
      BY <1>6, <1>7, <2>1
    <3> QED
      BY <2>0, <2>1, <3>1 DEF TimesOf
  <2>2. CASE len # 1
    <3>1. nextAt \in 1 .. len /\ nextAt # k /\ prevAt \in 1 .. len /\ prevAt # k
      <4> HIDE DEF nextAt, prevAt
      <4> QED
        BY <1>6, <1>7, <1>9, <2>2
    <3> HIDE DEF nextAt, prevAt
    <3>2. \A j \in 1 .. len : j # k /\ list[j].time = e.time => e.time \in TimesOf(In(list) \ {e})
      BY <1>6, <1>8 DEF TimesOf
    <3>3. ASSUME e.time \in TimesOf(In(list) \ {e})
          PROVE  list[nextAt].time = e.time \/ list[prevAt].time = e.time
      <4>1. PICK y \in In(list) \ {e} : y.time = e.time
        BY <3>3 DEF TimesOf
      <4>2. PICK j \in 1 .. len : list[j] = y
        BY <1>6, <4>1
      <4>3. CASE j < k
        <5>1. prevAt = k - 1 /\ j <= prevAt /\ prevAt <= k /\ prevAt \in 1 .. len
          BY <1>6, <1>7, <1>9, <3>1, <4>2, <4>3
        <5>2. list[j].time <= list[prevAt].time /\ list[prevAt].time <= list[k].time
          BY <1>4, <1>5, <1>7, <4>2, <5>1, TimesGrow DEF len
        <5> QED
          BY <1>2, <1>6, <1>7, <4>1, <4>2, <5>1, <5>2
      <4>4. CASE k < j
        <5>1. nextAt = k + 1 /\ nextAt <= j /\ k <= nextAt /\ nextAt \in 1 .. len
          BY <1>6, <1>7, <1>9, <3>1, <4>2, <4>4
        <5>2. list[nextAt].time <= list[j].time /\ list[k].time <= list[nextAt].time
          BY <1>4, <1>5, <1>7, <4>2, <5>1, TimesGrow DEF len
        <5> QED
          BY <1>2, <1>6, <1>7, <4>1, <4>2, <5>1, <5>2
      <4> QED
        BY <1>6, <1>7, <4>1, <4>2, <4>3, <4>4
    <3> QED
      BY <2>0, <2>2, <3>1, <3>2, <3>3
  <2> QED
    BY <2>1, <2>2
<1>11. /\ Good(d, n) /\ FiledIn(d) = FiledIn(c) \ {e} /\ d.width = c.width
       /\ d.lastbucket = c.lastbucket /\ d.cal_clock = c.cal_clock
  <2>1. PICK l, p : l = list /\ p = k
    OBVIOUS
  <2>2. /\ l = c.buckets[Hash(c, e.time)].list /\ p \in 1 .. Len(l) /\ l[p] = e
        /\ last <=> e.time \notin TimesOf(In(l) \ {e})
        /\ d = Unlink(c, Hash(c, e.time), p, last)
    BY <1>3, <1>7, <1>10, <2>1 DEF list, len
  <2> QED
    BY ONLY <1>1, <1>2, last \in BOOLEAN, <2>2, UnlinkGood
<1>12. d.nbuckets = n /\ d.lastbucket = Hash(d, d.cal_clock)
  <2>1. d.nbuckets = n
    BY <1>1, <1>11, CalendarIs DEF Good
  <2> QED
    BY <1>1, <1>4, <1>11, <2>1 DEF Hash
<1> QED
  BY <1>1, <1>11, <1>12 DEF Sound, d

-----------------------------------------------------------------------------
(* The scan of head *)

\* A product of natural numbers grows with them.
LEMMA ProductGrows ==
    ASSUME NEW w \in Nat, NEW a \in Int, NEW b \in Int, a <= b
    PROVE  w * a <= w * b /\ w * a \in Int /\ w * b \in Int
<1>1. PICK d \in Nat : b = a + d
  <2>1. b - a \in Nat /\ b = a + (b - a)
    OBVIOUS
  <2> QED
    BY <2>1
<1>2. w * d \in Nat
  OBVIOUS
<1>3. w * b = w * a + w * d
  BY <1>1
<1> QED
  BY <1>2, <1>3

\* A time lies in the slot of width w to which it is hashed.
LEMMA InSlot ==
    ASSUME NEW w \in Nat \ {0}, NEW t \in Nat
    PROVE  t \div w \in Nat /\ w * (t \div w) <= t /\ t < w * (t \div w) + w
<1>1. t \div w \in Nat
  OBVIOUS
<1>2. t = w * (t \div w) + (t % w) /\ t % w \in 0 .. w - 1
  OBVIOUS
<1>3. w * (t \div w) \in Nat
  BY <1>1
<1> QED
  BY <1>1, <1>2, <1>3

\* A later slot has later times, and a later time is in no earlier slot.
LEMMA SlotsInOrder ==
    ASSUME NEW w \in Nat \ {0}, NEW t \in Nat, NEW u \in Nat
    PROVE  /\ t \div w < u \div w => t < u
           /\ t <= u => t \div w <= u \div w
<1>1. /\ t \div w \in Nat /\ u \div w \in Nat
      /\ w * (t \div w) <= t /\ t < w * (t \div w) + w
      /\ w * (u \div w) <= u /\ u < w * (u \div w) + w
  BY InSlot
<1> DEFINE a == t \div w
           b == u \div w
<1> HIDE DEF a, b
<1>2. a \in Nat /\ b \in Nat /\ w * a <= t /\ t < w * a + w /\ w * b <= u /\ u < w * b + w
      /\ w * a \in Nat /\ w * b \in Nat
  BY <1>1 DEF a, b
<1>3. \A p, q \in Nat : p < q => w * p + w <= w * q
  <2>1. ASSUME NEW p \in Nat, NEW q \in Nat, p < q
        PROVE  w * p + w <= w * q
    <3>1. p + 1 <= q /\ p + 1 \in Int /\ q \in Int
      BY <2>1
    <3>2. w * (p + 1) <= w * q
      BY <3>1, ProductGrows
    <3>3. w * (p + 1) = w * p + w
      OBVIOUS
    <3> QED
      BY <3>2, <3>3
  <2> QED
    BY <2>1
<1>4. a < b => t < u
  BY <1>2, <1>3
<1>5. t <= u => a <= b
  <2>1. b < a => w * b + w <= w * a
    BY <1>2, <1>3
  <2> QED
    BY <1>2, <2>1
<1> QED
  BY <1>4, <1>5 DEF a, b

\* The distance of two slots, when their buckets are j apart.
LEMMA SlotsApart ==
    ASSUME NEW n \in Nat \ {0}, NEW a \in Nat, NEW b \in Nat, a <= b, NEW j \in 0 .. n - 1,
           ((a % n) + j) % n = b % n
    PROVE  b - a = j \/ b - a >= n + j
<1>1. /\ a = n * (a \div n) + (a % n) /\ a % n \in 0 .. n - 1 /\ a \div n \in Int
      /\ b = n * (b \div n) + (b % n) /\ b % n \in 0 .. n - 1 /\ b \div n \in Int
  OBVIOUS
<1>2. (a % n) + j = b % n \/ (a % n) + j = (b % n) + n
  <2>1. PICK s : s = (a % n) + j
    OBVIOUS
  <2>2. s \in 0 .. 2 * n - 2
    BY <1>1, <2>1
  <2>3. CASE s < n
    BY <2>1, <2>2, <2>3
  <2>4. CASE s >= n
    <3>1. s % n = s - n
      BY <2>2, <2>4
    <3> QED
      BY <1>1, <2>1, <2>2, <3>1
  <2> QED
    BY <2>2, <2>3, <2>4
<1>3. \E z \in Int : b - a = n * z + j
  <2>1. PICK x \in Int, y \in Int : x = a \div n /\ y = b \div n
    BY <1>1
  <2>2. a = n * x + (a % n) /\ b = n * y + (b % n) /\ a % n \in Int /\ b % n \in Int
        /\ n * x \in Int /\ n * y \in Int
    BY <1>1, <2>1
  <2>3. CASE (a % n) + j = b % n
    <3>1. y - x \in Int /\ n * (y - x) = n * y - n * x
      OBVIOUS
    <3>2. b - a = n * (y - x) + j
      BY <2>2, <2>3, <3>1
    <3> QED
      BY <3>1, <3>2
  <2>4. CASE (a % n) + j = (b % n) + n
    <3>1. (y - x) - 1 \in Int /\ n * ((y - x) - 1) = n * y - n * x - n
      OBVIOUS
    <3>2. b - a = n * ((y - x) - 1) + j
      BY <2>2, <2>4, <3>1
    <3> QED
      BY <3>1, <3>2
  <2> QED
    BY <1>2, <2>3, <2>4
<1>4. PICK z \in Int : b - a = n * z + j
  BY <1>3
<1>5. z >= 0
  <2>1. SUFFICES ASSUME z <= -1
                 PROVE  FALSE
    OBVIOUS
  <2>2. n * z <= n * (-1) /\ n * z \in Int
    BY <2>1, ProductGrows
  <2>3. n * (-1) = -n
    OBVIOUS
  <2> QED
    BY <1>4, <2>2, <2>3
<1>6. CASE z = 0
  BY <1>4, <1>6
<1>7. CASE z >= 1
  <2>1. n * 1 <= n * z /\ n * z \in Int
    BY <1>7, ProductGrows
  <2> QED
    BY <1>4, <2>1
<1> QED
  BY <1>5, <1>6, <1>7

\* The limits of the scan tell exactly which heads are of the slot that a
\* bucket stands for in this year: with four buckets or more, the shorter
\* limits of the first two buckets are long enough.
LEMMA LimitIsThisYear ==
    ASSUME NEW n \in Nat, n >= 4, NEW w \in Nat \ {0}, NEW s \in Nat, NEW t \in Nat, s <= t,
           NEW j \in 0 .. n - 2, (((s \div w) % n) + j) % n = (t \div w) % n
    PROVE  t - s < (IF j < 2 THEN (n * w) \div 2 + j * w ELSE n * w)
              <=> t \div w = (s \div w) + j
<1> DEFINE lim == IF j < 2 THEN (n * w) \div 2 + j * w ELSE n * w
<1>1. PICK a \in Nat, b \in Nat : a = s \div w /\ b = t \div w
  OBVIOUS
<1>2. /\ w * a <= s /\ s < w * a + w /\ w * b <= t /\ t < w * b + w
      /\ w * a \in Nat /\ w * b \in Nat
  <2>1. /\ w * (s \div w) <= s /\ s < w * (s \div w) + w
        /\ w * (t \div w) <= t /\ t < w * (t \div w) + w
    BY InSlot
  <2> QED
    BY <1>1, <2>1
<1>3. a <= b /\ (b - a = j \/ b - a >= n + j)
  <2>1. a <= b
    BY <1>1, SlotsInOrder
  <2>2. n \in Nat \ {0} /\ j \in 0 .. n - 1 /\ ((a % n) + j) % n = b % n
    BY <1>1
  <2> QED
    BY <2>1, <2>2, SlotsApart
<1>4. PICK p \in Nat : p = n * w /\ p >= 4 * w
  <2>1. w * 4 <= w * n /\ w * n = n * w /\ n * w \in Nat
    BY ProductGrows
  <2> QED
    BY <2>1
<1>5. PICK h \in Nat : h = p \div 2 /\ 2 * h <= p /\ p <= 2 * h + 1
  OBVIOUS
<1>6. lim = IF j < 2 THEN h + j * w ELSE p
  BY <1>4, <1>5
<1>7. CASE b - a = j
  <2>1. w * b = w * a + w * j /\ w * j \in Nat
    <3>1. b = a + j /\ j \in Nat
      BY <1>7
    <3> QED
      BY <3>1
  <2>2. t - s < w * j + w
    BY <1>2, <2>1
  <2>3. w * j + w <= lim
    <3>1. CASE j = 0
      BY <1>4, <1>5, <1>6, <3>1
    <3>2. CASE j = 1
      BY <1>4, <1>5, <1>6, <3>2
    <3>3. CASE j >= 2
      <4>1. w * (j + 1) <= w * n
        BY ProductGrows
      <4>2. w * (j + 1) = w * j + w /\ w * n = n * w
        OBVIOUS
      <4> QED
        BY <1>4, <1>6, <3>3, <4>1, <4>2
    <3> QED
      BY <3>1, <3>2, <3>3
  <2>4. lim \in Nat
    BY <1>6
  <2>5. t - s < lim
    <3> HIDE DEF lim
    <3> QED
      BY <2>1, <2>2, <2>3, <2>4
  <2> QED
    BY <1>1, <1>7, <2>5
<1>8. CASE b - a >= n + j
  <2>1. w * b >= w * a + p + w * j /\ w * j \in Nat
    <3>1. w * (a + n + j) <= w * b
      BY <1>8, ProductGrows
    <3>2. w * (a + n + j) = w * a + w * n + w * j /\ w * n = n * w /\ w * j \in Nat
      OBVIOUS
    <3> QED
      BY <1>4, <3>1, <3>2
  <2>2. t - s > p + w * j - w
    BY <1>2, <2>1
  <2>3. lim <= p + w * j - w
    <3>1. CASE j = 0
      BY <1>4, <1>5, <1>6, <3>1
    <3>2. CASE j = 1
      BY <1>4, <1>5, <1>6, <3>2
    <3>3. CASE j >= 2
      <4>1. w * 2 <= w * j
        BY <3>3, ProductGrows
      <4> QED
        BY <1>4, <1>6, <2>1, <3>3, <4>1
    <3> QED
      BY <3>1, <3>2, <3>3
  <2>4. lim \in Nat
    BY <1>6
  <2>5. ~ (t - s < lim)
    <3> HIDE DEF lim
    <3> QED
      BY <2>1, <2>2, <2>3, <2>4
  <2>6. b # a + j
    BY <1>8
  <2> QED
    BY <1>1, <2>5, <2>6
<1> QED
  BY <1>3, <1>7, <1>8

\* head finds the event that is due next, with the one scheduled first among
\* those of one time, as long as no event is before the calendar's clock.
LEMMA HeadIsNext ==
    ASSUME NEW c, Sound(c), FiledIn(c) # {}, \A f \in FiledIn(c) : c.cal_clock <= f.time
    PROVE  /\ HeadEvent(c) \in FiledIn(c)
           /\ HeadBucket(c) = Hash(c, HeadEvent(c).time)
           /\ \A f \in FiledIn(c) \ {HeadEvent(c)} : Earlier(HeadEvent(c), f)
<1> DEFINE At(j) == (c.lastbucket + j) % c.nbuckets
           First(j) == c.buckets[At(j)].list[1].time
           Limit(j) == IF j < 2 THEN (c.nbuckets * c.width) \div 2 + j * c.width
                       ELSE c.nbuckets * c.width
           full == {j \in 0 .. c.nbuckets - 1 : c.buckets[At(j)].list # <<>>}
           soon == {j \in full \ {c.nbuckets - 1} : First(j) - c.cal_clock < Limit(j)}
           chosen == IF soon # {} THEN Min(soon)
                     ELSE CHOOSE j \in full : \A k \in full : First(j) <= First(k)
<1>1. HeadBucket(c) = At(chosen)
  BY Zenon DEF HeadBucket
<1>2. PICK n, w, s, l : n = c.nbuckets /\ w = c.width /\ s = c.cal_clock /\ l = c.lastbucket
  OBVIOUS
<1>3. /\ n \in Nat /\ n >= 4 /\ w \in Nat \ {0} /\ s \in Nat /\ l \in 0 .. n - 1
      /\ l = (s \div w) % n /\ n \in Nat \ {0} /\ c \in Calendar(n) /\ BucketsOK(c)
      /\ c.nbuckets = n
  <2>1. n \in Nat /\ n >= 4 /\ n \in Nat \ {0} /\ c \in Calendar(n) /\ BucketsOK(c)
        /\ l = Hash(c, c.cal_clock)
    BY <1>2 DEF Sound, Good
  <2>2. c.nbuckets = n /\ c.width \in Nat \ {0} /\ c.lastbucket \in 0 .. n - 1
        /\ c.cal_clock \in Nat
    BY <2>1, CalendarIs
  <2>3. l = (s \div w) % n
    BY <1>2, <2>1, <2>2 DEF Hash
  <2> QED
    BY <1>2, <2>1, <2>2, <2>3
<1>4. \A j : At(j) = (l + j) % n
  BY <1>2
<1>5. \A j \in 0 .. n - 1 : At(j) \in 0 .. n - 1
  <2>1. \A j \in 0 .. n - 1 : (l + j) % n \in 0 .. n - 1
    BY <1>3
  <2> QED
    BY <1>4, <2>1
<1>6. \A i \in 0 .. n - 1 : \E j \in 0 .. n - 1 : At(j) = i
  <2>1. ASSUME NEW i \in 0 .. n - 1
        PROVE  \E j \in 0 .. n - 1 : (l + j) % n = i
    <3>1. CASE i >= l
      <4>1. i - l \in 0 .. n - 1 /\ (l + (i - l)) % n = i
        BY <1>3, <3>1
      <4> QED
        BY <4>1
    <3>2. CASE i < l
      <4>1. (i - l) + n \in 0 .. n - 1 /\ l + ((i - l) + n) = i + n
        BY <1>3, <3>2
      <4>2. (i + n) % n = i
        BY <1>3
      <4> QED
        BY <4>1, <4>2
    <3> QED
      BY <1>3, <3>1, <3>2
  <2> QED
    BY <1>4, <2>1
<1>7. \A i \in 0 .. n - 1 : /\ c.buckets[i].list \in Seq(Event) /\ Ordered(c.buckets[i].list)
                            /\ In(c.buckets[i].list) \subseteq FiledIn(c)
                            /\ \A e \in In(c.buckets[i].list) : Hash(c, e.time) = i
  BY <1>3, CalendarIs DEF BucketsOK
<1>8. full = {j \in 0 .. n - 1 : c.buckets[At(j)].list # <<>>}
  BY <1>2
<1> HIDE DEF At
<1>9. ASSUME NEW j \in full
      PROVE  /\ j \in 0 .. n - 1 /\ c.buckets[At(j)].list[1] \in FiledIn(c)
             /\ c.buckets[At(j)].list[1] \in Event
             /\ Hash(c, First(j)) = At(j) /\ First(j) \in Nat /\ s <= First(j)
             /\ (((s \div w) % n) + j) % n = (First(j) \div w) % n
             /\ \/ First(j) \div w = (s \div w) + j
                \/ First(j) \div w >= (s \div w) + j + n
  <2>1. j \in 0 .. n - 1 /\ At(j) \in 0 .. n - 1 /\ c.buckets[At(j)].list # <<>>
    BY <1>5, <1>8
  <2>2. PICK q \in Seq(Event) : q = c.buckets[At(j)].list
    BY <1>7, <2>1
  <2>3. 1 \in 1 .. Len(q)
    <3>1. Len(q) \in Nat /\ Len(q) # 0
      BY <2>1, <2>2, EmptySeq
    <3> QED
      BY <3>1
  <2>4. q[1] \in Event /\ q[1] \in In(q) /\ q[1].time \in Nat
    BY <2>3, InOfList, EventIs
  <2>5. q[1] \in FiledIn(c) /\ Hash(c, q[1].time) = At(j) /\ s <= q[1].time
    BY <1>2, <1>7, <2>1, <2>2, <2>4
  <2>6. (((s \div w) % n) + j) % n = (q[1].time \div w) % n
    BY <1>2, <1>3, <1>4, <2>5 DEF Hash
  <2>7. q[1].time \div w = (s \div w) + j \/ q[1].time \div w >= (s \div w) + j + n
    <3>1. PICK a \in Nat, b \in Nat : a = s \div w /\ b = q[1].time \div w
      <4>1. s \div w \in Nat /\ q[1].time \div w \in Nat
        BY <1>3, <2>4, InSlot
      <4> QED
        BY <4>1, Zenon
    <3>2. a <= b
      BY <1>3, <2>4, <2>5, <3>1, SlotsInOrder
    <3>3. ((a % n) + j) % n = b % n
      BY <2>6, <3>1
    <3>4. b - a = j \/ b - a >= n + j
      BY <1>3, <2>1, <3>2, <3>3, SlotsApart
    <3>5. b = a + j \/ b >= a + j + n
      BY <1>3, <2>1, <3>4
    <3> QED
      BY <3>1, <3>5
  <2> QED
    BY <2>1, <2>2, <2>4, <2>5, <2>6, <2>7
<1>10. ASSUME NEW f \in FiledIn(c)
       PROVE  \E j \in full : /\ f \in In(c.buckets[At(j)].list) /\ Hash(c, f.time) = At(j)
                              /\ First(j) <= f.time /\ f.time \in Nat
                              /\ f # c.buckets[At(j)].list[1] =>
                                    Earlier(c.buckets[At(j)].list[1], f)
  <2>1. PICK i \in 0 .. n - 1 : f \in In(c.buckets[i].list)
    BY <1>3, CalendarIs
  <2>2. PICK j \in 0 .. n - 1 : At(j) = i
    BY <1>6
  <2>3. PICK q \in Seq(Event) : q = c.buckets[At(j)].list
    BY <1>7, <2>2
  <2>4. PICK k \in 1 .. Len(q) : q[k] = f
    BY <2>1, <2>2, <2>3, InOfList
  <2>5. Len(q) \in Nat /\ 1 \in 1 .. Len(q) /\ DOMAIN q = 1 .. Len(q) /\ q # <<>>
    <3>1. Len(q) \in Nat /\ DOMAIN q = 1 .. Len(q)
      BY InOfList
    <3> QED
      BY <2>4, <3>1
  <2>6. Ordered(q) /\ Hash(c, f.time) = At(j)
    BY <1>7, <2>1, <2>2, <2>3
  <2>7. q[1].time <= f.time /\ f.time \in Nat
    BY <2>4, <2>5, <2>6, TimesGrow
  <2>8. f # q[1] => Earlier(q[1], f)
    BY <2>4, <2>5, <2>6 DEF Ordered
  <2>9. j \in full
    BY <1>8, <2>3, <2>5
  <2> QED
    BY <2>1, <2>2, <2>3, <2>6, <2>7, <2>8, <2>9
<1>11. \A j \in full \ {n - 1} : First(j) - s < Limit(j) <=> First(j) \div w = (s \div w) + j
  <2>1. ASSUME NEW j \in full \ {n - 1}
        PROVE  First(j) - s < Limit(j) <=> First(j) \div w = (s \div w) + j
    <3>1. j \in 0 .. n - 2 /\ First(j) \in Nat /\ s <= First(j)
          /\ (((s \div w) % n) + j) % n = (First(j) \div w) % n
      <4> HIDE DEF full, First
      <4> QED
        BY <1>3, <1>9
    <3>2. Limit(j) = (IF j < 2 THEN (n * w) \div 2 + j * w ELSE n * w)
      BY <1>2
    <3> HIDE DEF First, Limit
    <3>3. First(j) - s < (IF j < 2 THEN (n * w) \div 2 + j * w ELSE n * w)
             <=> First(j) \div w = (s \div w) + j
      BY <1>3, <3>1, LimitIsThisYear
    <3> QED
      BY <3>2, <3>3
  <2> QED
    BY <2>1
<1>12. soon = {j \in full \ {n - 1} : First(j) \div w = (s \div w) + j}
  <2> HIDE DEF full, First, Limit
  <2> QED
    BY <1>2, <1>11
<1> HIDE DEF Limit, full, First, soon
<1>13. chosen \in full /\ \A j \in full : At(j) # At(chosen) =>
          First(chosen) < First(j)
  <2>1. CASE soon # {}
    <3>1. soon \in SUBSET Nat
      BY <1>9, <1>12
    <3>2. chosen \in soon /\ \A j \in soon : chosen <= j
      BY <2>1, <3>1, MinIsLeast
    <3> HIDE DEF chosen
    <3>3. chosen \in full /\ chosen \in 0 .. n - 2 /\ First(chosen) \div w = (s \div w) + chosen
      BY <1>3, <1>9, <1>12, <3>2
    <3>4. ASSUME NEW j \in full, At(j) # At(chosen)
          PROVE  First(chosen) < First(j)
      <4>1. PICK a \in Nat, b \in Nat : a = s \div w /\ b = First(j) \div w
        <5>1. s \div w \in Nat /\ First(j) \div w \in Nat
          BY <1>3, <1>9, InSlot
        <5> QED
          BY <5>1, Zenon
      <4>2. j \in 0 .. n - 1 /\ j # chosen /\ (b = a + j \/ b >= a + j + n)
        BY <1>9, <3>4, <4>1
      <4>3. a + chosen < b
        <5>1. CASE j \in soon
          <6>1. chosen <= j
            BY <3>2, <5>1
          <6> QED
            BY <1>3, <3>3, <4>2, <6>1
        <5>2. CASE j \notin soon
          <6>1. j = n - 1 \/ b # a + j
            BY <1>12, <4>1, <5>2
          <6> QED
            BY <1>3, <3>3, <4>2, <6>1
        <5> QED
          BY <5>1, <5>2
      <4>4. First(chosen) \div w < First(j) \div w
        BY <3>3, <4>1, <4>3
      <4> QED
        BY <1>3, <1>9, <3>3, <4>4, SlotsInOrder
    <3> QED
      BY <3>3, <3>4
  <2>2. CASE soon = {}
    <3>1. \E j \in full : \A k \in full : First(j) <= First(k)
      <4> DEFINE T == {First(j) : j \in full}
      <4>1. T \in SUBSET Nat
        BY <1>9
      <4>2. T # {}
        BY <1>10
      <4>3. PICK t \in T : \A u \in T : t <= u
        <5> HIDE DEF T
        <5> QED
          BY <4>1, <4>2, Least
      <4> QED
        BY <4>3
    <3>2. chosen = CHOOSE j \in full : \A k \in full : First(j) <= First(k)
      BY <2>2
    <3> HIDE DEF chosen
    <3>3. chosen \in full /\ \A k \in full : First(chosen) <= First(k)
      BY <3>1, <3>2, Zenon
    <3>4. ASSUME NEW j \in full, At(j) # At(chosen)
          PROVE  First(chosen) < First(j)
      <4>1. First(j) # First(chosen)
        BY <1>9, <3>3, <3>4
      <4> QED
        BY <1>9, <3>3, <4>1
    <3> QED
      BY <3>3, <3>4
  <2> QED
    BY <2>1, <2>2
<1>14. HeadEvent(c) = c.buckets[At(chosen)].list[1]
  BY <1>1 DEF HeadEvent
<1> HIDE DEF chosen
<1>15. HeadEvent(c) \in FiledIn(c) /\ HeadBucket(c) = Hash(c, HeadEvent(c).time)
       /\ HeadEvent(c).time = First(chosen)
  BY <1>1, <1>9, <1>13, <1>14 DEF First
<1>16. ASSUME NEW f \in FiledIn(c) \ {HeadEvent(c)}
       PROVE  Earlier(HeadEvent(c), f)
  <2>1. PICK j \in full : /\ First(j) <= f.time /\ f.time \in Nat
                          /\ f # c.buckets[At(j)].list[1] =>
                                Earlier(c.buckets[At(j)].list[1], f)
    BY <1>10
  <2>2. CASE At(j) = At(chosen)
    BY <1>14, <2>1, <2>2
  <2>3. CASE At(j) # At(chosen)
    <3>1. First(chosen) < First(j) /\ First(chosen) \in Nat /\ First(j) \in Nat
      BY <1>9, <1>13, <2>3
    <3>2. HeadEvent(c).time < f.time
      BY <1>15, <2>1, <3>1
    <3> QED
      BY <3>2 DEF Earlier
  <2> QED
    BY <2>2, <2>3
<1> QED
  BY <1>15, <1>16

\* deque takes out the event that is due next, and no other, and moves the
\* calendar's clock to its time.
LEMMA DequeSound ==
    ASSUME NEW c, Sound(c), FiledIn(c) # {}, \A f \in FiledIn(c) : c.cal_clock <= f.time,
           NEW w \in Nat \ {0}, NEW v \in Nat \ {0}
    PROVE  LET d == Deque(c, w, v)
           IN  /\ Sound(d) /\ FiledIn(d) = FiledIn(c) \ {HeadEvent(c)}
               /\ d.cal_clock = HeadEvent(c).time
<1>1. PICK n, e : n = c.nbuckets /\ e = HeadEvent(c)
  OBVIOUS
<1>2. /\ n \in Nat /\ n >= 4 /\ n \in Nat \ {0} /\ Good(c, n) /\ c \in Calendar(n)
      /\ BucketsOK(c) /\ CountsOK(c) /\ c.nbuckets = n
  BY <1>1 DEF Sound, Good
<1>3. /\ e \in FiledIn(c) /\ HeadBucket(c) = Hash(c, e.time)
      /\ \A f \in FiledIn(c) \ {e} : Earlier(e, f)
  BY <1>1, HeadIsNext
<1>4. e \in Event /\ e.time \in Times /\ e.time \in Nat /\ FiledIn(c) \subseteq Event
      /\ Hash(c, e.time) \in 0 .. n - 1
  BY <1>2, <1>3, CalendarIs, EventIs
<1>5. PICK at : at = [c EXCEPT !.lastbucket = HeadBucket(c), !.cal_clock = e.time]
  OBVIOUS
<1>6. /\ Sound(at) /\ FiledIn(at) = FiledIn(c) /\ at.cal_clock = e.time
      /\ Good(at, n) /\ at.width = c.width
  <2>1. /\ at \in Calendar(n) /\ at.width = c.width /\ at.nbuckets = n
        /\ at.buckets = c.buckets /\ at.qsize = c.qsize /\ at.stat_qsize = c.stat_qsize
        /\ at.cal_clock = e.time /\ at.lastbucket = Hash(c, e.time)
    BY <1>2, <1>3, <1>4, <1>5 DEF Calendar
  <2>2. \A t : Hash(at, t) = Hash(c, t)
    BY <1>2, <2>1 DEF Hash
  <2>3. FiledIn(at) = FiledIn(c)
    BY <1>2, <2>1 DEF FiledIn
  <2>4. BucketsOK(at)
    BY <1>2, <2>1, <2>2 DEF BucketsOK
  <2>5. CountsOK(at)
    BY <1>2, <2>1, <2>3 DEF CountsOK
  <2> QED
    BY <1>2, <2>1, <2>2, <2>3, <2>4, <2>5 DEF Sound, Good
<1>7. PICK wide : wide = IF w = c.width THEN at ELSE Resize(at, c.nbuckets, w)
  OBVIOUS
<1>8. Sound(wide) /\ FiledIn(wide) = FiledIn(c) /\ wide.cal_clock = e.time
  <2>1. CASE w = c.width
    BY <1>6, <1>7, <2>1
  <2>2. CASE w # c.width
    <3>1. wide = Resize(at, n, w)
      BY <1>2, <1>7, <2>2
    <3> QED
      BY <1>2, <1>6, <3>1, ResizeSound
  <2> QED
    BY <2>1, <2>2
<1>9. PICK m, i, list : m = wide.nbuckets /\ i = wide.lastbucket /\ list = wide.buckets[i].list
  OBVIOUS
<1>10. /\ m \in Nat /\ m >= 4 /\ m \in Nat \ {0} /\ Good(wide, m) /\ wide \in Calendar(m)
       /\ BucketsOK(wide) /\ wide.nbuckets = m /\ i = Hash(wide, e.time)
  BY <1>8, <1>9 DEF Sound, Good
<1>11. /\ list \in Seq(Event) /\ Ordered(list) /\ In(list) \subseteq FiledIn(c) /\ e \in In(list)
  <2>1. i \in 0 .. m - 1
    BY <1>4, <1>10, CalendarIs
  <2>2. list \in Seq(Event) /\ In(list) \subseteq FiledIn(c)
    BY <1>8, <1>9, <1>10, <2>1, CalendarIs
  <2>3. Ordered(list)
    BY <1>9, <1>10, <2>1 DEF BucketsOK
  <2>4. e \in In(list)
    BY <1>3, <1>4, <1>8, <1>9, <1>10, InItsBucket
  <2> QED
    BY <2>2, <2>3, <2>4
<1>12. /\ Len(list) \in Nat /\ DOMAIN list = 1 .. Len(list) /\ 1 \in 1 .. Len(list)
       /\ \A j \in 1 .. Len(list) : list[j] \in Event /\ list[j] \in In(list)
                                    /\ list[j].time \in Nat
       /\ \A y \in In(list) : \E j \in 1 .. Len(list) : list[j] = y
       /\ list[1] = e
  <2>1. /\ Len(list) \in Nat /\ DOMAIN list = 1 .. Len(list)
        /\ \A j \in 1 .. Len(list) : list[j] \in Event /\ list[j] \in In(list)
                                     /\ list[j].time \in Nat
        /\ \A y \in In(list) : \E j \in 1 .. Len(list) : list[j] = y
    BY <1>11, InOfList, EventIs
  <2>2. PICK j \in 1 .. Len(list) : list[j] = e
    BY <1>11, <2>1
  <2>3. 1 \in 1 .. Len(list)
    BY <2>1, <2>2
  <2>4. list[1] = e
    <3>1. SUFFICES ASSUME list[1] # e
                   PROVE  FALSE
      OBVIOUS
    <3>2. Earlier(e, list[1])
      BY <1>3, <1>11, <2>1, <2>3, <3>1
    <3>3. Earlier(list[1], e)
      <4>1. j # 1
        BY <2>2, <3>1
      <4>2. 1 < j /\ 1 \in DOMAIN list /\ j \in DOMAIN list
        BY <2>1, <2>3, <4>1
      <4> QED
        BY <1>11, <2>2, <4>2 DEF Ordered
    <3> QED
      BY <1>4, <2>1, <2>3, <3>2, <3>3, EarlierIsAnOrder
  <2> QED
    BY <2>1, <2>3, <2>4
<1>13. PICK last \in BOOLEAN : last = (Len(list) = 1 \/ list[2].time # e.time)
  OBVIOUS
<1>14. last <=> e.time \notin TimesOf(In(list) \ {e})
  <2>0. last <=> Len(list) = 1 \/ list[2].time # e.time
    BY <1>13
  <2>1. CASE Len(list) = 1
    <3>1. \A y \in In(list) : y = e
      BY <1>12, <2>1
    <3> QED
      BY <2>0, <2>1, <3>1 DEF TimesOf
  <2>2. CASE Len(list) # 1
    <3>1. 2 \in 1 .. Len(list)
      BY <1>12, <2>2
    <3>2. list[2] \in In(list) \ {e}
      BY <1>4, <1>11, <1>12, <3>1, EarlierIsAnOrder DEF Ordered
    <3>3. ASSUME e.time \in TimesOf(In(list) \ {e})
          PROVE  list[2].time = e.time
      <4>1. PICK y \in In(list) \ {e} : y.time = e.time
        BY <3>3 DEF TimesOf
      <4>2. PICK j \in 1 .. Len(list) : list[j] = y
        BY <1>12, <4>1
      <4>3. 2 <= j
        BY <1>12, <4>1, <4>2
      <4>4. list[2].time <= list[j].time /\ list[1].time <= list[2].time
        BY <1>11, <1>12, <3>1, <4>2, <4>3, TimesGrow
      <4> QED
        BY <1>12, <3>1, <4>1, <4>2, <4>4
    <3> QED
      BY <2>0, <2>2, <3>2, <3>3 DEF TimesOf
  <2> QED
    BY <2>1, <2>2
<1>15. PICK left : left = Unlink(wide, i, 1, last)
  OBVIOUS
<1>16. /\ Good(left, m) /\ FiledIn(left) = FiledIn(c) \ {e} /\ left.width = wide.width
       /\ left.lastbucket = wide.lastbucket /\ left.cal_clock = e.time
  <2>1. /\ list = wide.buckets[Hash(wide, e.time)].list /\ 1 \in 1 .. Len(list) /\ list[1] = e
        /\ left = Unlink(wide, Hash(wide, e.time), 1, last)
    BY <1>9, <1>10, <1>12, <1>15
  <2>2. /\ Good(left, m) /\ FiledIn(left) = FiledIn(wide) \ {e} /\ left.width = wide.width
        /\ left.lastbucket = wide.lastbucket /\ left.cal_clock = wide.cal_clock
    BY ONLY <1>4, <1>10, <1>14, last \in BOOLEAN, <2>1, UnlinkGood
  <2> QED
    BY <1>8, <2>2
<1>17. Sound(left)
  <2>1. left.nbuckets = m
    BY <1>10, <1>16, CalendarIs DEF Good
  <2>2. left.lastbucket = Hash(left, left.cal_clock)
    BY <1>9, <1>10, <1>16, <2>1 DEF Hash
  <2> QED
    BY <1>10, <1>16, <2>1, <2>2 DEF Sound
<1>18. Deque(c, w, v) = IF left.stat_qsize < c.nbuckets \div 2 - 2
                        THEN Resize(left, c.nbuckets \div 2, v) ELSE left
  <2> DEFINE A == [c EXCEPT !.lastbucket = HeadBucket(c), !.cal_clock = HeadEvent(c).time]
             W == IF w = c.width THEN A ELSE Resize(A, c.nbuckets, w)
             I == W.lastbucket
             Q == W.buckets[I].list
             X == Unlink(W, I, 1, Len(Q) = 1 \/ Q[2].time # HeadEvent(c).time)
  <2>1. Deque(c, w, v) = IF X.stat_qsize < c.nbuckets \div 2 - 2
                         THEN Resize(X, c.nbuckets \div 2, v) ELSE X
    BY Zenon DEF Deque
  <2>2. A = at
    BY <1>1, <1>5, Zenon
  <2> HIDE DEF A
  <2>3. W = wide
    BY <1>7, <2>2, Zenon
  <2> HIDE DEF W
  <2>4. I = i
    BY <1>9, <2>3, Zenon
  <2> HIDE DEF I
  <2>5. Q = list
    BY <1>9, <2>3, <2>4, Zenon
  <2> HIDE DEF Q
  <2>6. last = (Len(Q) = 1 \/ Q[2].time # HeadEvent(c).time)
    BY <1>1, <1>13, <2>5, Zenon
  <2>7. X = left
    BY <1>15, <2>3, <2>4, <2>6, Zenon
  <2> HIDE DEF X
  <2> QED
    BY <2>1, <2>7, Zenon
<1>19. CASE left.stat_qsize < c.nbuckets \div 2 - 2
  <2>1. c.nbuckets \div 2 \in Nat
    BY <1>2
  <2>2. PICK h, d : h \in Nat /\ h = c.nbuckets \div 2 /\ d = Resize(left, h, v)
    BY <2>1, Zenon
  <2>3. Sound(d) /\ FiledIn(d) = FiledIn(left) /\ d.cal_clock = left.cal_clock
    BY <1>10, <1>16, <2>2, ResizeSound
  <2>4. Deque(c, w, v) = d
    BY <1>18, <1>19, <2>2
  <2> QED
    BY <1>1, <1>16, <2>3, <2>4
<1>20. CASE ~ (left.stat_qsize < c.nbuckets \div 2 - 2)
  <2>1. Deque(c, w, v) = left
    BY <1>18, <1>20
  <2> QED
    BY <1>1, <1>16, <1>17, <2>1
<1> QED
  BY <1>19, <1>20

-----------------------------------------------------------------------------
(* The specification *)

\* The inductive invariant: the calendar is sound, its clock is that of the
\* scheduler, and no event lies in the past.
Inv ==
    /\ clock \in Times /\ Sound(cal) /\ cal.cal_clock = clock
    /\ \A e \in FiledIn(cal) : clock <= e.time

\* Filed is what the calendar holds.
LEMMA FiledIs == Filed = FiledIn(cal)
  BY DEF Filed, FiledIn, In

\* What Inv says of the calendar.
LEMMA InvIs ==
    ASSUME Inv
    PROVE  /\ cal.nbuckets \in Nat \ {0} /\ cal.nbuckets >= 4 /\ Good(cal, cal.nbuckets)
           /\ cal \in Calendar(cal.nbuckets) /\ BucketsOK(cal) /\ CountsOK(cal)
           /\ cal.width \in Nat \ {0} /\ Filed \subseteq Event /\ clock \in Nat
<1>1. /\ cal.nbuckets \in Nat \ {0} /\ cal.nbuckets >= 4 /\ Good(cal, cal.nbuckets)
      /\ cal \in Calendar(cal.nbuckets) /\ BucketsOK(cal) /\ CountsOK(cal)
  BY DEF Inv, Sound, Good
<1>2. clock \in Nat
  BY CalendarAssumption DEF Inv, Times
<1> QED
  BY <1>1, <1>2, FiledIs, CalendarIs

\* The first state.
LEMMA InvInit ==
    ASSUME Init
    PROVE  Inv /\ Filed = {}
<1>1. 0 \in Times /\ 4 \in Nat /\ 4 >= 4 /\ 1 \in Nat \ {0}
  BY CalendarAssumption DEF Times
<1>2. PICK c : c = Reinit(4, 1, 0)
  OBVIOUS
<1>3. /\ Good(c, 4) /\ FiledIn(c) = {} /\ c.nbuckets = 4 /\ c.width = 1 /\ c.cal_clock = 0
      /\ c.lastbucket = (0 \div 1) % 4
  BY <1>1, <1>2, ReinitGood
<1>4. cal = c /\ clock = 0
  BY <1>2 DEF Init
<1>5. Sound(c)
  BY <1>1, <1>3 DEF Sound, Hash
<1> QED
  BY <1>1, <1>3, <1>4, <1>5, FiledIs DEF Inv

\* The number an event gets is above those of its time.
LEMMA Numbered ==
    ASSUME Inv, NEW t \in Times, NEW same, same = {e.no : e \in {f \in Filed : f.time = t}},
           NEW no, no = IF same = {} THEN 1 ELSE Max(same) + 1,
           no > 1 => no <= MaxTied + 1
    PROVE  /\ [time |-> t, no |-> no] \in Event
           /\ \A f \in Filed : f.time = t => Earlier(f, [time |-> t, no |-> no])
<1>1. Filed \subseteq Event /\ MaxTied \in Nat
  BY InvIs, CalendarAssumption
<1>2. \A f \in Filed : f.no \in 1 .. MaxTied + 1
  BY <1>1, EventIs
<1>3. CASE same = {}
  <2>1. \A f \in Filed : f.time # t
    BY <1>3
  <2> QED
    BY <1>1, <1>3, <2>1 DEF Event
<1>4. CASE same # {}
  <2>1. MaxTied + 1 \in Nat /\ same \in SUBSET (0 .. MaxTied + 1)
    BY <1>1, <1>2
  <2>2. Max(same) \in same /\ \A m \in same : Max(same) >= m
    BY <1>4, <2>1, MaxIsGreatest
  <2>3. Max(same) \in 1 .. MaxTied + 1 /\ no = Max(same) + 1
    BY <1>2, <1>4, <2>2
  <2>4. no \in 1 .. MaxTied + 1
    BY <1>1, <2>3
  <2>5. ASSUME NEW f \in Filed, f.time = t
        PROVE  f.no < no
    <3>1. f.no \in same
      BY <2>5
    <3>2. Max(same) >= f.no /\ f.no \in Int /\ Max(same) \in Int
      BY <1>2, <2>2, <2>3, <3>1
    <3> QED
      BY <2>3, <3>2
  <2> QED
    BY <2>4, <2>5 DEF Event, Earlier
<1> QED
  BY <1>3, <1>4

\* schedule adds one event, for now or later, after those of its time.
LEMMA ScheduleStep ==
    ASSUME Inv, NEW t \in Times, Schedule(t)
    PROVE  /\ Inv'
           /\ \E e \in Event : /\ clock <= e.time
                               /\ \A f \in Filed : f.time = e.time => Earlier(f, e)
                               /\ Filed' = Filed \cup {e} /\ UNCHANGED clock
<1>1. PICK same, no : /\ same = {e.no : e \in {f \in Filed : f.time = t}}
                      /\ no = IF same = {} THEN 1 ELSE Max(same) + 1
  OBVIOUS
<1>2. PICK e : e = [time |-> t, no |-> no]
  OBVIOUS
<1>3. PICK w \in Widths : cal' = Insert(cal, e, w)
  BY <1>1, <1>2, Zenon DEF Schedule
<1>4. t >= clock /\ UNCHANGED clock /\ (no > 1 => no <= MaxTied + 1)
  BY <1>1, Zenon DEF Schedule
<1>5. /\ e \in Event /\ e.time = t
      /\ \A f \in Filed : f.time = t => Earlier(f, e)
  BY <1>1, <1>2, <1>4, Numbered
<1>6. w \in Nat \ {0} /\ clock \in Nat /\ t \in Nat
  BY CalendarAssumption, InvIs DEF Times
<1>7. clock <= e.time
  BY <1>4, <1>5, <1>6
<1>8. Sound(cal') /\ FiledIn(cal') = FiledIn(cal) \cup {e} /\ cal'.cal_clock = clock
  <2>1. PICK c, d : c = cal /\ d = cal'
    OBVIOUS
  <2>2. /\ Sound(c) /\ c.cal_clock <= e.time /\ d = Insert(c, e, w)
        /\ \A f \in FiledIn(c) : f.time = e.time => Earlier(f, e)
    BY <1>3, <1>5, <1>7, <2>1, FiledIs DEF Inv
  <2>3. Sound(d) /\ FiledIn(d) = FiledIn(c) \cup {e} /\ d.cal_clock = c.cal_clock
    BY ONLY <1>5, <1>6, <2>2, InsertSound
  <2> QED
    BY <2>1, <2>3 DEF Inv
<1>9. Filed' = FiledIn(cal')
  BY DEF Filed, FiledIn, In
<1> QED
  BY <1>4, <1>5, <1>7, <1>8, <1>9, FiledIs DEF Inv

\* cancel takes out the event it is asked to.
LEMMA CancelStep ==
    ASSUME Inv, NEW e \in Filed, Cancel(e)
    PROVE  Inv' /\ e \in Event /\ Filed' = Filed \ {e} /\ UNCHANGED clock
<1>1. cal' = CancelEvent(cal, e) /\ UNCHANGED clock
  BY DEF Cancel
<1>2. Sound(cal') /\ FiledIn(cal') = FiledIn(cal) \ {e} /\ cal'.cal_clock = clock
  <2>1. PICK c, d : c = cal /\ d = cal'
    OBVIOUS
  <2>2. Sound(c) /\ e \in FiledIn(c) /\ d = CancelEvent(c, e)
    BY <1>1, <2>1, FiledIs DEF Inv
  <2>3. Sound(d) /\ FiledIn(d) = FiledIn(c) \ {e} /\ d.cal_clock = c.cal_clock
    BY ONLY <2>2, CancelSound
  <2> QED
    BY <2>1, <2>3 DEF Inv
<1>3. Filed' = FiledIn(cal')
  BY DEF Filed, FiledIn, In
<1> QED
  BY <1>1, <1>2, <1>3, FiledIs, InvIs DEF Inv

\* A round of run dispatches the event that is due next and sets the clock.
LEMMA DispatchStep ==
    ASSUME Inv, Dispatch
    PROVE  /\ Inv'
           /\ \E e \in Event : /\ e \in Filed /\ \A f \in Filed \ {e} : Earlier(e, f)
                               /\ clock' = e.time /\ Filed' = Filed \ {e}
<1>1. PICK e : e = HeadEvent(cal)
  OBVIOUS
<1>2. PICK w \in Widths \cup {cal.width}, v \in Widths : cal' = Deque(cal, w, v)
  BY DEF Dispatch
<1>3. w \in Nat \ {0} /\ v \in Nat \ {0} /\ cal.qsize > 0 /\ clock' = e.time
  BY <1>1, CalendarAssumption, InvIs DEF Dispatch
<1>4. FiledIn(cal) # {}
  <2>1. cal.qsize = Cardinality(FiledIn(cal))
    BY InvIs DEF CountsOK
  <2>2. Cardinality({}) = 0
    BY FS_EmptySet
  <2> QED
    BY <1>3, <2>1, <2>2
<1>5. /\ e \in FiledIn(cal) /\ \A f \in FiledIn(cal) \ {e} : Earlier(e, f)
      /\ Sound(cal') /\ FiledIn(cal') = FiledIn(cal) \ {e} /\ cal'.cal_clock = e.time
  <2>1. PICK c, d : c = cal /\ d = cal'
    OBVIOUS
  <2>2. /\ Sound(c) /\ FiledIn(c) # {} /\ d = Deque(c, w, v) /\ e = HeadEvent(c)
        /\ \A f \in FiledIn(c) : c.cal_clock <= f.time
    BY <1>1, <1>2, <1>4, <2>1 DEF Inv
  <2>3. e \in FiledIn(c) /\ \A f \in FiledIn(c) \ {e} : Earlier(e, f)
    BY ONLY <2>2, HeadIsNext
  <2>4. Sound(d) /\ FiledIn(d) = FiledIn(c) \ {e} /\ d.cal_clock = e.time
    BY ONLY <1>3, <2>2, DequeSound
  <2> QED
    BY <2>1, <2>3, <2>4
<1>6. Filed' = FiledIn(cal')
  BY DEF Filed, FiledIn, In
<1>7. e \in Event /\ e.time \in Times
  BY <1>5, InvIs, FiledIs, EventIs
<1>8. \A f \in FiledIn(cal) \ {e} : e.time <= f.time
  BY <1>5, <1>7, InvIs, FiledIs, EarlierIsAnOrder
<1>9. Inv'
  BY <1>3, <1>5, <1>7, <1>8 DEF Inv
<1> QED
  BY <1>3, <1>5, <1>6, <1>7, <1>9, FiledIs

\* Every step keeps the invariant and is one of the event queue's.
LEMMA InvNext ==
    ASSUME Inv, [Next]_vars
    PROVE  Inv' /\ [Queue!Next]_(Queue!queueVars)
<1>1. CASE UNCHANGED vars
  <2>1. clock' = clock /\ cal' = cal
    BY <1>1 DEF vars
  <2>2. Filed' = Filed
    BY <2>1 DEF Filed
  <2> QED
    BY <2>1, <2>2 DEF Inv, Queue!queueVars
<1>2. CASE Next
  <2>0. Queue!Event = Event
    BY DEF Queue!Event, Event
  <2>1. ASSUME NEW t \in Times, Schedule(t)
        PROVE  Inv' /\ Queue!Next
    <3>1. Inv'
      BY <2>1, ScheduleStep
    <3>2. PICK e \in Event : /\ clock <= e.time
                             /\ \A f \in Filed : f.time = e.time => Earlier(f, e)
                             /\ Filed' = Filed \cup {e} /\ UNCHANGED clock
      BY <2>1, ScheduleStep
    <3>3. Queue!Schedule(e)
      BY <3>2 DEF Queue!Schedule, Queue!Before, Earlier
    <3> QED
      BY <2>0, <3>1, <3>3 DEF Queue!Next
  <2>2. ASSUME NEW e \in Filed, Cancel(e)
        PROVE  Inv' /\ Queue!Next
    <3>1. Inv' /\ e \in Event /\ Filed' = Filed \ {e} /\ UNCHANGED clock
      BY <2>2, CancelStep
    <3>2. Queue!Cancel(e)
      BY <3>1 DEF Queue!Cancel
    <3> QED
      BY <2>0, <3>1, <3>2 DEF Queue!Next
  <2>3. ASSUME Dispatch
        PROVE  Inv' /\ Queue!Next
    <3>1. Inv'
      BY <2>3, DispatchStep
    <3>2. PICK e \in Event : /\ e \in Filed /\ \A f \in Filed \ {e} : Earlier(e, f)
                             /\ clock' = e.time /\ Filed' = Filed \ {e}
      BY <2>3, DispatchStep
    <3>3. Queue!Dispatch(e)
      BY <3>2 DEF Queue!Dispatch, Queue!Before, Earlier
    <3> QED
      BY <2>0, <3>1, <3>3 DEF Queue!Next
  <2> QED
    BY <1>2, <2>1, <2>2, <2>3 DEF Next
<1> QED
  BY <1>1, <1>2

\* The invariant implies the invariants that the runs check.
LEMMA InvImplies ==
    ASSUME Inv
    PROVE  TypeOK /\ CountsAreDistinctTimes /\ NeverBackwards
<1> DEFINE n == cal.nbuckets
<1>1. /\ n \in Nat \ {0} /\ n >= 4 /\ cal \in Calendar(n) /\ BucketsOK(cal) /\ CountsOK(cal)
      /\ Filed = FiledIn(cal)
  BY InvIs, FiledIs
<1>2. /\ cal.width \in Nat \ {0} /\ cal.lastbucket \in 0 .. n - 1 /\ cal.cal_clock \in Times
      /\ DOMAIN cal.buckets = 0 .. n - 1
      /\ \A i \in 0 .. n - 1 : cal.buckets[i].list \in Seq(Event)
  BY <1>1, CalendarIs
<1>3. TypeOK
  BY <1>1, <1>2 DEF TypeOK, Inv
<1>4. CountsAreDistinctTimes
  <2>1. \A l : {l[k].time : k \in DOMAIN l} = TimesOf(In(l))
    BY DEF TimesOf, In
  <2>2. \A i \in 0 .. n - 1 :
           cal.buckets[i].count = Cardinality(TimesOf(In(cal.buckets[i].list)))
    BY <1>1 DEF BucketsOK
  <2>3. cal.stat_qsize = Cardinality({e.time : e \in Filed}) /\ cal.qsize = Cardinality(Filed)
    BY <1>1 DEF CountsOK, TimesOf
  <2> QED
    BY <2>1, <2>2, <2>3 DEF CountsAreDistinctTimes
<1>5. NeverBackwards
  BY <1>1 DEF NeverBackwards, Queue!NeverBackwards, Inv
<1> QED
  BY <1>3, <1>4, <1>5

\* The invariant holds from the first state on.
LEMMA InvHolds == Spec => []Inv
<1>1. Init => Inv
  BY InvInit
<1>2. Inv /\ [Next]_vars => Inv'
  BY InvNext
<1> QED
  BY <1>1, <1>2, PTL DEF Spec

\* The fields of the calendar keep their types: it never has fewer than four
\* buckets, and lastbucket_ is always one of them.
THEOREM CalendarTypes == Spec => []TypeOK
<1>1. Inv => TypeOK
  BY InvImplies
<1> QED
  BY <1>1, InvHolds, PTL

\* The counts that decide when to resize stay those of the events.
THEOREM CalendarCounts == Spec => []CountsAreDistinctTimes
<1>1. Inv => CountsAreDistinctTimes
  BY InvImplies
<1> QED
  BY <1>1, InvHolds, PTL

\* No event in the calendar ever lies in the past.
THEOREM CalendarForwards == Spec => []NeverBackwards
<1>1. Inv => NeverBackwards
  BY InvImplies
<1> QED
  BY <1>1, InvHolds, PTL

\* The calendar queue implements the event queue: whatever resizes happen,
\* deque returns the events by time and, in one time, as they were scheduled.
THEOREM CalendarIsQueue == Spec => QueueSpec
<1>1. Init => Queue!Init
  BY InvInit DEF Queue!Init, Init
<1>2. Inv /\ [Next]_vars => [Queue!Next]_(Queue!queueVars)
  BY InvNext
<1> QED
  BY <1>1, <1>2, InvHolds, PTL DEF Spec, QueueSpec, Queue!Spec
=============================================================================
