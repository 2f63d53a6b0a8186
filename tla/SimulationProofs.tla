--------------------------- MODULE SimulationProofs ---------------------------
(***************************************************************************)
(* The simulations of a program, however many it builds and of whatever    *)
(* sizes.  Their addresses are the numbers that genPacket draws from and   *)
(* that the duplicate filter has room for.  Every batch counts what is     *)
(* received in its window, each is written once, and the report is a       *)
(* number when it should be, for any number of batches, any lengths, and   *)
(* any number of runs.                                                     *)
(***************************************************************************)
EXTENDS SimulationRun, TLAPS, FiniteSetTheorems, SequenceTheorems

-----------------------------------------------------------------------------
(* The topology *)

\* The phases in which a simulation is complete.
Used == {"ready", "starting", "running", "returned"}

\* The classes of which every node has one object.
PerNode == Classes \ {"Channel"}

\* Between two simulations every counter is where the program started it;
\* while one exists its channel has the index that addInterface looks for, and
\* every other counter says how many nodes there are.
CountersMatch ==
    /\ \A c \in PerNode : index[c] = Len(nodes)
    /\ index["Channel"] = IF phase = "none" THEN 1 ELSE 2
    /\ phase = "none" => nodes = <<>>
    /\ phase # "none" => channel = 1

\* Every node has its interface, and until the first is deleted its address
\* is its position.
NodesAreNumbered ==
    /\ \A i \in DOMAIN nodes : nodes[i].interface # -1
    /\ phase \in Used \cup {"building"} =>
          /\ interfacenum = Len(nodes)
          /\ \A i \in DOMAIN nodes : nodes[i].mac = i - 1
    /\ phase = "building" => Len(nodes) < nodenum
    /\ phase \in Used => Len(nodes) = nodenum

\* The inductive invariant of the topology.
Inv == TopologyTypeOK /\ CountersMatch /\ NodesAreNumbered

\* The first state.
LEMMA InvInit == Init => Inv
  BY DEF Init, TopologyInit, Inv, TopologyTypeOK, CountersMatch, NodesAreNumbered,
         Classes, PerNode, Phases, Used, NodeRecord

\* A new simulation finds the counters as the program started them.
LEMMA InvNewSimulator ==
    ASSUME NEW n \in NodeCounts, Inv, NewSimulator(n)
    PROVE  Inv'
<1>1. n \in Nat \ {0}
  BY TopologyAssumption
<1>2. phase = "none" /\ nodes = <<>> /\ index["Channel"] = 1
  BY DEF NewSimulator, Inv, CountersMatch
<1>3. phase' = "building" /\ nodes' = <<>> /\ channel' = 1 /\ interfacenum' = 0
      /\ nodenum' = n /\ built' = built + 1
  BY <1>2 DEF NewSimulator
<1>4. index' \in [Classes -> Nat] /\ index'["Channel"] = 2
      /\ \A c \in PerNode : index'[c] = index[c]
  BY <1>2 DEF NewSimulator, Inv, TopologyTypeOK, Classes, PerNode
<1>5. TopologyTypeOK'
  BY <1>1, <1>3, <1>4 DEF Inv, TopologyTypeOK, Phases
<1>6. CountersMatch'
  BY <1>2, <1>3, <1>4 DEF Inv, CountersMatch
<1>7. NodesAreNumbered'
  BY <1>1, <1>3 DEF NodesAreNumbered, Used
<1> QED
  BY <1>5, <1>6, <1>7 DEF Inv

\* A new node takes the next number of every class.
LEMMA InvNewNode == Inv /\ NewNode => Inv'
<1> SUFFICES ASSUME Inv, NewNode PROVE Inv'
  OBVIOUS
<1>1. phase = "building" /\ channel = 1 /\ index["Channel"] = 2
      /\ nodes \in Seq(NodeRecord) /\ Len(nodes) < nodenum /\ interfacenum = Len(nodes)
  BY DEF NewNode, Inv, CountersMatch, NodesAreNumbered, TopologyTypeOK
<1>2. Interface = {"Interface", "Mac", "Traffic"}
  BY <1>1 DEF Interface
<1> DEFINE new == [ node |-> Len(nodes), interface |-> Len(nodes),
                    mac |-> Len(nodes), traffic |-> Len(nodes) ]
<1>3. \A c \in PerNode : index[c] = Len(nodes)
  BY DEF Inv, CountersMatch
<1>4. nodes' = Append(nodes, new)
  BY <1>2, <1>3 DEF NewNode, PerNode, Classes
<1>5. index' \in [Classes -> Nat] /\ index'["Channel"] = 2
      /\ \A c \in PerNode : index'[c] = Len(nodes) + 1
  BY <1>1, <1>2, <1>3 DEF NewNode, Inv, TopologyTypeOK, PerNode, Classes
<1>6. interfacenum' = Len(nodes) + 1 /\ nodenum' = nodenum /\ channel' = 1 /\ built' = built
  BY <1>1, <1>2 DEF NewNode
<1>7. phase' = IF Len(nodes') = nodenum THEN "ready" ELSE "building"
  BY DEF NewNode
<1>8. new \in NodeRecord
  BY <1>1 DEF NodeRecord
<1>9. /\ nodes' \in Seq(NodeRecord) /\ Len(nodes') = Len(nodes) + 1
      /\ \A i \in DOMAIN nodes' : \/ i = Len(nodes) + 1 /\ nodes'[i] = new
                                  \/ i \in DOMAIN nodes /\ nodes'[i] = nodes[i]
  BY <1>1, <1>4, <1>8
<1> HIDE DEF new
<1>10. new.interface # -1 /\ new.mac = Len(nodes)
  BY <1>1 DEF new
<1>11. TopologyTypeOK'
  BY <1>1, <1>5, <1>6, <1>7, <1>9 DEF Inv, TopologyTypeOK, Phases
<1>12. CountersMatch'
  BY <1>5, <1>6, <1>7, <1>9 DEF CountersMatch
<1>13. \A i \in DOMAIN nodes' : nodes'[i].interface # -1 /\ nodes'[i].mac = i - 1
  BY <1>1, <1>9, <1>10 DEF Inv, NodesAreNumbered
<1>14. NodesAreNumbered'
  <2>1. Len(nodes) \in Nat /\ nodenum \in Nat
    BY <1>1 DEF Inv, TopologyTypeOK
  <2> QED
    BY <1>1, <1>6, <1>7, <1>9, <1>13, <2>1 DEF NodesAreNumbered, Used
<1> QED
  BY <1>11, <1>12, <1>14 DEF Inv

\* A deleted node gives back one number of every class.
LEMMA InvDeleteNode == Inv /\ DeleteNode => Inv'
<1> SUFFICES ASSUME Inv, DeleteNode PROVE Inv'
  OBVIOUS
<1>1. phase = "deleting" /\ nodes # <<>> /\ nodes \in Seq(NodeRecord)
      /\ nodes' = Tail(nodes) /\ phase' = "deleting" /\ channel' = channel
  BY DEF DeleteNode, Inv, TopologyTypeOK
<1>2. Head(nodes) = nodes[1] /\ 1 \in DOMAIN nodes /\ Len(nodes) \in Nat \ {0}
  BY <1>1
<1>3. Deleted(Head(nodes)) = PerNode
  BY <1>2 DEF Inv, NodesAreNumbered, Deleted, PerNode, Classes
<1>4. index' \in [Classes -> Nat] /\ index'["Channel"] = index["Channel"]
      /\ \A c \in PerNode : index'[c] = Len(nodes) - 1
  <2>1. index \in [Classes -> Nat] /\ \A c \in PerNode : index[c] = Len(nodes)
    BY DEF Inv, CountersMatch, TopologyTypeOK
  <2>2. index' = [c \in Classes |-> index[c] - (IF c \in PerNode THEN 1 ELSE 0)]
    BY <1>3 DEF DeleteNode
  <2> QED
    BY <1>2, <2>1, <2>2 DEF PerNode, Classes
<1>5. nodes' \in Seq(NodeRecord) /\ Len(nodes') = Len(nodes) - 1
      /\ \A i \in DOMAIN nodes' : i + 1 \in DOMAIN nodes /\ nodes'[i] = nodes[i + 1]
  BY <1>1, <1>2
<1>6. TopologyTypeOK'
  BY <1>1, <1>4, <1>5 DEF DeleteNode, Inv, TopologyTypeOK
<1>7. CountersMatch'
  BY <1>1, <1>4, <1>5 DEF Inv, CountersMatch
<1>8. NodesAreNumbered'
  BY <1>1, <1>5 DEF Inv, NodesAreNumbered, Used
<1> QED
  BY <1>6, <1>7, <1>8 DEF Inv

\* With the channel the counters are back where they started.
LEMMA InvDeleteChannel == Inv /\ DeleteChannel => Inv'
<1> SUFFICES ASSUME Inv, DeleteChannel PROVE Inv'
  OBVIOUS
<1>1. phase = "deleting" /\ phase' = "none" /\ nodes = <<>> /\ nodes' = <<>> /\ channel' = 0
  BY DEF DeleteChannel
<1>2. index' \in [Classes -> Nat] /\ index'["Channel"] = 1
      /\ \A c \in PerNode : index'[c] = index[c]
  BY <1>1 DEF DeleteChannel, Inv, TopologyTypeOK, CountersMatch, PerNode, Classes
<1> QED
  BY <1>1, <1>2 DEF DeleteChannel, Inv, TopologyTypeOK, CountersMatch, NodesAreNumbered,
                    Phases, Used

\* The other steps only move the simulation from one phase of its use to the
\* next, or to its end.
LEMMA InvUse ==
    ASSUME Inv, phase' = phase \/ (phase \in Used /\ phase' \in Used \cup {"deleting"}),
           UNCHANGED <<index, nodenum, interfacenum, channel, nodes, built>>
    PROVE  Inv'
  BY DEF Inv, TopologyTypeOK, CountersMatch, NodesAreNumbered, Phases, Used

\* Every step keeps the invariant of the topology.
LEMMA InvNext == Inv /\ [Next]_vars => Inv'
<1> SUFFICES ASSUME Inv, [Next]_vars PROVE Inv'
  OBVIOUS
<1>1. CASE UNCHANGED topology
  BY <1>1, InvUse DEF topology
<1>2. ASSUME NEW n \in NodeCounts, NEW b \in BatchCounts, Construct(n, b)
      PROVE  Inv'
  BY <1>2, InvNewSimulator DEF Construct
<1>3. CASE Build
  BY <1>3, InvNewNode DEF Build
<1>4. CASE Run \/ StartEvents \/ Return \/ Delete
  BY <1>4, InvUse DEF Run, StartEvents, Return, Delete, Used
<1>5. CASE StartSource \/ Redraw \/ Draw \/ Exit
  BY <1>5, <1>1 DEF StartSource, Redraw, Draw, Exit, vars
<1>6. CASE StartStatistic \/ StopStatistic \/ StopSimulation \/ EndService
  BY <1>6, <1>1 DEF StartStatistic, StopStatistic, StopSimulation, EndService, Dispatched
<1>7. CASE TakeDown
  BY <1>7, InvDeleteNode, InvDeleteChannel DEF TakeDown
<1> QED
  BY <1>1, <1>2, <1>3, <1>4, <1>5, <1>6, <1>7 DEF Next, vars

\* A position is its address and one.
LEMMA InvImplies == Inv => EveryAddressIsAStation
<1> SUFFICES ASSUME Inv, phase \in Used
             PROVE  /\ Len(nodes) = nodenum
                    /\ { Address(i) : i \in DOMAIN nodes } = 0 .. interfacenum - 1
                    /\ \A i, j \in DOMAIN nodes : Address(i) = Address(j) => i = j
                    /\ \A i \in DOMAIN nodes : Address(i) \in 0 .. nodenum - 1
  BY DEF EveryAddressIsAStation, Used
<1>1. Len(nodes) = nodenum /\ interfacenum = Len(nodes)
      /\ \A i \in DOMAIN nodes : Address(i) = i - 1
  BY DEF Inv, NodesAreNumbered, Address
<1>2. DOMAIN nodes = 1 .. Len(nodes) /\ Len(nodes) \in Nat
  BY DEF Inv, TopologyTypeOK
<1>3. \A i \in DOMAIN nodes : Address(i) \in 0 .. nodenum - 1
  BY <1>1, <1>2
<1>4. ASSUME NEW a \in 0 .. interfacenum - 1
      PROVE  a + 1 \in DOMAIN nodes /\ Address(a + 1) = a
  BY <1>1, <1>2, <1>4
<1>5. { Address(i) : i \in DOMAIN nodes } = 0 .. interfacenum - 1
  BY <1>1, <1>3, <1>4
<1>6. \A i, j \in DOMAIN nodes : Address(i) = Address(j) => i = j
  BY <1>1, <1>2
<1> QED
  BY <1>1, <1>3, <1>5, <1>6

\* However many simulations a program builds and takes down, and of whatever
\* sizes, from a simulation's constructor to its destructor the addresses are
\* one for each node, those that Traffic::genPacket draws from, and below the
\* size of the duplicate filter (mac-802_11.cc:523).
THEOREM Addresses == Spec => []EveryAddressIsAStation
<1> QED
  BY InvInit, InvNext, InvImplies, PTL DEF Spec

-----------------------------------------------------------------------------
(* Natural numbers *)

\* Every nonempty set of natural numbers has a least member: what the
\* inductions below rest on.
LEMMA Least ==
    ASSUME NEW S \in SUBSET Nat, S # {}
    PROVE  \E k \in S : \A n \in S : k <= n
<1>1. PICK k \in S : \A n \in S : ~ (<<n, k>> \in OpToRel(<, Nat))
  BY WFMin, NatLessThanWellFounded
<1>2. \A n \in S : ~ (n < k)
  BY <1>1 DEF OpToRel
<1> QED
  BY <1>2

\* A product with a natural number grows with the other factor.
LEMMA Products ==
    ASSUME NEW i \in Nat, NEW j \in Nat, NEW a \in Nat, i <= j
    PROVE  i * a \in Nat /\ i * a <= j * a
  OBVIOUS

-----------------------------------------------------------------------------
(* Sums *)

\* The numbered items of the places in s: f[i] of them at place i.
Items(f, s) == { x \in s \X Nat : 1 <= x[2] /\ x[2] <= f[x[1]] }

\* The items of one place.
LEMMA ItemsOfPlace ==
    ASSUME NEW D, NEW f \in [D -> Nat], NEW i \in D
    PROVE  IsFiniteSet(Items(f, {i})) /\ Cardinality(Items(f, {i})) = f[i]
<1>1. f[i] \in Nat /\ 1 \in Int
  OBVIOUS
<1>2. IsFiniteSet(1 .. f[i]) /\ Cardinality(1 .. f[i]) = f[i]
  BY <1>1, FS_Interval
<1>3. IsFiniteSet({i}) /\ Cardinality({i}) = 1
  BY FS_Singleton
<1>4. IsFiniteSet({i} \X (1 .. f[i])) /\ Cardinality({i} \X (1 .. f[i])) = 1 * f[i]
  BY <1>2, <1>3, FS_Product
<1>5. Items(f, {i}) = {i} \X (1 .. f[i])
  BY <1>1 DEF Items
<1>6. 1 * f[i] = f[i]
  BY <1>1
<1> HIDE DEF Items
<1> QED
  BY <1>4, <1>5, <1>6, Zenon

\* The items of one place more.
LEMMA ItemsSplit ==
    ASSUME NEW D, NEW f \in [D -> Nat], NEW s \in SUBSET D, NEW i \in s,
           IsFiniteSet(Items(f, s \ {i}))
    PROVE  /\ IsFiniteSet(Items(f, s))
           /\ Cardinality(Items(f, s)) = f[i] + Cardinality(Items(f, s \ {i}))
<1> DEFINE a == Items(f, s \ {i})
           b == Items(f, {i})
<1>1. IsFiniteSet(b) /\ Cardinality(b) = f[i] /\ f[i] \in Nat
  BY ItemsOfPlace
<1>2. Items(f, s) = a \cup b /\ a \cap b = {}
  BY DEF Items
<1>3. Cardinality({}) = 0
  BY FS_EmptySet
<1> HIDE DEF a, b
<1>4. IsFiniteSet(a) /\ Cardinality(a) \in Nat
  BY FS_CardinalityType DEF a
<1>5. /\ IsFiniteSet(a \cup b)
      /\ Cardinality(a \cup b) = Cardinality(a) + Cardinality(b) - Cardinality(a \cap b)
  BY <1>1, <1>4, FS_Union
<1>6. Cardinality(a \cup b) = f[i] + Cardinality(a)
  <2>1. Cardinality(a \cap b) = 0
    BY <1>2, <1>3, Zenon
  <2>2. \A x, y, z : x \in Nat /\ y \in Nat /\ z = 0 => x + y - z = y + x
    OBVIOUS
  <2> QED
    BY <1>1, <1>4, <1>5, <2>1, <2>2, Zenon
<1> QED
  BY <1>2, <1>5, <1>6, Zenon DEF a

\* No place has no items.
LEMMA ItemsOfNone == ASSUME NEW f PROVE Items(f, {}) = {}
  BY DEF Items

\* One place less is one less in number.
LEMMA OneLess ==
    ASSUME NEW s, IsFiniteSet(s), NEW i \in s
    PROVE  /\ IsFiniteSet(s \ {i}) /\ Cardinality(s) \in Nat /\ Cardinality(s \ {i}) \in Nat
           /\ Cardinality(s \ {i}) < Cardinality(s)
<1>1. IsFiniteSet(s \ {i}) /\ Cardinality(s \ {i}) = Cardinality(s) - 1
  BY FS_RemoveElement
<1>2. Cardinality(s) \in Nat /\ Cardinality(s \ {i}) \in Nat
  BY <1>1, FS_CardinalityType
<1> QED
  BY <1>1, <1>2

\* The items of finitely many places are finitely many.
LEMMA ItemsFinite ==
    ASSUME NEW D, IsFiniteSet(D), NEW f \in [D -> Nat]
    PROVE  \A s \in SUBSET D : IsFiniteSet(s) /\ IsFiniteSet(Items(f, s))
<1>1. \A s \in SUBSET D : IsFiniteSet(s) /\ Cardinality(s) \in Nat
  BY FS_Subset, FS_CardinalityType
<1> DEFINE Wrong == {s \in SUBSET D : ~ IsFiniteSet(Items(f, s))}
           Sizes == {n \in Nat : \E s \in Wrong : Cardinality(s) = n}
<1>2. Wrong = {}
  <2>1. SUFFICES ASSUME Wrong # {} PROVE FALSE
    OBVIOUS
  <2>2. Sizes \in SUBSET Nat /\ Sizes # {}
    BY <1>1, <2>1
  <2>3. PICK n \in Sizes : \A m \in Sizes : n <= m
    <3> HIDE DEF Sizes
    <3> QED
      BY <2>2, Least
  <2>4. PICK s \in Wrong : Cardinality(s) = n
    OBVIOUS
  <2>5. s # {}
    BY <2>4, ItemsOfNone, FS_EmptySet
  <2>6. PICK i \in s : TRUE
    BY <2>5
  <2>7. s \ {i} \in SUBSET D /\ Cardinality(s \ {i}) < n /\ Cardinality(s \ {i}) \in Nat
    BY <1>1, <2>4, OneLess
  <2>8. s \ {i} \notin Wrong
    BY <2>3, <2>7
  <2>9. IsFiniteSet(Items(f, s \ {i}))
    BY <2>7, <2>8
  <2> QED
    BY <2>4, <2>9, ItemsSplit
<1> QED
  BY <1>1, <1>2

\* A sum over finitely many places counts the items: whatever place the fold
\* takes next, it adds the items of that place.
LEMMA SumCountsItems ==
    ASSUME NEW D, IsFiniteSet(D), NEW f \in [D -> Nat]
    PROVE  FoldFunction(+, 0, f) = Cardinality(Items(f, D))
<1> DEFINE pick(s) == CHOOSE x \in s : TRUE
           body(g) == [s \in SUBSET D |-> IF s = {} THEN 0 ELSE f[pick(s)] + g[s \ {pick(s)}]]
           iter == CHOOSE g : g = body(g)
           count == [s \in SUBSET D |-> Cardinality(Items(f, s))]
<1>1. \A s \in SUBSET D : IsFiniteSet(s) /\ Cardinality(s) \in Nat /\ IsFiniteSet(Items(f, s))
  BY ItemsFinite, FS_CardinalityType
<1>2. \A s \in SUBSET D : s # {} => pick(s) \in s
  OBVIOUS
<1>3. ASSUME NEW s \in SUBSET D
      PROVE  Cardinality(Items(f, s)) =
                IF s = {} THEN 0 ELSE f[pick(s)] + Cardinality(Items(f, s \ {pick(s)}))
  <2>1. CASE s = {}
    BY <2>1, ItemsOfNone, FS_EmptySet
  <2>2. CASE s # {}
    <3> DEFINE i == pick(s)
    <3>1. i \in s
      BY <1>2, <2>2
    <3> HIDE DEF i
    <3>2. s \ {i} \in SUBSET D
      OBVIOUS
    <3>3. IsFiniteSet(Items(f, s \ {i}))
      BY <1>1, <3>2
    <3>4. Cardinality(Items(f, s)) = f[i] + Cardinality(Items(f, s \ {i}))
      BY <3>1, <3>3, ItemsSplit
    <3> QED
      BY <2>2, <3>4 DEF i
  <2> QED
    BY <2>1, <2>2
<1> HIDE DEF pick
<1>4. count = body(count)
  <2>1. \A s \in SUBSET D : s \ {pick(s)} \in SUBSET D
    OBVIOUS
  <2> QED
    BY <1>3, <2>1
<1>5. iter = body(iter)
  <2> HIDE DEF body
  <2> QED
    BY <1>4
<1>6. FoldFunction(+, 0, f) = iter[D]
  <2>1. DOMAIN f = D
    OBVIOUS
  <2> QED
    BY <2>1, Zenon DEF FoldFunction, FoldFunctionOnSet, MapThenFoldSet, pick
<1> HIDE DEF iter
<1>7. \A s \in SUBSET D : iter[s] = IF s = {} THEN 0 ELSE f[pick(s)] + iter[s \ {pick(s)}]
  BY <1>5
<1> DEFINE Wrong == {s \in SUBSET D : iter[s] # Cardinality(Items(f, s))}
           Sizes == {n \in Nat : \E s \in Wrong : Cardinality(s) = n}
<1>8. Wrong = {}
  <2>1. SUFFICES ASSUME Wrong # {} PROVE FALSE
    OBVIOUS
  <2>2. Sizes \in SUBSET Nat /\ Sizes # {}
    BY <1>1, <2>1
  <2>3. PICK n \in Sizes : \A m \in Sizes : n <= m
    <3> HIDE DEF Sizes
    <3> QED
      BY <2>2, Least
  <2>4. PICK s \in Wrong : Cardinality(s) = n
    OBVIOUS
  <2>5. s # {}
    BY <1>3, <1>7, <2>4
  <2> DEFINE t == s \ {pick(s)}
  <2>6. t \in SUBSET D /\ Cardinality(t) < n /\ Cardinality(t) \in Nat
    BY <1>1, <1>2, <2>4, <2>5, OneLess
  <2>7. t \notin Wrong
    <3> HIDE DEF t
    <3> QED
      BY <2>3, <2>6
  <2>8. iter[t] = Cardinality(Items(f, t))
    BY <2>6, <2>7
  <2>9. iter[s] = f[pick(s)] + iter[t]
    BY <1>7, <2>4, <2>5
  <2>10. Cardinality(Items(f, s)) = f[pick(s)] + Cardinality(Items(f, t))
    BY <1>3, <2>4, <2>5
  <2> QED
    BY <2>4, <2>8, <2>9, <2>10
<1> QED
  BY <1>6, <1>8

\* Zeros add up to zero.
LEMMA SumOfZeros ==
    ASSUME NEW D, IsFiniteSet(D), NEW f \in [D -> Nat], \A i \in D : f[i] = 0
    PROVE  FoldFunction(+, 0, f) = 0
<1>1. Items(f, D) = {}
  BY DEF Items
<1> QED
  BY <1>1, SumCountsItems, FS_EmptySet, Zenon

\* One more at one place is one more in the sum.
LEMMA SumPlusOne ==
    ASSUME NEW D, IsFiniteSet(D), NEW f \in [D -> Nat], NEW a \in D, NEW g,
           g = [f EXCEPT ![a] = @ + 1]
    PROVE  FoldFunction(+, 0, g) = FoldFunction(+, 0, f) + 1
<1>1. f[a] + 1 \in Nat /\ g \in [D -> Nat]
  OBVIOUS
<1> DEFINE new == <<a, f[a] + 1>>
           old == Items(f, D)
<1>2. Items(g, D) = old \cup {new}
  BY <1>1 DEF Items
<1>3. new \notin old
  BY DEF Items
<1>4. IsFiniteSet(old)
  BY ItemsFinite
<1> HIDE DEF new, old
<1>5. Cardinality(old \cup {new}) = Cardinality(old) + 1
  BY <1>3, <1>4, FS_AddElement
<1>6. FoldFunction(+, 0, g) = Cardinality(old \cup {new})
  BY <1>1, <1>2, SumCountsItems, Zenon
<1>7. FoldFunction(+, 0, f) = Cardinality(old)
  BY SumCountsItems, Zenon DEF old
<1> QED
  BY <1>5, <1>6, <1>7, Zenon

-----------------------------------------------------------------------------
(* The windows and the at-events *)

\* The windows follow each other, each behind its warm-up.
LEMMA Windows ==
    /\ Closes(0) = 0
    /\ \A i \in Nat : /\ Closes(i) \in Nat
                      /\ Opens(i + 1) = Closes(i) + WarmUp
                      /\ Closes(i + 1) = Opens(i + 1) + Time
    /\ \A i, j \in Nat : i <= j => Closes(i) <= Closes(j)
<1>1. WarmUp \in Nat /\ Time \in Nat
  BY RunAssumption
<1>2. \A i \in Nat : Closes(i) = i * (WarmUp + Time)
  BY <1>1 DEF Opens, Closes
<1>3. \A i, j \in Nat : i <= j => Closes(i) \in Nat /\ Closes(i) <= Closes(j)
  <2>1. ASSUME NEW i \in Nat, NEW j \in Nat, i <= j
        PROVE  i * (WarmUp + Time) \in Nat /\ i * (WarmUp + Time) <= j * (WarmUp + Time)
    BY <1>1, <2>1, Products
  <2> QED
    BY <1>2, <2>1
<1>4. \A i \in Nat : Opens(i + 1) = Closes(i) + WarmUp
  BY <1>1 DEF Opens, Closes
<1> QED
  BY <1>1, <1>3, <1>4 DEF Opens, Closes

\* What the loop adds up in duration is the end of the last window.
LEMMA DurationIsClose == \A i \in Nat : Duration[i] = Closes(i)
<1>1. \A i \in Nat : Closes(i) = IF i = 0 THEN 0 ELSE Closes(i - 1) + WarmUp + Time
  <2>1. ASSUME NEW i \in Nat, i # 0
        PROVE  Closes(i) = Closes(i - 1) + WarmUp + Time
    <3>1. i - 1 \in Nat /\ (i - 1) + 1 = i
      BY <2>1
    <3>2. Opens((i - 1) + 1) = Closes(i - 1) + WarmUp /\ Closes((i - 1) + 1) = Opens((i - 1) + 1) + Time
      BY <3>1, Windows
    <3> QED
      BY <3>1, <3>2
  <2> QED
    BY <2>1, Windows
<1> DEFINE body(D) == [i \in Nat |-> IF i = 0 THEN 0 ELSE D[i - 1] + WarmUp + Time]
           closes == [i \in Nat |-> Closes(i)]
<1>2. closes = body(closes)
  BY <1>1
<1>3. Duration = body(Duration)
  <2>1. Duration = CHOOSE D : D = body(D)
    BY DEF Duration
  <2> HIDE DEF body
  <2> QED
    BY <1>2, <2>1
<1>4. \A i \in Nat : Duration[i] = IF i = 0 THEN 0 ELSE Duration[i - 1] + WarmUp + Time
  BY <1>3
<1> DEFINE Wrong == {i \in Nat : Duration[i] # Closes(i)}
<1>5. Wrong = {}
  <2>1. SUFFICES ASSUME Wrong # {} PROVE FALSE
    OBVIOUS
  <2>2. PICK k \in Wrong : \A n \in Wrong : k <= n
    <3>1. Wrong \in SUBSET Nat
      OBVIOUS
    <3> HIDE DEF Wrong
    <3> QED
      BY <2>1, <3>1, Least
  <2>3. k # 0 => k - 1 \in Nat /\ k - 1 \notin Wrong
    BY <2>2
  <2> QED
    BY <1>1, <1>4, <2>2, <2>3
<1> QED
  BY <1>5

\* The k-th at-event of a run, and how many there are: two for every batch,
\* and stopSimulation behind them.
BatchEvent(k) ==
    IF k % 2 = 1 THEN AtEvent(Opens((k + 1) \div 2), "startStatistic")
    ELSE AtEvent(Closes(k \div 2), "stopStatistic")

\* The place of the last at-event.
Last(b) == 2 * b + 1

\* The at-event at a place.
Milestone(b, k) ==
    IF k = Last(b) THEN AtEvent(Closes(b) + CoolDown, "stopSimulation") ELSE BatchEvent(k)

\* What run schedules are these events in their order: the accumulated
\* duration gives the windows.
LEMMA AtEventsInOrder == \A i \in Nat : AtEvents[i] = [k \in 1 .. 2 * i |-> BatchEvent(k)]
<1> DEFINE upTo(i) == [k \in 1 .. 2 * i |-> BatchEvent(k)]
           round(i) == << AtEvent(Duration[i - 1] + WarmUp, "startStatistic"),
                          AtEvent(Duration[i], "stopStatistic") >>
           body(A) == [i \in Nat |-> IF i = 0 THEN <<>> ELSE A[i - 1] \o round(i)]
           all == [i \in Nat |-> upTo(i)]
<1>1. ASSUME NEW i \in Nat, i # 0
      PROVE  upTo(i) = upTo(i - 1) \o round(i)
  <2>1. i - 1 \in Nat /\ (i - 1) + 1 = i
    BY <1>1
  <2>2. Duration[i - 1] + WarmUp = Opens(i) /\ Duration[i] = Closes(i)
    <3>1. Opens((i - 1) + 1) = Closes(i - 1) + WarmUp
      BY <2>1, Windows
    <3> QED
      BY <2>1, <3>1, DurationIsClose
  <2>3. round(i) = << BatchEvent(2 * i - 1), BatchEvent(2 * i) >>
    <3>1. (2 * i - 1) % 2 = 1 /\ ((2 * i - 1) + 1) \div 2 = i
      BY <1>1
    <3>2. (2 * i) % 2 # 1 /\ (2 * i) \div 2 = i
      BY <1>1
    <3> QED
      BY <2>2, <3>1, <3>2 DEF BatchEvent
  <2> DEFINE one == BatchEvent(2 * i - 1)
             two == BatchEvent(2 * i)
  <2>4. /\ Len(upTo(i - 1)) = 2 * i - 2
        /\ DOMAIN upTo(i) = 1 .. 2 * i
        /\ \A k \in 1 .. 2 * i - 2 : upTo(i)[k] = upTo(i - 1)[k]
        /\ upTo(i)[2 * i - 1] = one /\ upTo(i)[2 * i] = two
    BY <2>1
  <2>5. upTo(i - 1) \in Seq({BatchEvent(k) : k \in 1 .. 2 * i}) /\ one \in {BatchEvent(k) : k \in 1 .. 2 * i}
        /\ two \in {BatchEvent(k) : k \in 1 .. 2 * i}
    <3>1. 2 * (i - 1) \in Nat /\ 1 .. 2 * (i - 1) \subseteq 1 .. 2 * i
          /\ 2 * i - 1 \in 1 .. 2 * i /\ 2 * i \in 1 .. 2 * i
      BY <1>1
    <3>2. \A E : (\A k \in 1 .. 2 * (i - 1) : BatchEvent(k) \in E)
                   => upTo(i - 1) \in [1 .. 2 * (i - 1) -> E]
      OBVIOUS
    <3>3. \A k \in 1 .. 2 * (i - 1) : BatchEvent(k) \in {BatchEvent(j) : j \in 1 .. 2 * i}
      BY <3>1
    <3>4. upTo(i - 1) \in [1 .. 2 * (i - 1) -> {BatchEvent(k) : k \in 1 .. 2 * i}]
      BY <3>2, <3>3
    <3>5. \A E, r : \A n \in Nat : r \in [1 .. n -> E] => r \in Seq(E)
      OBVIOUS
    <3>6. 2 * i - 1 \in 1 .. 2 * i /\ 2 * i \in 1 .. 2 * i
      BY <3>1
    <3> HIDE DEF upTo
    <3> QED
      BY <3>1, <3>4, <3>5, <3>6
  <2>6. \A k \in 1 .. 2 * i : k \in 1 .. 2 * i - 2 \/ k = 2 * i - 1 \/ k = 2 * i
    BY <1>1
  <2> DEFINE s == upTo(i - 1)
             t == upTo(i)
             E == {BatchEvent(k) : k \in 1 .. 2 * i}
  <2>7. t = [k \in 1 .. 2 * i |-> t[k]]
    OBVIOUS
  <2>8. s \in Seq(E) /\ one \in E /\ two \in E /\ Len(s) = 2 * i - 2
        /\ (\A k \in 1 .. 2 * i - 2 : t[k] = s[k])
        /\ t[2 * i - 1] = one /\ t[2 * i] = two
    BY <2>4, <2>5
  <2> HIDE DEF s, t, one, two, E
  <2>9. t = s \o << one, two >>
    <3>1. t \in Seq(E) /\ Len(t) = 2 * i
      <4>1. \A k \in 1 .. 2 * i : t[k] \in E
        BY <1>1, <2>6, <2>8
      <4> QED
        BY <1>1, <2>7, <4>1
    <3>2. << one, two >> \in Seq(E) /\ Len(<< one, two >>) = 2
      BY <2>8
    <3>3. s \o << one, two >> \in Seq(E) /\ Len(s \o << one, two >>) = 2 * i
      BY <1>1, <2>8, <3>2
    <3>4. \A k \in 1 .. Len(t) : t[k] = (s \o << one, two >>)[k]
      BY <1>1, <2>6, <2>8, <3>1
    <3> QED
      BY <3>1, <3>3, <3>4, SeqEqual
  <2> QED
    BY <2>3, <2>9 DEF s, t, one, two
<1>2. upTo(0) = <<>>
  OBVIOUS
<1> HIDE DEF upTo, round
<1>3. all = body(all)
  <2>1. ASSUME NEW i \in Nat
        PROVE  upTo(i) = IF i = 0 THEN <<>> ELSE all[i - 1] \o round(i)
    <3>1. CASE i = 0
      BY <1>2, <3>1
    <3>2. CASE i # 0
      <4>1. i - 1 \in Nat
        BY <3>2
      <4>2. all[i - 1] = upTo(i - 1)
        BY <4>1
      <4> QED
        BY <1>1, <3>2, <4>2
    <3> QED
      BY <3>1, <3>2
  <2> QED
    BY <2>1, Zenon
<1>4. AtEvents = body(AtEvents)
  <2>1. AtEvents = CHOOSE A : A = body(A)
    BY DEF AtEvents, round
  <2> HIDE DEF body
  <2> QED
    BY <1>3, <2>1
<1>5. \A i \in Nat : AtEvents[i] = IF i = 0 THEN <<>> ELSE AtEvents[i - 1] \o round(i)
  BY <1>4
<1> DEFINE Wrong == {i \in Nat : AtEvents[i] # upTo(i)}
<1>6. Wrong = {}
  <2>1. SUFFICES ASSUME Wrong # {} PROVE FALSE
    OBVIOUS
  <2>2. PICK k \in Wrong : \A n \in Wrong : k <= n
    <3>1. Wrong \in SUBSET Nat
      OBVIOUS
    <3> HIDE DEF Wrong
    <3> QED
      BY <2>1, <3>1, Least
  <2>3. k # 0 => k - 1 \in Nat /\ k - 1 \notin Wrong
    BY <2>2
  <2> QED
    BY <1>1, <1>2, <1>5, <2>2, <2>3
<1> QED
  BY <1>6 DEF upTo

-----------------------------------------------------------------------------
(* The at-events in time *)

\* Which at-event has which place: those of batch i the places 2i - 1 and 2i,
\* and stopSimulation the last one.
LEMMA Milestones ==
    ASSUME NEW b \in Nat
    PROVE  /\ \A i \in 1 .. b : /\ Milestone(b, 2 * i - 1) = AtEvent(Opens(i), "startStatistic")
                               /\ Milestone(b, 2 * i) = AtEvent(Closes(i), "stopStatistic")
           /\ Milestone(b, Last(b)) = AtEvent(Closes(b) + CoolDown, "stopSimulation")
           /\ \A k \in 1 .. Last(b) :
                 k = Last(b) \/ \E i \in 1 .. b : k = 2 * i - 1 \/ k = 2 * i
<1>1. ASSUME NEW i \in 1 .. b
      PROVE  /\ Milestone(b, 2 * i - 1) = AtEvent(Opens(i), "startStatistic")
             /\ Milestone(b, 2 * i) = AtEvent(Closes(i), "stopStatistic")
  <2>1. (2 * i - 1) % 2 = 1 /\ ((2 * i - 1) + 1) \div 2 = i /\ 2 * i - 1 # Last(b)
    BY <1>1 DEF Last
  <2>2. (2 * i) % 2 # 1 /\ (2 * i) \div 2 = i /\ 2 * i # Last(b)
    BY <1>1 DEF Last
  <2> QED
    BY <2>1, <2>2 DEF Milestone, BatchEvent
<1>2. ASSUME NEW k \in 1 .. Last(b), k # Last(b)
      PROVE  \E i \in 1 .. b : k = 2 * i - 1 \/ k = 2 * i
  <2>1. (k + 1) \div 2 \in 1 .. b
        /\ (k = 2 * ((k + 1) \div 2) - 1 \/ k = 2 * ((k + 1) \div 2))
    BY <1>2 DEF Last
  <2> QED
    BY <2>1
<1> QED
  BY <1>1, <1>2 DEF Milestone

\* The window of a batch in numbers.
LEMMA Window ==
    ASSUME NEW i \in Nat \ {0}
    PROVE  /\ Opens(i) \in Nat /\ Closes(i) \in Nat /\ Closes(i - 1) \in Nat
           /\ Opens(i) = Closes(i - 1) + WarmUp /\ Closes(i) = Opens(i) + Time
<1>1. i - 1 \in Nat /\ (i - 1) + 1 = i
  OBVIOUS
<1>2. Opens((i - 1) + 1) = Closes(i - 1) + WarmUp /\ Closes((i - 1) + 1) = Opens((i - 1) + 1) + Time
      /\ Closes(i - 1) \in Nat
  BY <1>1, Windows
<1> QED
  BY <1>1, <1>2, RunAssumption

\* No window overlaps another one.
LEMMA WindowsApart ==
    ASSUME NEW i \in Nat \ {0}, NEW j \in Nat \ {0}, i < j
    PROVE  Closes(i) < Opens(j)
<1>1. Closes(i) <= Closes(j - 1) /\ Opens(j) = Closes(j - 1) + WarmUp
      /\ Closes(i) \in Nat /\ Closes(j - 1) \in Nat
  <2>1. i \in Nat /\ j - 1 \in Nat /\ i <= j - 1
    OBVIOUS
  <2>2. Closes(i) <= Closes(j - 1) /\ Closes(i) \in Nat /\ Closes(j - 1) \in Nat
    BY <2>1, Windows
  <2>3. Opens(j) = Closes(j - 1) + WarmUp
    BY Window
  <2> QED
    BY <2>2, <2>3
<1> QED
  BY <1>1, RunAssumption

\* A later at-event is not earlier in time, and none is the end of a service.
LEMMA MilestonesInOrder ==
    ASSUME NEW b \in Nat, NEW k \in 1 .. Last(b)
    PROVE  /\ Milestone(b, k) \in [ time : Nat, what : {"startStatistic", "stopStatistic",
                                     "stopSimulation"}, node : {0}, dst : {0} ]
           /\ \A l \in 1 .. Last(b) : k <= l => Milestone(b, k).time <= Milestone(b, l).time
<1> DEFINE T(m) == Milestone(b, m).time
<1>1. ASSUME NEW i \in 1 .. b
      PROVE  /\ T(2 * i - 1) = Opens(i) /\ T(2 * i) = Closes(i)
             /\ Opens(i) \in Nat /\ Closes(i) \in Nat /\ Opens(i) <= Closes(i)
             /\ Closes(i) <= Closes(b)
  <2>1. i \in Nat \ {0} /\ i \in Nat /\ i <= b
    OBVIOUS
  <2>2. T(2 * i - 1) = Opens(i) /\ T(2 * i) = Closes(i)
    <3>1. Milestone(b, 2 * i - 1) = AtEvent(Opens(i), "startStatistic")
          /\ Milestone(b, 2 * i) = AtEvent(Closes(i), "stopStatistic")
      BY Milestones
    <3> QED
      BY <3>1 DEF AtEvent
  <2>3. Opens(i) \in Nat /\ Closes(i) \in Nat /\ Closes(i) = Opens(i) + Time
    BY <2>1, Window
  <2>4. Closes(i) <= Closes(b)
    BY <2>1, Windows
  <2> HIDE DEF T
  <2> QED
    BY <2>2, <2>3, <2>4, RunAssumption
<1>2. T(Last(b)) = Closes(b) + CoolDown /\ Closes(b) \in Nat /\ CoolDown \in Nat
  BY Milestones, Windows, RunAssumption DEF AtEvent
<1>3. \A i, j \in 1 .. b : i < j => Closes(i) <= Opens(j)
  <2>1. ASSUME NEW i \in 1 .. b, NEW j \in 1 .. b, i < j
        PROVE  Closes(i) <= Opens(j)
    <3>1. i \in Nat \ {0} /\ j \in Nat \ {0}
      OBVIOUS
    <3>2. Opens(j) \in Nat /\ Closes(i) \in Nat
      BY <3>1, Window
    <3> QED
      BY <2>1, <3>1, <3>2, WindowsApart
  <2> QED
    BY <2>1
<1>4. ASSUME NEW l \in 1 .. Last(b), k <= l
      PROVE  T(k) <= T(l)
  <2>1. CASE k = Last(b)
    <3>1. l = k
      BY <1>4, <2>1 DEF Last
    <3> QED
      BY <1>2, <2>1, <3>1
  <2>2. CASE k # Last(b) /\ l = Last(b)
    <3>1. PICK i \in 1 .. b : k = 2 * i - 1 \/ k = 2 * i
      BY <2>2, Milestones
    <3>2. T(2 * i - 1) = Opens(i) /\ T(2 * i) = Closes(i) /\ Opens(i) \in Nat
          /\ Closes(i) \in Nat /\ Opens(i) <= Closes(i) /\ Closes(i) <= Closes(b)
      BY <1>1
    <3> HIDE DEF T
    <3> QED
      BY <1>2, <2>2, <3>1, <3>2
  <2>3. CASE k # Last(b) /\ l # Last(b)
    <3>1. PICK i \in 1 .. b : k = 2 * i - 1 \/ k = 2 * i
      BY <2>3, Milestones
    <3>2. PICK j \in 1 .. b : l = 2 * j - 1 \/ l = 2 * j
      BY <2>3, Milestones
    <3>3. T(2 * i - 1) = Opens(i) /\ T(2 * i) = Closes(i) /\ T(2 * j - 1) = Opens(j)
          /\ T(2 * j) = Closes(j) /\ Opens(i) \in Nat /\ Closes(i) \in Nat
          /\ Opens(j) \in Nat /\ Closes(j) \in Nat /\ Opens(i) <= Closes(i)
          /\ Opens(j) <= Closes(j)
      BY <1>1
    <3>4. i < j => Closes(i) <= Opens(j)
      BY <1>3
    <3> HIDE DEF T
    <3>5. CASE i = j
      BY <1>4, <3>1, <3>2, <3>3, <3>5
    <3>6. CASE i # j
      <4>1. i < j
        BY <1>4, <3>1, <3>2, <3>6
      <4> QED
        BY <3>1, <3>2, <3>3, <3>4, <4>1
    <3> QED
      BY <3>5, <3>6
  <2> QED
    BY <2>1, <2>2, <2>3
<1>5. Milestone(b, k) \in [ time : Nat, what : {"startStatistic", "stopStatistic",
                            "stopSimulation"}, node : {0}, dst : {0} ]
  <2>1. CASE k = Last(b)
    BY <1>2, <2>1, Milestones DEF AtEvent
  <2>2. CASE k # Last(b)
    <3>1. PICK i \in 1 .. b : k = 2 * i - 1 \/ k = 2 * i
      BY <2>2, Milestones
    <3>2. Opens(i) \in Nat /\ Closes(i) \in Nat
      BY <1>1
    <3>3. Milestone(b, 2 * i - 1) = AtEvent(Opens(i), "startStatistic")
          /\ Milestone(b, 2 * i) = AtEvent(Closes(i), "stopStatistic")
      BY Milestones
    <3> HIDE DEF T
    <3>4. CASE k = 2 * i - 1
      BY <3>2, <3>3, <3>4 DEF AtEvent
    <3>5. CASE k = 2 * i
      BY <3>2, <3>3, <3>5 DEF AtEvent
    <3> QED
      BY <3>1, <3>4, <3>5
  <2> QED
    BY <2>1, <2>2
<1> QED
  BY <1>4, <1>5

\* No two at-events of a run are equal: they differ in kind or in their window.
LEMMA MilestonesDiffer ==
    ASSUME NEW b \in Nat, NEW k \in 1 .. Last(b), NEW l \in 1 .. Last(b), k < l
    PROVE  Milestone(b, k) # Milestone(b, l)
<1>1. k # Last(b)
  BY DEF Last
<1>2. PICK i \in 1 .. b : k = 2 * i - 1 \/ k = 2 * i
  BY <1>1, Milestones
<1>3. Milestone(b, 2 * i - 1) = AtEvent(Opens(i), "startStatistic")
      /\ Milestone(b, 2 * i) = AtEvent(Closes(i), "stopStatistic")
  BY Milestones
<1>4. CASE l = Last(b)
  <2>1. Milestone(b, l) = AtEvent(Closes(b) + CoolDown, "stopSimulation")
    BY <1>4, Milestones
  <2>2. \A x, y, w : w # "stopSimulation" => AtEvent(x, w) # AtEvent(y, "stopSimulation")
    BY DEF AtEvent
  <2> QED
    BY <1>2, <1>3, <2>1, <2>2
<1>5. CASE l # Last(b)
  <2>1. PICK j \in 1 .. b : l = 2 * j - 1 \/ l = 2 * j
    BY <1>5, Milestones
  <2>2. Milestone(b, 2 * j - 1) = AtEvent(Opens(j), "startStatistic")
        /\ Milestone(b, 2 * j) = AtEvent(Closes(j), "stopStatistic")
    BY Milestones
  <2>3. \A x, y : AtEvent(x, "startStatistic") # AtEvent(y, "stopStatistic")
    BY DEF AtEvent
  <2>4. \A x, y, w : AtEvent(x, w) = AtEvent(y, w) => x = y
    BY DEF AtEvent
  <2>5. ASSUME i < j PROVE Opens(i) # Opens(j) /\ Closes(i) # Closes(j)
    <3>1. i \in Nat \ {0} /\ j \in Nat \ {0}
      OBVIOUS
    <3>2. /\ Opens(i) \in Nat /\ Closes(i) \in Nat /\ Opens(j) \in Nat /\ Closes(j) \in Nat
          /\ Closes(i) = Opens(i) + Time /\ Closes(j) = Opens(j) + Time
      BY <3>1, Window
    <3>3. Closes(i) < Opens(j)
      BY <2>5, <3>1, WindowsApart
    <3> QED
      BY <3>2, <3>3, RunAssumption
  <2>6. (k = 2 * i - 1 /\ l = 2 * j - 1) \/ (k = 2 * i /\ l = 2 * j) => i < j
    OBVIOUS
  <2> QED
    BY <1>2, <1>3, <2>1, <2>2, <2>3, <2>4, <2>5, <2>6
<1> QED
  BY <1>4, <1>5

-----------------------------------------------------------------------------
(* The inductive invariant *)

\* What the event queue holds.
Events == [ time : Nat, what : {"startStatistic", "stopStatistic", "stopSimulation", "service"},
            node : Nat, dst : Nat ]

\* The end of a service between two of n nodes.
Services(n) == [ time : Nat, what : {"service"}, node : 1 .. n, dst : 0 .. n - 1 ]

\* The queue is in the order of dispatch, and an at-event, scheduled before
\* every service, comes first among the events of its time.
Sorted(q) ==
    \A j, k \in DOMAIN q : j < k =>
        /\ q[j].time <= q[k].time
        /\ q[j].what = "service" /\ q[k].what # "service" => q[j].time < q[k].time

\* Besides services, the queue holds the at-events of b batches behind the
\* first d, each once and in their order.
Ahead(b, d, n, q) ==
    /\ \A k \in DOMAIN q : q[k] \in Services(n) \/ \E m \in d + 1 .. Last(b) : q[k] = Milestone(b, m)
    /\ \A m \in d + 1 .. Last(b) : \E k \in DOMAIN q : q[k] = Milestone(b, m)
    /\ \A j, k \in DOMAIN q, l, m \in d + 1 .. Last(b) :
          q[j] = Milestone(b, l) /\ q[k] = Milestone(b, m) => (j < k <=> l < m)

\* What there is to dispatch.
QueueInv(d) ==
    /\ queue \in Seq(Events) /\ Sorted(queue) /\ Ahead(batch, d, nodenum, queue)
    /\ \A k \in DOMAIN queue : clock <= queue[k].time
    /\ d > 0 => Milestone(batch, d).time <= clock

\* What has been counted when d at-events have been dispatched: the batches
\* up to curbatch are in the books, those whose window is to come have
\* nothing, and in between the totals count what is heard.
CountsInv(d) ==
    /\ curbatch \in Nat /\ 2 * curbatch <= d /\ d <= 2 * curbatch + 1
    /\ throughput \in [1 .. batch -> Nat] /\ heard \in [1 .. batch -> Nat]
    /\ \A i \in 1 .. batch : throughput[i] = IF i <= curbatch THEN heard[i] ELSE 0
    /\ \A i \in 1 .. batch : d < 2 * i - 1 => heard[i] = 0
    /\ 2 * curbatch < d /\ d < Last(batch) => Total = heard[curbatch + 1]
    /\ delay \in Numeric /\ (delay = "number" <=> \A i \in 1 .. curbatch : heard[i] > 0)
    /\ report = IF d = Last(batch) THEN [delay |-> delay, interval |-> Quotient(batch - 1)]
                ELSE NoReport

\* d at-events have been dispatched.
Dispatches(d) ==
    /\ QueueInv(d) /\ CountsInv(d)
    /\ phase = "starting" => d = 0
    /\ phase = "returned" => queue = <<>>

\* A simulation that does not run has nothing to report.
NotRun ==
    /\ queue = <<>> /\ throughput = <<>> /\ heard = <<>> /\ curbatch = 0
    /\ delay = "number" /\ report = NoReport /\ started = 0 /\ drawing = 0

\* Between the call of run and the end of the simulation.
InRun == phase \in {"starting", "running", "returned"}

\* The nodes whose sources exist.
Sources == 1 .. (IF phase \in Used \cup {"building"} THEN nodenum ELSE 0)

\* The invariant: some number of at-events has been dispatched, or there is no
\* run.
RunInv ==
    /\ batch \in Nat /\ (phase # "none" => batch > 0)
    /\ clock \in Nat /\ started \in 0 .. nodenum /\ drawing \in 0 .. nodenum
    /\ phase = "returned" => drawing = 0
    /\ active \in [Sources -> BOOLEAN] /\ totalpacket \in [Sources -> Nat]
    /\ ~overrun
    /\ IF InRun THEN \E d \in 0 .. Last(batch) : Dispatches(d) ELSE NotRun

-----------------------------------------------------------------------------
(* Scheduling and dispatching *)

\* An event takes the place behind the events of its time.
LEMMA ScheduledInserts ==
    ASSUME NEW q \in Seq(Events), Sorted(q), NEW e \in Events
    PROVE  \E k \in 0 .. Len(q) :
              /\ Scheduled(q, e) \in Seq(Events) /\ Len(Scheduled(q, e)) = Len(q) + 1
              /\ \A j \in 1 .. k : q[j].time <= e.time /\ Scheduled(q, e)[j] = q[j]
              /\ Scheduled(q, e)[k + 1] = e
              /\ \A j \in k + 1 .. Len(q) : q[j].time > e.time /\ Scheduled(q, e)[j + 1] = q[j]
<1> DEFINE place(k) == /\ \A j \in 1 .. k : q[j].time <= e.time
                       /\ \A j \in k + 1 .. Len(q) : q[j].time > e.time
           behind == {k \in 0 .. Len(q) : \A j \in k + 1 .. Len(q) : q[j].time > e.time}
<1>1. /\ Len(q) \in Nat /\ DOMAIN q = 1 .. Len(q)
      /\ \A j \in 1 .. Len(q) : q[j] \in Events /\ q[j].time \in Nat
      /\ e.time \in Nat
  <2>1. \A f \in Events : f.time \in Nat
    BY DEF Events
  <2>2. Len(q) \in Nat /\ DOMAIN q = 1 .. Len(q)
    BY LenProperties
  <2>3. \A j \in 1 .. Len(q) : q[j] \in Events
    BY <2>2, ElementOfSeq
  <2> QED
    BY <2>1, <2>2, <2>3
<1>2. \E k \in 0 .. Len(q) : place(k)
  <2>1. behind \in SUBSET Nat /\ Len(q) \in behind
    BY <1>1
  <2>2. PICK k \in behind : \A n \in behind : k <= n
    <3> HIDE DEF behind
    <3> QED
      BY <2>1, Least
  <2>3. CASE k = 0
    BY <1>1, <2>2, <2>3
  <2>4. CASE k # 0
    <3>1. k - 1 \in 0 .. Len(q) /\ k - 1 \notin behind /\ k \in 1 .. Len(q)
      BY <1>1, <2>2, <2>4
    <3>2. PICK j \in (k - 1) + 1 .. Len(q) : ~ (q[j].time > e.time)
      BY <3>1
    <3>3. j = k
      BY <1>1, <2>2, <3>1, <3>2
    <3>4. q[k].time <= e.time
      BY <1>1, <3>1, <3>2, <3>3
    <3>5. \A i \in 1 .. k : q[i].time <= q[k].time
      BY <1>1, <3>1 DEF Sorted
    <3>6. \A i \in 1 .. k : q[i].time <= e.time
      BY <1>1, <3>1, <3>4, <3>5
    <3> QED
      BY <2>2, <3>1, <3>6
  <2> QED
    BY <2>3, <2>4
<1> DEFINE k == CHOOSE k \in 0 .. Len(q) : place(k)
<1>3. k \in 0 .. Len(q) /\ place(k)
  BY <1>2
<1>4. Scheduled(q, e) = SubSeq(q, 1, k) \o <<e>> \o SubSeq(q, k + 1, Len(q))
  BY DEF Scheduled
<1> HIDE DEF k
<1>5. /\ SubSeq(q, 1, k) \in Seq(Events) /\ Len(SubSeq(q, 1, k)) = k
      /\ \A j \in 1 .. k : SubSeq(q, 1, k)[j] = q[j]
  BY <1>1, <1>3
<1>6. /\ SubSeq(q, k + 1, Len(q)) \in Seq(Events) /\ Len(SubSeq(q, k + 1, Len(q))) = Len(q) - k
      /\ \A j \in 1 .. Len(q) - k : SubSeq(q, k + 1, Len(q))[j] = q[k + j]
  <2>1. k + 1 \in Int /\ Len(q) \in Int /\ \A j \in k + 1 .. Len(q) : q[j] \in Events
    BY <1>1, <1>3
  <2>2. /\ SubSeq(q, k + 1, Len(q)) \in Seq(Events)
        /\ Len(SubSeq(q, k + 1, Len(q))) =
              IF k + 1 <= Len(q) THEN Len(q) - (k + 1) + 1 ELSE 0
        /\ \A j \in 1 .. Len(q) - (k + 1) + 1 :
              SubSeq(q, k + 1, Len(q))[j] = q[(k + 1) + j - 1]
    BY <2>1, SubSeqProperties
  <2>3. \A j \in 1 .. Len(q) - k : (k + 1) + j - 1 = k + j
    BY <1>1, <1>3
  <2>4. Len(q) - (k + 1) + 1 = Len(q) - k
    BY <1>1, <1>3
  <2>5. Len(SubSeq(q, k + 1, Len(q))) = Len(q) - k
    <3> DEFINE L == Len(q)
               M == Len(SubSeq(q, k + 1, Len(q)))
    <3>1. M = IF k + 1 <= L THEN L - (k + 1) + 1 ELSE 0
      BY <2>2
    <3>2. L \in Nat /\ k \in 0 .. L
      BY <1>1, <1>3
    <3> HIDE DEF L, M
    <3>3. M = L - k
      BY <3>1, <3>2
    <3> QED
      BY <3>3 DEF L, M
  <2>6. \A j \in 1 .. Len(q) - k : SubSeq(q, k + 1, Len(q))[j] = q[k + j]
    <3>1. \A j \in 1 .. Len(q) - k : SubSeq(q, k + 1, Len(q))[j] = q[(k + 1) + j - 1]
      BY <2>2, <2>4
    <3> QED
      BY <2>3, <3>1
  <2> QED
    BY <2>2, <2>5, <2>6
<1>7. <<e>> \in Seq(Events) /\ Len(<<e>>) = 1 /\ <<e>>[1] = e
  OBVIOUS
<1> DEFINE a == SubSeq(q, 1, k)
           c == SubSeq(q, k + 1, Len(q))
<1>8. /\ a \o <<e>> \in Seq(Events) /\ Len(a \o <<e>>) = k + 1
      /\ \A j \in 1 .. k : (a \o <<e>>)[j] = q[j]
      /\ (a \o <<e>>)[k + 1] = e
  <2> HIDE DEF a
  <2>1. a \in Seq(Events) /\ Len(a) = k /\ \A j \in 1 .. k : a[j] = q[j]
    BY <1>5 DEF a
  <2> QED
    BY <1>3, <1>7, <2>1
<1>9. /\ (a \o <<e>>) \o c \in Seq(Events) /\ Len((a \o <<e>>) \o c) = Len(q) + 1
      /\ \A j \in 1 .. k : ((a \o <<e>>) \o c)[j] = q[j]
      /\ ((a \o <<e>>) \o c)[k + 1] = e
      /\ \A j \in k + 1 .. Len(q) : ((a \o <<e>>) \o c)[j + 1] = q[j]
  <2> DEFINE f == a \o <<e>>
  <2> HIDE DEF f, c
  <2>1. f \in Seq(Events) /\ Len(f) = k + 1 /\ (\A j \in 1 .. k : f[j] = q[j]) /\ f[k + 1] = e
    BY <1>8 DEF f
  <2>2. c \in Seq(Events) /\ Len(c) = Len(q) - k /\ \A j \in 1 .. Len(q) - k : c[j] = q[k + j]
    BY <1>6 DEF c
  <2>3. /\ f \o c \in Seq(Events) /\ Len(f \o c) = Len(f) + Len(c)
        /\ \A j \in 1 .. Len(f) + Len(c) :
              (f \o c)[j] = IF j <= Len(f) THEN f[j] ELSE c[j - Len(f)]
    BY <2>1, <2>2, ConcatProperties
  <2>4. ASSUME NEW j \in k + 1 .. Len(q)
        PROVE  (f \o c)[j + 1] = q[j]
    <3>1. j - k \in 1 .. Len(q) - k /\ (j + 1) - (k + 1) = j - k /\ k + (j - k) = j
          /\ j + 1 \in 1 .. Len(q) + 1 /\ ~ (j + 1 <= k + 1) /\ (k + 1) + (Len(q) - k) = Len(q) + 1
      BY <1>1, <1>3
    <3> QED
      BY <2>1, <2>2, <2>3, <3>1
  <2>5. (f \o c)[k + 1] = e /\ \A j \in 1 .. k : (f \o c)[j] = q[j]
    BY <1>1, <1>3, <2>1, <2>2, <2>3
  <2>6. Len(f \o c) = Len(q) + 1
    BY <1>1, <1>3, <2>1, <2>2, <2>3
  <2> QED
    BY <2>3, <2>4, <2>5, <2>6 DEF f
<1> QED
  BY <1>3, <1>4, <1>9

\* The end of a service falls in with the at-events, which keep their order.
LEMMA ServiceScheduled ==
    ASSUME NEW b \in Nat, NEW d \in 0 .. Last(b), NEW n \in Nat,
           NEW q \in Seq(Events), Sorted(q), Ahead(b, d, n, q), NEW e \in Services(n)
    PROVE  /\ Scheduled(q, e) \in Seq(Events)
           /\ Sorted(Scheduled(q, e)) /\ Ahead(b, d, n, Scheduled(q, e))
           /\ \A j \in DOMAIN Scheduled(q, e) :
                 Scheduled(q, e)[j] = e \/ \E i \in DOMAIN q : Scheduled(q, e)[j] = q[i]
<1> DEFINE r == Scheduled(q, e)
<1>1. e \in Events /\ e.what = "service" /\ e.time \in Nat
  BY DEF Services, Events
<1>2. PICK k \in 0 .. Len(q) :
              /\ r \in Seq(Events) /\ Len(r) = Len(q) + 1
              /\ \A j \in 1 .. k : q[j].time <= e.time /\ r[j] = q[j]
              /\ r[k + 1] = e
              /\ \A j \in k + 1 .. Len(q) : q[j].time > e.time /\ r[j + 1] = q[j]
  BY <1>1, ScheduledInserts
<1> HIDE DEF r
<1> DEFINE old(j) == IF j <= k THEN j ELSE j - 1
           new(j) == IF j <= k THEN j ELSE j + 1
<1>3. Len(q) \in Nat /\ DOMAIN q = 1 .. Len(q) /\ DOMAIN r = 1 .. Len(q) + 1
      /\ k + 1 \in DOMAIN r
  BY <1>2
<1>4. \A f \in Events : f.time \in Nat
  BY DEF Events
<1>5. \A j \in DOMAIN q : q[j] \in Events /\ q[j].time \in Nat
  BY <1>3, <1>4, ElementOfSeq
<1>6. \A j \in DOMAIN r : j # k + 1 => old(j) \in DOMAIN q /\ r[j] = q[old(j)]
  <2>1. ASSUME NEW j \in DOMAIN r, j # k + 1
        PROVE  old(j) \in DOMAIN q /\ r[j] = q[old(j)]
    <3>1. CASE j <= k
      BY <1>2, <1>3, <2>1, <3>1
    <3>2. CASE ~ (j <= k)
      <4>1. j - 1 \in k + 1 .. Len(q) /\ (j - 1) + 1 = j
        BY <1>2, <1>3, <2>1, <3>2
      <4> QED
        BY <1>2, <1>3, <3>2, <4>1
    <3> QED
      BY <3>1, <3>2
  <2> QED
    BY <2>1
<1>7. \A j \in DOMAIN q : new(j) \in DOMAIN r /\ r[new(j)] = q[j]
  BY <1>2, <1>3
<1>8. \A i, j \in DOMAIN r : i # k + 1 /\ j # k + 1 => (i < j <=> old(i) < old(j))
  BY <1>2, <1>3
<1>9. \A j \in DOMAIN r : /\ j < k + 1 => j \in 1 .. k /\ r[j].time <= e.time
                          /\ k + 1 < j => e.time < r[j].time
  <2>1. ASSUME NEW j \in DOMAIN r, k + 1 < j
        PROVE  e.time < r[j].time
    <3>1. j - 1 \in k + 1 .. Len(q) /\ (j - 1) + 1 = j
      BY <1>3, <2>1
    <3>2. q[j - 1].time > e.time /\ r[j] = q[j - 1] /\ q[j - 1].time \in Nat
      BY <1>2, <1>3, <1>5, <3>1
    <3> QED
      BY <1>1, <3>2
  <2> QED
    BY <1>2, <1>3, <2>1
<1>10. Sorted(r)
  <2>1. ASSUME NEW i \in DOMAIN r, NEW j \in DOMAIN r, i < j
        PROVE  /\ r[i].time <= r[j].time
               /\ r[i].what = "service" /\ r[j].what # "service" => r[i].time < r[j].time
    <3>1. CASE i = k + 1
      <4>1. e.time < r[j].time /\ r[i] = e /\ j # k + 1
        BY <1>2, <1>3, <1>9, <2>1, <3>1
      <4>2. r[j].time \in Nat
        BY <1>5, <1>6, <4>1
      <4> QED
        BY <1>1, <4>1, <4>2
    <3>2. CASE j = k + 1
      BY <1>1, <1>2, <1>3, <1>9, <2>1, <3>2
    <3>3. CASE i # k + 1 /\ j # k + 1
      <4>1. old(i) \in DOMAIN q /\ r[i] = q[old(i)] /\ old(j) \in DOMAIN q /\ r[j] = q[old(j)]
            /\ old(i) < old(j)
        BY <1>6, <1>8, <2>1, <3>3
      <4> HIDE DEF old
      <4> QED
        BY <4>1 DEF Sorted
    <3> QED
      BY <3>1, <3>2, <3>3
  <2> QED
    BY <2>1 DEF Sorted
<1>11. \A m \in d + 1 .. Last(b) : Milestone(b, m) # e
  <2>1. \A m \in d + 1 .. Last(b) : m \in 1 .. Last(b)
    BY DEF Last
  <2> QED
    BY <1>1, <2>1, MilestonesInOrder
<1>12. Ahead(b, d, n, r)
  <2>1. \A j \in DOMAIN r : r[j] \in Services(n) \/ \E m \in d + 1 .. Last(b) : r[j] = Milestone(b, m)
    <3> HIDE DEF old
    <3>1. ASSUME NEW j \in DOMAIN r, j # k + 1
          PROVE  r[j] \in Services(n) \/ \E m \in d + 1 .. Last(b) : r[j] = Milestone(b, m)
      <4>1. old(j) \in DOMAIN q /\ r[j] = q[old(j)]
        BY <1>6, <3>1
      <4> QED
        BY <4>1 DEF Ahead
    <3> QED
      BY <1>2, <3>1
  <2>2. ASSUME NEW m \in d + 1 .. Last(b)
        PROVE  \E j \in DOMAIN r : r[j] = Milestone(b, m)
    <3>1. PICK i \in DOMAIN q : q[i] = Milestone(b, m)
      BY DEF Ahead
    <3> HIDE DEF new
    <3> QED
      BY <1>7, <3>1
  <2>3. ASSUME NEW i \in DOMAIN r, NEW j \in DOMAIN r,
               NEW l \in d + 1 .. Last(b), NEW m \in d + 1 .. Last(b),
               r[i] = Milestone(b, l), r[j] = Milestone(b, m)
        PROVE  i < j <=> l < m
    <3>1. i # k + 1 /\ j # k + 1
      BY <1>2, <1>11, <2>3
    <3>2. old(i) \in DOMAIN q /\ r[i] = q[old(i)] /\ old(j) \in DOMAIN q /\ r[j] = q[old(j)]
          /\ (i < j <=> old(i) < old(j))
      BY <1>6, <1>8, <3>1
    <3> HIDE DEF old
    <3>3. old(i) < old(j) <=> l < m
      <4>1. \A x, y \in DOMAIN q :
               q[x] = Milestone(b, l) /\ q[y] = Milestone(b, m) => (x < y <=> l < m)
        BY DEF Ahead
      <4>2. q[old(i)] = Milestone(b, l) /\ q[old(j)] = Milestone(b, m)
        BY <2>3, <3>2
      <4> QED
        BY <3>2, <4>1, <4>2
    <3> QED
      BY <3>2, <3>3
  <2> QED
    BY <2>1, <2>2, <2>3 DEF Ahead
<1>13. \A j \in DOMAIN r : r[j] = e \/ \E i \in DOMAIN q : r[j] = q[i]
  <2> HIDE DEF old
  <2> QED
    BY <1>2, <1>6
<1> QED
  BY <1>2, <1>10, <1>12, <1>13 DEF r

\* The event dispatched is a service, which comes before the next at-event, or
\* it is that at-event; the rest is behind it.
LEMMA HeadDispatched ==
    ASSUME NEW b \in Nat, NEW d \in 0 .. Last(b), NEW n \in Nat,
           NEW q \in Seq(Events), Sorted(q), Ahead(b, d, n, q), q # <<>>
    PROVE  /\ Head(q) = q[1] /\ 1 \in DOMAIN q /\ Head(q).time \in Nat
           /\ Tail(q) \in Seq(Events) /\ Sorted(Tail(q))
           /\ \A k \in DOMAIN Tail(q) : Head(q).time <= Tail(q)[k].time
           /\ \/ /\ Head(q) \in Services(n) /\ Ahead(b, d, n, Tail(q))
                 /\ d < Last(b) => Head(q).time < Milestone(b, d + 1).time
              \/ /\ d < Last(b) /\ Head(q) = Milestone(b, d + 1)
                 /\ Ahead(b, d + 1, n, Tail(q))
<1> DEFINE r == Tail(q)
<1>1. /\ Len(q) \in Nat \ {0} /\ DOMAIN q = 1 .. Len(q) /\ 1 \in DOMAIN q
      /\ Head(q) = q[1] /\ r \in Seq(Events) /\ Len(r) = Len(q) - 1
      /\ DOMAIN r = 1 .. Len(q) - 1
      /\ \A k \in 1 .. Len(q) - 1 : r[k] = q[k + 1]
  OBVIOUS
<1>2. \A k \in DOMAIN q : q[k] \in Events /\ q[k].time \in Nat
  <2>1. \A f \in Events : f.time \in Nat
    BY DEF Events
  <2> QED
    BY <1>1, <2>1, ElementOfSeq
<1>3. \A k \in DOMAIN r : r[k] = q[k + 1] /\ k + 1 \in DOMAIN q /\ k \in Nat /\ 1 < k + 1
  BY <1>1
<1> HIDE DEF r
<1>4. Sorted(r)
  <2>1. ASSUME NEW i \in DOMAIN r, NEW j \in DOMAIN r, i < j
        PROVE  /\ r[i].time <= r[j].time
               /\ r[i].what = "service" /\ r[j].what # "service" => r[i].time < r[j].time
    <3>1. i + 1 \in DOMAIN q /\ j + 1 \in DOMAIN q /\ i + 1 < j + 1
      BY <1>3, <2>1
    <3> QED
      BY <1>3, <3>1 DEF Sorted
  <2> QED
    BY <2>1 DEF Sorted
<1>5. \A k \in DOMAIN r : q[1].time <= r[k].time
  BY <1>1, <1>3 DEF Sorted
<1>6. \A m \in d + 1 .. Last(b) : /\ m \in 1 .. Last(b)
                                  /\ Milestone(b, m).what # "service"
                                  /\ Milestone(b, m) \notin Services(n)
  <2>1. \A m \in d + 1 .. Last(b) : m \in 1 .. Last(b)
    BY DEF Last
  <2> QED
    BY <2>1, MilestonesInOrder DEF Services
<1>7. \A j, k \in DOMAIN q, l, m \in d + 1 .. Last(b) :
         q[j] = Milestone(b, l) /\ q[k] = Milestone(b, m) => (j < k <=> l < m)
  BY DEF Ahead
<1>8. CASE q[1] \in Services(n)
  <2>1. Ahead(b, d, n, r)
    <3>1. \A k \in DOMAIN r :
             r[k] \in Services(n) \/ \E m \in d + 1 .. Last(b) : r[k] = Milestone(b, m)
      BY <1>3 DEF Ahead
    <3>2. ASSUME NEW m \in d + 1 .. Last(b)
          PROVE  \E k \in DOMAIN r : r[k] = Milestone(b, m)
      <4>1. PICK k \in DOMAIN q : q[k] = Milestone(b, m)
        BY DEF Ahead
      <4>2. k # 1
        BY <1>6, <1>8, <4>1
      <4>3. k - 1 \in DOMAIN r /\ (k - 1) + 1 = k
        BY <1>1, <4>2 DEF r
      <4> QED
        BY <1>3, <4>1, <4>3
    <3>3. ASSUME NEW i \in DOMAIN r, NEW j \in DOMAIN r,
                 NEW l \in d + 1 .. Last(b), NEW m \in d + 1 .. Last(b),
                 r[i] = Milestone(b, l), r[j] = Milestone(b, m)
          PROVE  i < j <=> l < m
      <4>1. i + 1 < j + 1 <=> l < m
        BY <1>3, <1>7, <3>3
      <4> QED
        BY <1>3, <4>1
    <3> QED
      BY <3>1, <3>2, <3>3 DEF Ahead
  <2>2. ASSUME d < Last(b) PROVE q[1].time < Milestone(b, d + 1).time
    <3>1. d + 1 \in d + 1 .. Last(b)
      BY <2>2 DEF Last
    <3>2. PICK k \in DOMAIN q : q[k] = Milestone(b, d + 1)
      BY <3>1 DEF Ahead
    <3>3. k # 1 /\ 1 < k
      BY <1>1, <1>6, <1>8, <3>1, <3>2
    <3>4. q[1].what = "service" /\ q[k].what # "service"
      BY <1>6, <1>8, <3>1, <3>2 DEF Services
    <3> QED
      BY <1>1, <3>2, <3>3, <3>4 DEF Sorted
  <2> QED
    BY <1>1, <1>2, <1>4, <1>5, <1>8, <2>1, <2>2 DEF r
<1>9. CASE q[1] \notin Services(n)
  <2>1. PICK m \in d + 1 .. Last(b) : q[1] = Milestone(b, m)
    BY <1>1, <1>9 DEF Ahead
  <2>2. d < Last(b) /\ d + 1 \in d + 1 .. Last(b)
    BY <2>1 DEF Last
  <2>3. PICK k \in DOMAIN q : q[k] = Milestone(b, d + 1)
    BY <2>2 DEF Ahead
  <2>4. m = d + 1
    <3>1. ~ (k < 1)
      BY <1>1
    <3>2. k < 1 <=> d + 1 < m
      <4>1. 1 \in DOMAIN q
        BY <1>1
      <4> QED
        BY <1>7, <2>1, <2>2, <2>3, <4>1
    <3> QED
      BY <2>1, <3>1, <3>2 DEF Last
  <2>5. \A i \in DOMAIN q : \A l \in d + 1 .. Last(b) :
           q[i] = Milestone(b, l) => (1 < i <=> d + 1 < l)
    <3>1. q[1] = Milestone(b, d + 1)
      BY <2>1, <2>4
    <3>2. 1 \in DOMAIN q
      BY <1>1
    <3> QED
      BY <1>7, <2>2, <3>1, <3>2
  <2>6. Ahead(b, d + 1, n, r)
    <3>1. ASSUME NEW j \in DOMAIN r
          PROVE  r[j] \in Services(n) \/ \E l \in (d + 1) + 1 .. Last(b) : r[j] = Milestone(b, l)
      <4>1. r[j] = q[j + 1] /\ j + 1 \in DOMAIN q /\ 1 < j + 1
        BY <1>3
      <4>2. CASE r[j] \notin Services(n)
        <5>1. PICK l \in d + 1 .. Last(b) : q[j + 1] = Milestone(b, l)
          BY <4>1, <4>2 DEF Ahead
        <5>2. 1 < j + 1 <=> d + 1 < l
          <6>1. \A i \in DOMAIN q : q[i] = Milestone(b, l) => (1 < i <=> d + 1 < l)
            BY <2>5
          <6> QED
            BY <4>1, <5>1, <6>1
        <5>3. l \in (d + 1) + 1 .. Last(b)
          BY <4>1, <5>1, <5>2 DEF Last
        <5> QED
          BY <4>1, <5>1, <5>3
      <4> QED
        BY <4>2
    <3>2. \A l \in (d + 1) + 1 .. Last(b) : l \in d + 1 .. Last(b) /\ l # d + 1
      BY DEF Last
    <3>3. ASSUME NEW l \in (d + 1) + 1 .. Last(b)
          PROVE  \E j \in DOMAIN r : r[j] = Milestone(b, l)
      <4>1. PICK j \in DOMAIN q : q[j] = Milestone(b, l)
        BY <3>2 DEF Ahead
      <4>2. 1 < j <=> d + 1 < l
        BY <2>5, <3>2, <4>1
      <4>3. j - 1 \in DOMAIN r /\ (j - 1) + 1 = j
        <5>1. d + 1 < l
          BY DEF Last
        <5> QED
          BY <1>1, <4>2, <5>1 DEF r
      <4> QED
        BY <1>3, <4>1, <4>3
    <3>4. ASSUME NEW i \in DOMAIN r, NEW j \in DOMAIN r,
                 NEW l \in (d + 1) + 1 .. Last(b), NEW p \in (d + 1) + 1 .. Last(b),
                 r[i] = Milestone(b, l), r[j] = Milestone(b, p)
          PROVE  i < j <=> l < p
      <4>1. i + 1 < j + 1 <=> l < p
        BY <1>3, <1>7, <3>2, <3>4
      <4> QED
        BY <1>3, <4>1
    <3> QED
      BY <3>1, <3>3, <3>4 DEF Ahead
  <2> QED
    BY <1>1, <1>2, <1>4, <1>5, <2>1, <2>2, <2>4, <2>6 DEF r
<1> QED
  BY <1>8, <1>9

\* An empty queue has no at-event to come.
LEMMA NothingAhead ==
    ASSUME NEW b \in Nat, NEW d \in 0 .. Last(b), NEW n, Ahead(b, d, n, <<>>)
    PROVE  d = Last(b)
<1>1. ASSUME d # Last(b) PROVE FALSE
  <2>1. Last(b) \in d + 1 .. Last(b)
    BY <1>1 DEF Last
  <2> QED
    BY <2>1 DEF Ahead
<1> QED
  BY <1>1

\* What run schedules before it starts the sources.
LEMMA FirstEvents ==
    ASSUME NEW b \in Nat, NEW q,
           q = Append(AtEvents[b], AtEvent(Duration[b] + CoolDown, "stopSimulation"))
    PROVE  q = [k \in 1 .. Last(b) |-> Milestone(b, k)]
<1> DEFINE s == [k \in 1 .. 2 * b |-> BatchEvent(k)]
           e == AtEvent(Closes(b) + CoolDown, "stopSimulation")
<1>1. q = Append(s, e)
  BY AtEventsInOrder, DurationIsClose
<1>2. \A k \in 1 .. 2 * b : BatchEvent(k) = Milestone(b, k)
  BY DEF Milestone, Last
<1>3. e = Milestone(b, Last(b))
  BY DEF Milestone
<1>4. Append(s, e) = [k \in 1 .. Last(b) |-> IF k \in 1 .. 2 * b THEN BatchEvent(k) ELSE e]
  <2>1. 2 * b \in Nat
    OBVIOUS
  <2>2. \A f, x : f = [k \in 1 .. 2 * b |-> BatchEvent(k)] =>
           Append(f, x) = [k \in 1 .. Last(b) |-> IF k \in 1 .. 2 * b THEN BatchEvent(k) ELSE x]
    BY <2>1 DEF Last
  <2> QED
    BY <2>2
<1> HIDE DEF e, s
<1>5. \A k \in 1 .. Last(b) :
         (IF k \in 1 .. 2 * b THEN BatchEvent(k) ELSE e) = Milestone(b, k)
  <2>1. ASSUME NEW k \in 1 .. Last(b), k \notin 1 .. 2 * b
        PROVE  k = Last(b)
    BY <2>1 DEF Last
  <2> QED
    BY <1>2, <1>3, <2>1
<1>6. [k \in 1 .. Last(b) |-> IF k \in 1 .. 2 * b THEN BatchEvent(k) ELSE e]
         = [k \in 1 .. Last(b) |-> Milestone(b, k)]
  BY <1>5, Zenon
<1> QED
  BY <1>1, <1>4, <1>6, Zenon

\* That queue is in order, and all the at-events are ahead.
LEMMA FirstQueue ==
    ASSUME NEW b \in Nat, NEW n \in Nat, NEW q,
           q = [k \in 1 .. Last(b) |-> Milestone(b, k)]
    PROVE  q \in Seq(Events) /\ Sorted(q) /\ Ahead(b, 0, n, q)
<1>2. Last(b) \in Nat /\ DOMAIN q = 1 .. Last(b) /\ \A k \in 1 .. Last(b) : q[k] = Milestone(b, k)
  BY DEF Last
<1>3. \A k \in 1 .. Last(b) : /\ q[k] \in Events /\ q[k].what # "service"
                              /\ \A l \in 1 .. Last(b) : k <= l => q[k].time <= q[l].time
  <2>1. ASSUME NEW k \in 1 .. Last(b)
        PROVE  /\ q[k] \in Events /\ q[k].what # "service"
               /\ \A l \in 1 .. Last(b) : k <= l => q[k].time <= q[l].time
    <3>1. /\ q[k] \in [ time : Nat, what : {"startStatistic", "stopStatistic",
                        "stopSimulation"}, node : {0}, dst : {0} ]
          /\ \A l \in 1 .. Last(b) : k <= l => q[k].time <= q[l].time
      <4>1. q[k] = Milestone(b, k) /\ \A l \in 1 .. Last(b) : q[l] = Milestone(b, l)
        BY <1>2
      <4>2. /\ Milestone(b, k) \in [ time : Nat, what : {"startStatistic", "stopStatistic",
                                     "stopSimulation"}, node : {0}, dst : {0} ]
            /\ \A l \in 1 .. Last(b) : k <= l => Milestone(b, k).time <= Milestone(b, l).time
        BY MilestonesInOrder
      <4> QED
        BY <4>1, <4>2
    <3> QED
      BY <3>1 DEF Events
  <2> QED
    BY <2>1
<1>4. q \in Seq(Events)
  <2>1. q \in [1 .. Last(b) -> Events]
    BY <1>2, <1>3
  <2> QED
    <3>1. \A E, r : \A l \in Nat : r \in [1 .. l -> E] => r \in Seq(E)
      OBVIOUS
    <3> QED
      BY <1>2, <2>1, <3>1
<1>5. Sorted(q)
  BY <1>2, <1>3 DEF Sorted
<1>6. Ahead(b, 0, n, q)
  <2>1. \A k, l \in 1 .. Last(b) : q[k] = Milestone(b, l) => k = l
    <3>1. ASSUME NEW k \in 1 .. Last(b), NEW l \in 1 .. Last(b), q[k] = Milestone(b, l)
          PROVE  k = l
      BY <1>2, <3>1, MilestonesDiffer DEF Last
    <3> QED
      BY <3>1
  <2>2. 0 + 1 .. Last(b) = 1 .. Last(b)
    OBVIOUS
  <2>3. \A k \in DOMAIN q : \E m \in 1 .. Last(b) : q[k] = Milestone(b, m)
    BY <1>2
  <2>4. \A m \in 1 .. Last(b) : \E k \in DOMAIN q : q[k] = Milestone(b, m)
    BY <1>2
  <2>5. \A j, k \in DOMAIN q, l, m \in 1 .. Last(b) :
           q[j] = Milestone(b, l) /\ q[k] = Milestone(b, m) => (j < k <=> l < m)
    BY <1>2, <2>1
  <2> QED
    BY <2>2, <2>3, <2>4, <2>5 DEF Ahead
<1> QED
  BY <1>4, <1>5, <1>6

-----------------------------------------------------------------------------
(* The steps *)

\* Total is the sum, now and after the step.
LEMMA TotalIsSum ==
    ASSUME NEW f
    PROVE  /\ totalpacket = f => Total = FoldFunction(+, 0, f)
           /\ totalpacket' = f => Total' = FoldFunction(+, 0, f)
<1>1. ASSUME totalpacket = f
      PROVE  Total = FoldFunction(+, 0, f)
  BY <1>1, Zenon DEF Total
<1>2. ASSUME totalpacket' = f
      PROVE  Total' = FoldFunction(+, 0, f)
  BY <1>2, Zenon DEF Total, FoldFunction, FoldFunctionOnSet, MapThenFoldSet
<1> QED
  BY <1>1, <1>2, Zenon

\* What counts depends on nothing else.
LEMMA CountsKept ==
    ASSUME NEW d, CountsInv(d),
           UNCHANGED <<batch, curbatch, throughput, heard, totalpacket, delay, report>>
    PROVE  CountsInv(d)'
<1>1. Total' = Total
  <2>1. totalpacket' = totalpacket
    OBVIOUS
  <2> QED
    BY <2>1, Zenon DEF Total, FoldFunction, FoldFunctionOnSet, MapThenFoldSet
<1> QED
  BY <1>1 DEF CountsInv, Last, Milestone, Quotient, NoReport

\* What is to be dispatched depends on nothing but the queue and the clock.
LEMMA QueueKept ==
    ASSUME NEW d, QueueInv(d), UNCHANGED <<batch, nodenum, queue, clock>>
    PROVE  QueueInv(d)'
  BY DEF QueueInv, Ahead, Sorted, Services, Milestone, BatchEvent, Last, AtEvent, Opens, Closes,
         Events

\* The invariant of the queue after a step.
LEMMA QueueInvPrimed ==
    ASSUME NEW k, UNCHANGED <<batch, nodenum>>,
           queue' \in Seq(Events), Sorted(queue'), Ahead(batch, k, nodenum, queue'),
           \A j \in DOMAIN queue' : clock' <= queue'[j].time,
           k > 0 => Milestone(batch, k).time <= clock'
    PROVE  QueueInv(k)'
<1>1. Sorted(queue)' <=> Sorted(queue')
  BY DEF Sorted
<1>2. Ahead(batch, k, nodenum, queue)' <=> Ahead(batch', k, nodenum', queue')
  BY DEF Ahead, Milestone, BatchEvent, Last, AtEvent, Opens, Closes, Services
<1>3. (queue \in Seq(Events))' <=> queue' \in Seq(Events)
  BY DEF Events
<1>4. Milestone(batch, k)' = Milestone(batch', k)
  BY DEF Milestone, BatchEvent, Last, AtEvent, Opens, Closes
<1> QED
  BY <1>1, <1>2, <1>3, <1>4 DEF QueueInv

\* Steps of a simulation that does not run.
LEMMA NotRunKept ==
    ASSUME RunInv, ~ InRun, ~ InRun', phase' # "none" => batch' > 0, batch' \in Nat,
           UNCHANGED <<queue, clock, throughput, heard, curbatch, delay, report, started, drawing,
                       overrun>>,
           nodenum' \in Nat,
           active' \in [Sources -> BOOLEAN]', totalpacket' \in [Sources -> Nat]'
    PROVE  RunInv'
  BY DEF RunInv, NotRun, InRun, NoReport

\* Before its first simulation a program has no run.
LEMMA RunInvInit == Init => RunInv
<1> SUFFICES ASSUME Init PROVE RunInv
  OBVIOUS
<1>1. Sources = {}
  BY DEF Sources, Init, TopologyInit, Used
<1> QED
  BY <1>1 DEF Init, TopologyInit, RunInv, NotRun, InRun

\* The constructor makes a source for every node and chooses the batches.
LEMMA RunInvConstruct ==
    ASSUME Inv, RunInv, NEW n \in NodeCounts, NEW b \in BatchCounts, Construct(n, b)
    PROVE  RunInv'
<1>1. n \in Nat \ {0} /\ b \in Nat \ {0}
  BY TopologyAssumption, RunAssumption
<1>2. phase = "none" /\ phase' = "building" /\ nodenum' = n /\ batch' = b
      /\ active' = [i \in 1 .. n |-> FALSE] /\ totalpacket' = [i \in 1 .. n |-> 0]
  BY DEF Construct, NewSimulator
<1>3. Sources' = 1 .. n
  BY <1>2 DEF Sources, Used
<1>4. active' \in [Sources -> BOOLEAN]' /\ totalpacket' \in [Sources -> Nat]'
  BY <1>2, <1>3
<1> QED
  BY <1>1, <1>2, <1>4, NotRunKept DEF Construct, InRun

\* While the nodes are made, and while they are taken down, nothing runs.
LEMMA RunInvBuild == ASSUME Inv, RunInv, Build PROVE RunInv'
<1>1. phase = "building" /\ phase' \in {"ready", "building"} /\ nodenum' = nodenum
      /\ UNCHANGED <<statistics, run>>
  BY DEF Build, NewNode
<1>2. Sources' = Sources
  BY <1>1 DEF Sources, Used
<1>3. active' \in [Sources -> BOOLEAN]' /\ totalpacket' \in [Sources -> Nat]'
  BY <1>1, <1>2 DEF RunInv, statistics, run
<1>4. nodenum' \in Nat /\ batch' \in Nat /\ batch' > 0
  BY <1>1 DEF Inv, TopologyTypeOK, RunInv, run
<1> QED
  BY <1>1, <1>3, <1>4, NotRunKept DEF statistics, run, InRun

\* Taking down leaves what Delete has left.
LEMMA RunInvTakeDown == ASSUME Inv, RunInv, TakeDown PROVE RunInv'
<1>1. phase = "deleting" /\ phase' \in {"deleting", "none"} /\ nodenum' = nodenum
      /\ UNCHANGED <<statistics, run>>
  BY DEF TakeDown, DeleteNode, DeleteChannel
<1>2. Sources' = Sources
  BY <1>1 DEF Sources, Used
<1>3. active' \in [Sources -> BOOLEAN]' /\ totalpacket' \in [Sources -> Nat]'
  BY <1>1, <1>2 DEF RunInv, statistics, run
<1>4. nodenum' \in Nat /\ batch' \in Nat /\ batch' > 0
  BY <1>1 DEF Inv, TopologyTypeOK, RunInv, run
<1> QED
  BY <1>1, <1>3, <1>4, NotRunKept DEF statistics, run, InRun

\* Until it ends, a simulation has as many sources as nodes.
LEMMA SourcesInRun ==
    ASSUME Inv, InRun
    PROVE  Sources = 1 .. nodenum /\ nodenum \in Nat /\ Len(nodes) = nodenum
           /\ IsFiniteSet(1 .. nodenum)
<1>1. phase \in Used /\ nodenum \in Nat
  BY DEF InRun, Used, Inv, TopologyTypeOK
<1>2. IsFiniteSet(1 .. nodenum)
  BY <1>1, FS_Interval
<1> QED
  BY <1>1, <1>2 DEF Sources, Inv, NodesAreNumbered

\* A run starts with all at-events ahead and nothing counted.
LEMMA RunInvRun == ASSUME Inv, RunInv, Run PROVE RunInv'
<1>1. /\ phase \in {"ready", "returned"} /\ phase' = "starting" /\ clock' = 0 /\ started' = 0
      /\ curbatch' = 0 /\ delay' = "number" /\ report' = NoReport
      /\ throughput' = [i \in 1 .. batch |-> 0] /\ heard' = [i \in 1 .. batch |-> 0]
      /\ UNCHANGED <<nodenum, batch, drawing, active, totalpacket, overrun>>
  BY DEF Run
<1>2. batch \in Nat \ {0} /\ nodenum \in Nat /\ batch' = batch /\ nodenum' = nodenum
      /\ Sources' = Sources
  BY <1>1 DEF RunInv, Inv, TopologyTypeOK, Sources, Used
<1>3. queue' = [k \in 1 .. Last(batch) |-> Milestone(batch, k)]
  BY <1>2, FirstEvents DEF Run
<1>4. queue' \in Seq(Events) /\ Sorted(queue') /\ Ahead(batch, 0, nodenum, queue')
  BY <1>2, <1>3, FirstQueue
<1>5. QueueInv(0)'
  <2>1. \A k \in DOMAIN queue' : clock' <= queue'[k].time
    <3>1. \A k \in 1 .. Last(batch) : Milestone(batch, k).time \in Nat
      BY <1>2, MilestonesInOrder
    <3> QED
      BY <1>1, <1>3, <3>1
  <2> QED
    BY <1>1, <1>2, <1>4, <2>1, QueueInvPrimed
<1>6. CountsInv(0)'
  BY <1>1, <1>2 DEF CountsInv, Last, Numeric, NoReport
<1>7. drawing = 0
  BY <1>1 DEF RunInv, NotRun, InRun
<1>8. \E d \in 0 .. Last(batch') : Dispatches(d)'
  <2>1. 0 \in 0 .. Last(batch')
    BY <1>2 DEF Last
  <2> QED
    BY <1>1, <1>5, <1>6, <2>1 DEF Dispatches
<1> QED
  BY <1>1, <1>2, <1>7, <1>8 DEF RunInv, InRun

\* What is left to show of a step of a run.
LEMMA RunInvStep ==
    ASSUME Inv, RunInv, InRun, InRun', UNCHANGED <<batch, nodenum>>,
           NEW d \in 0 .. Last(batch), Dispatches(d)',
           clock' \in Nat, started' \in 0 .. nodenum, drawing' \in 0 .. nodenum,
           phase' = "returned" => drawing' = 0,
           active' \in [1 .. nodenum -> BOOLEAN], totalpacket' \in [1 .. nodenum -> Nat],
           ~ overrun'
    PROVE  RunInv'
<1>1. Sources' = 1 .. nodenum
  BY DEF Sources, InRun, Used
<1>2. d \in 0 .. Last(batch)'
  BY DEF Last
<1>3. batch' \in Nat /\ batch' > 0
  BY DEF RunInv, InRun
<1> QED
  BY <1>1, <1>2, <1>3 DEF RunInv

\* Starting a source touches neither the queue nor the counts.
LEMMA RunInvStartSource == ASSUME Inv, RunInv, StartSource PROVE RunInv'
<1>1. /\ phase = "starting" /\ phase' = "starting" /\ nodenum' = nodenum /\ started < Len(nodes)
      /\ started' = started + 1 /\ drawing' = started + 1
      /\ active' = [active EXCEPT ![started + 1] = TRUE]
      /\ UNCHANGED <<batch, queue, clock, curbatch, throughput, heard, totalpacket, delay,
                     report, overrun>>
  BY DEF StartSource, topology, statistics
<1>2. InRun /\ InRun'
  BY <1>1 DEF InRun
<1>3. PICK d \in 0 .. Last(batch) : Dispatches(d)
  BY <1>2 DEF RunInv
<1>4. Dispatches(d)'
  BY <1>1, <1>3, QueueKept, CountsKept DEF Dispatches
<1>5. started' \in 0 .. nodenum /\ drawing' \in 0 .. nodenum
      /\ active' \in [1 .. nodenum -> BOOLEAN] /\ totalpacket' \in [1 .. nodenum -> Nat]
      /\ ~ overrun' /\ clock' \in Nat
  <2>1. nodenum \in Nat /\ Len(nodes) = nodenum /\ Sources = 1 .. nodenum
    BY <1>2, SourcesInRun
  <2>2. started \in 0 .. nodenum /\ active \in [1 .. nodenum -> BOOLEAN]
        /\ totalpacket \in [1 .. nodenum -> Nat] /\ ~ overrun /\ clock \in Nat
    BY <2>1 DEF RunInv
  <2>3. started + 1 \in 1 .. nodenum
    BY <1>1, <2>1, <2>2
  <2> QED
    BY <1>1, <2>1, <2>2, <2>3
<1> QED
  BY <1>1, <1>2, <1>4, <1>5, RunInvStep

\* The scheduler begins with what run has scheduled.
LEMMA RunInvStartEvents == ASSUME Inv, RunInv, StartEvents PROVE RunInv'
<1>1. /\ phase = "starting" /\ phase' = "running" /\ UNCHANGED <<nodenum, statistics, run>>
  BY DEF StartEvents
<1>2. InRun /\ InRun'
  BY <1>1 DEF InRun
<1>3. PICK d \in 0 .. Last(batch) : Dispatches(d)
  BY <1>2 DEF RunInv
<1>4. Dispatches(d)'
  BY <1>1, <1>3, QueueKept, CountsKept DEF Dispatches, statistics, run
<1> QED
  BY <1>1, <1>2, <1>4, SourcesInRun, RunInvStep DEF RunInv, statistics, run

\* Return, when the queue is empty.
LEMMA RunInvReturn == ASSUME Inv, RunInv, Return PROVE RunInv'
<1>1. /\ phase = "running" /\ phase' = "returned" /\ drawing = 0 /\ queue = <<>>
      /\ UNCHANGED <<nodenum, statistics, run>>
  BY DEF Return
<1>2. InRun /\ InRun'
  BY <1>1 DEF InRun
<1>3. PICK d \in 0 .. Last(batch) : Dispatches(d)
  BY <1>2 DEF RunInv
<1>4. Dispatches(d)'
  BY <1>1, <1>3, QueueKept, CountsKept DEF Dispatches, statistics, run
<1> QED
  BY <1>1, <1>2, <1>4, SourcesInRun, RunInvStep DEF RunInv, statistics, run

\* With the simulation goes all of its run.
LEMMA RunInvDelete == ASSUME Inv, RunInv, Delete PROVE RunInv'
<1>1. /\ phase = "returned" /\ phase' = "deleting" /\ nodenum' = nodenum
      /\ totalpacket' = <<>> /\ throughput' = <<>> /\ curbatch' = 0 /\ delay' = "number"
      /\ report' = NoReport /\ clock' = 0 /\ started' = 0 /\ active' = <<>> /\ heard' = <<>>
      /\ UNCHANGED <<overrun, batch, queue, drawing>>
  BY DEF Delete
<1>2. drawing = 0 /\ queue = <<>> /\ batch \in Nat /\ batch > 0 /\ nodenum \in Nat /\ ~ overrun
  BY <1>1 DEF RunInv, InRun, Dispatches, Inv, TopologyTypeOK
<1>3. Sources' = {}
  BY <1>1 DEF Sources, Used
<1> QED
  BY <1>1, <1>2, <1>3 DEF RunInv, NotRun, InRun, NoReport

\* The drawn packet's service ends after now, and before no at-event that it
\* could hold up.
LEMMA RunInvDraw == ASSUME Inv, RunInv, Draw PROVE RunInv'
<1>1. /\ drawing # 0 /\ drawing' = 0 /\ phase' = phase /\ nodenum' = nodenum
      /\ UNCHANGED <<statistics, batch, clock, started, active, heard>>
  BY DEF Draw, topology
<1>2. PICK a \in Draws \ {Address(drawing)}, length \in 1 .. MaxService :
         queue' = Scheduled(queue, Service(clock + length, drawing, a))
  BY DEF Draw
<1>3. InRun /\ InRun' /\ phase # "returned"
  BY <1>1 DEF RunInv, NotRun, InRun
<1>4. PICK d \in 0 .. Last(batch) : Dispatches(d)
  BY <1>3 DEF RunInv
<1> DEFINE e == Service(clock + length, drawing, a)
<1>5. e \in Services(nodenum) /\ e.time \in Nat /\ clock <= e.time
  <2>1. drawing \in 1 .. nodenum /\ clock \in Nat /\ length \in Nat
    BY <1>1, <1>2, <1>3, SourcesInRun, RunAssumption DEF RunInv
  <2>2. a \in 0 .. nodenum - 1
    <3>1. interfacenum = Len(nodes) /\ Len(nodes) = nodenum
      BY <1>3 DEF Inv, NodesAreNumbered, InRun, Used
    <3> QED
      BY <1>2, <3>1 DEF Draws
  <2> QED
    BY <2>1, <2>2 DEF Service, Services
<1> HIDE DEF e
<1>6. batch \in Nat /\ nodenum \in Nat
  BY <1>3, SourcesInRun DEF RunInv
<1>7. queue \in Seq(Events) /\ Sorted(queue) /\ Ahead(batch, d, nodenum, queue)
      /\ (\A k \in DOMAIN queue : clock <= queue[k].time)
      /\ (d > 0 => Milestone(batch, d).time <= clock)
  BY <1>4 DEF Dispatches, QueueInv
<1>8. /\ queue' \in Seq(Events) /\ Sorted(queue') /\ Ahead(batch, d, nodenum, queue')
      /\ \A j \in DOMAIN queue' : queue'[j] = e \/ \E i \in DOMAIN queue : queue'[j] = queue[i]
  BY <1>2, <1>5, <1>6, <1>7, ServiceScheduled DEF e
<1>9. QueueInv(d)'
  <2>1. \A j \in DOMAIN queue' : clock' <= queue'[j].time
    BY <1>1, <1>5, <1>7, <1>8
  <2> QED
    BY <1>1, <1>7, <1>8, <2>1, QueueInvPrimed DEF statistics
<1>10. Dispatches(d)'
  BY <1>1, <1>3, <1>4, <1>9, CountsKept DEF Dispatches, statistics
<1> QED
  BY <1>1, <1>3, <1>10, SourcesInRun, RunInvStep DEF RunInv, statistics

\* Between the d-th at-event and the next the clock is in the window of the
\* batch that has begun and not ended, and in no other.
LEMMA WindowOfClock ==
    ASSUME NEW b \in Nat, NEW d \in 0 .. Last(b), NEW c \in Nat, NEW t \in Nat,
           2 * c <= d, d <= 2 * c + 1,
           d > 0 => Milestone(b, d).time <= t,
           d < Last(b) => t < Milestone(b, d + 1).time,
           NEW i \in 1 .. b
    PROVE  Opens(i) <= t /\ t < Closes(i) <=> i = c + 1 /\ 2 * c < d /\ d < Last(b)
<1>1. /\ i \in Nat \ {0} /\ c <= b /\ Opens(i) \in Nat /\ Closes(i) \in Nat
      /\ Closes(i) = Opens(i) + Time
  <2>1. i \in Nat \ {0} /\ c <= b
    BY DEF Last
  <2> QED
    BY <2>1, Window
<1>2. \A j \in 1 .. b : /\ Milestone(b, 2 * j - 1).time = Opens(j) /\ Milestone(b, 2 * j).time = Closes(j)
                        /\ Opens(j) \in Nat /\ Closes(j) \in Nat /\ Closes(j) = Opens(j) + Time
                        /\ i < j => Closes(i) < Opens(j)
                        /\ j < i => Closes(j) < Opens(i)
  <2>1. ASSUME NEW j \in 1 .. b
        PROVE  /\ Milestone(b, 2 * j - 1).time = Opens(j) /\ Milestone(b, 2 * j).time = Closes(j)
               /\ Opens(j) \in Nat /\ Closes(j) \in Nat /\ Closes(j) = Opens(j) + Time
               /\ i < j => Closes(i) < Opens(j)
               /\ j < i => Closes(j) < Opens(i)
    <3>1. j \in Nat \ {0}
      OBVIOUS
    <3>2. Milestone(b, 2 * j - 1) = AtEvent(Opens(j), "startStatistic")
          /\ Milestone(b, 2 * j) = AtEvent(Closes(j), "stopStatistic")
      BY Milestones
    <3>3. Milestone(b, 2 * j - 1).time = Opens(j) /\ Milestone(b, 2 * j).time = Closes(j)
      BY <3>2 DEF AtEvent
    <3> QED
      BY <1>1, <3>1, <3>3, Window, WindowsApart
  <2> QED
    BY <2>1
<1>3. Time \in Nat \ {0}
  BY RunAssumption
<1>4. CASE d = 2 * c
  <2>1. ASSUME i <= c PROVE ~ (t < Closes(i))
    <3>1. c \in 1 .. b /\ d > 0
      BY <1>1, <1>4, <2>1
    <3>2. Closes(c) <= t /\ Closes(c) \in Nat
      BY <1>2, <1>4, <3>1
    <3>3. Closes(i) <= Closes(c)
      BY <1>1, <2>1, <3>1, Windows
    <3> QED
      BY <1>1, <3>2, <3>3
  <2>2. ASSUME i > c PROVE ~ (Opens(i) <= t)
    <3>1. c + 1 \in 1 .. b /\ 2 * (c + 1) - 1 = d + 1 /\ d < Last(b)
      BY <1>1, <1>4, <2>2 DEF Last
    <3>2. t < Opens(c + 1) /\ Opens(c + 1) \in Nat /\ Closes(c + 1) = Opens(c + 1) + Time
          /\ (c + 1 < i => Closes(c + 1) < Opens(i))
      BY <1>2, <3>1
    <3>3. c + 1 = i \/ c + 1 < i
      BY <1>1, <2>2
    <3> QED
      BY <1>1, <1>3, <3>2, <3>3
  <2> QED
    BY <1>1, <1>4, <2>1, <2>2
<1>5. CASE d = 2 * c + 1 /\ d < Last(b)
  <2>1. c + 1 \in 1 .. b /\ 2 * (c + 1) - 1 = d /\ 2 * (c + 1) = d + 1 /\ d > 0
    BY <1>1, <1>5 DEF Last
  <2>2. /\ Opens(c + 1) <= t /\ t < Closes(c + 1)
        /\ Opens(c + 1) \in Nat /\ Closes(c + 1) \in Nat
        /\ (i < c + 1 => Closes(i) < Opens(c + 1))
        /\ (c + 1 < i => Closes(c + 1) < Opens(i))
    BY <1>2, <1>5, <2>1
  <2> QED
    BY <1>1, <1>5, <2>1, <2>2
<1>6. CASE d = Last(b)
  <2>1. Closes(b) + CoolDown <= t /\ d > 0
    <3>1. Milestone(b, Last(b)) = AtEvent(Closes(b) + CoolDown, "stopSimulation")
      BY Milestones
    <3>2. Milestone(b, d).time = Closes(b) + CoolDown
      BY <1>6, <3>1 DEF AtEvent
    <3>3. d > 0
      BY <1>6 DEF Last
    <3> QED
      BY <3>2, <3>3
  <2>2. Closes(i) <= Closes(b) /\ Closes(b) \in Nat /\ CoolDown \in Nat
    BY <1>1, Windows, RunAssumption
  <2> QED
    BY <1>1, <1>6, <2>1, <2>2
<1>7. d = 2 * c \/ (d = 2 * c + 1 /\ d < Last(b)) \/ d = Last(b)
  BY DEF Last
<1> QED
  BY <1>4, <1>5, <1>6, <1>7

\* The event dispatched: a service between two at-events, or the next at-event.
LEMMA DispatchedEvent ==
    ASSUME Inv, RunInv, NEW w, Dispatched(w)
    PROVE  /\ InRun /\ InRun' /\ phase = "running" /\ phase' = "running" /\ drawing = 0
           /\ UNCHANGED <<batch, nodenum, started>> /\ clock' \in Nat
           /\ \E d \in 0 .. Last(batch) :
                /\ Dispatches(d)
                /\ \/ /\ w = "service" /\ Head(queue) \in Services(nodenum) /\ QueueInv(d)'
                      /\ d > 0 => Milestone(batch, d).time <= clock'
                      /\ d < Last(batch) => clock' < Milestone(batch, d + 1).time
                   \/ /\ d < Last(batch) /\ w = Milestone(batch, d + 1).what /\ QueueInv(d + 1)'
<1>1. /\ phase = "running" /\ drawing = 0 /\ queue # <<>> /\ Head(queue).what = w
      /\ queue' = Tail(queue) /\ clock' = Head(queue).time
      /\ UNCHANGED <<phase, batch, nodenum, started>>
  BY DEF Dispatched, topology
<1>2. InRun /\ InRun'
  BY <1>1 DEF InRun
<1>3. PICK d \in 0 .. Last(batch) : Dispatches(d)
  BY <1>2 DEF RunInv
<1>4. batch \in Nat /\ nodenum \in Nat
  BY <1>2, SourcesInRun DEF RunInv
<1>5. queue \in Seq(Events) /\ Sorted(queue) /\ Ahead(batch, d, nodenum, queue)
      /\ (\A k \in DOMAIN queue : clock <= queue[k].time)
      /\ (d > 0 => Milestone(batch, d).time <= clock) /\ clock \in Nat
  BY <1>3 DEF Dispatches, QueueInv, RunInv
<1>6. /\ Head(queue) = queue[1] /\ 1 \in DOMAIN queue /\ clock' \in Nat
      /\ queue' \in Seq(Events) /\ Sorted(queue')
      /\ \A k \in DOMAIN queue' : clock' <= queue'[k].time
      /\ \/ /\ Head(queue) \in Services(nodenum) /\ Ahead(batch, d, nodenum, queue')
            /\ d < Last(batch) => clock' < Milestone(batch, d + 1).time
         \/ /\ d < Last(batch) /\ Head(queue) = Milestone(batch, d + 1)
            /\ Ahead(batch, d + 1, nodenum, queue')
  BY <1>1, <1>4, <1>5, HeadDispatched
<1>7. clock <= clock'
  BY <1>1, <1>5, <1>6
<1>8. d > 0 => Milestone(batch, d).time <= clock'
  <2>1. d > 0 => Milestone(batch, d).time \in Nat
    BY <1>4, MilestonesInOrder DEF Last
  <2> QED
    BY <1>5, <1>6, <1>7, <2>1
<1>9. \A k \in Nat : /\ Ahead(batch, k, nodenum, queue') /\ (k > 0 => Milestone(batch, k).time <= clock')
                     => QueueInv(k)'
  BY <1>1, <1>6, QueueInvPrimed
<1>10. CASE Head(queue) \in Services(nodenum) /\ Ahead(batch, d, nodenum, queue')
            /\ (d < Last(batch) => clock' < Milestone(batch, d + 1).time)
  <2>1. w = "service"
    BY <1>1, <1>10 DEF Services
  <2>2. QueueInv(d)'
    BY <1>8, <1>9, <1>10 DEF Last
  <2> QED
    BY <1>1, <1>2, <1>3, <1>6, <1>8, <1>10, <2>1, <2>2
<1>11. CASE d < Last(batch) /\ Head(queue) = Milestone(batch, d + 1)
            /\ Ahead(batch, d + 1, nodenum, queue')
  <2>1. d + 1 \in Nat /\ Milestone(batch, d + 1).time <= clock'
    BY <1>1, <1>6, <1>11
  <2>2. QueueInv(d + 1)'
    BY <1>9, <1>11, <2>1
  <2> QED
    BY <1>1, <1>2, <1>3, <1>6, <1>11, <2>2
<1> QED
  BY <1>6, <1>10, <1>11

\* The kind of an at-event tells its place.
LEMMA MilestoneKind ==
    ASSUME NEW b \in Nat, NEW k \in 1 .. Last(b)
    PROVE  /\ Milestone(b, k).what = "startStatistic" => \E i \in 1 .. b : k = 2 * i - 1
           /\ Milestone(b, k).what = "stopStatistic" => \E i \in 1 .. b : k = 2 * i
           /\ Milestone(b, k).what = "stopSimulation" => k = Last(b)
<1>1. CASE k = Last(b)
  <2>1. Milestone(b, k) = AtEvent(Closes(b) + CoolDown, "stopSimulation")
    BY <1>1, Milestones
  <2> QED
    BY <1>1, <2>1 DEF AtEvent
<1>2. CASE k # Last(b)
  <2>1. PICK i \in 1 .. b : k = 2 * i - 1 \/ k = 2 * i
    BY <1>2, Milestones
  <2>2. Milestone(b, 2 * i - 1) = AtEvent(Opens(i), "startStatistic")
        /\ Milestone(b, 2 * i) = AtEvent(Closes(i), "stopStatistic")
    BY Milestones
  <2>3. \A x, w : AtEvent(x, w).what = w
    BY DEF AtEvent
  <2> QED
    BY <2>1, <2>2, <2>3
<1> QED
  BY <1>1, <1>2

\* startStatistic clears the totals, and nothing has been heard in its window.
LEMMA RunInvStartStatistic == ASSUME Inv, RunInv, StartStatistic PROVE RunInv'
<1>1. /\ Dispatched("startStatistic") /\ totalpacket' = ResetTotals
      /\ UNCHANGED <<throughput, curbatch, delay, report, overrun, drawing, active, heard>>
  BY DEF StartStatistic
<1>2. /\ InRun /\ InRun' /\ phase = "running" /\ phase' = "running" /\ drawing = 0
      /\ UNCHANGED <<batch, nodenum, started>> /\ clock' \in Nat
  BY <1>1, DispatchedEvent
<1>3. PICK d \in 0 .. Last(batch) : /\ Dispatches(d) /\ d < Last(batch) /\ QueueInv(d + 1)'
                                    /\ Milestone(batch, d + 1).what = "startStatistic"
  BY <1>1, DispatchedEvent
<1>4. batch \in Nat /\ nodenum \in Nat /\ Sources = 1 .. nodenum /\ IsFiniteSet(1 .. nodenum)
  BY <1>2, SourcesInRun DEF RunInv
<1>5. PICK i \in 1 .. batch : d + 1 = 2 * i - 1
  <2>1. d + 1 \in 1 .. Last(batch)
    BY <1>3, <1>4 DEF Last
  <2> QED
    BY <1>3, <1>4, <2>1, MilestoneKind
<1>6. totalpacket' \in [1 .. nodenum -> Nat] /\ Total' = 0
  <2>1. totalpacket \in [1 .. nodenum -> Nat]
    BY <1>4 DEF RunInv
  <2>2. totalpacket' \in [1 .. nodenum -> Nat] /\ \A j \in 1 .. nodenum : totalpacket'[j] = 0
    BY <1>1, <2>1 DEF ResetTotals
  <2>3. FoldFunction(+, 0, totalpacket') = 0
    BY <1>4, <2>2, SumOfZeros
  <2> QED
    BY <2>2, <2>3, TotalIsSum, Zenon
<1>7. CountsInv(d)
  BY <1>3 DEF Dispatches
<1>8. curbatch \in Nat /\ d = 2 * curbatch /\ curbatch + 1 \in 1 .. batch /\ heard[curbatch + 1] = 0
      /\ d # Last(batch) /\ d + 1 # Last(batch)
  BY <1>4, <1>5, <1>7 DEF CountsInv, Last
<1>9. CountsInv(d + 1)'
  <2>1. \A j \in 1 .. batch : d + 1 < 2 * j - 1 => heard[j] = 0
    BY <1>7 DEF CountsInv
  <2>2. 2 * curbatch <= d + 1 /\ d + 1 <= 2 * curbatch + 1
    BY <1>8
  <2> QED
    BY <1>1, <1>2, <1>6, <1>7, <1>8, <2>1, <2>2 DEF CountsInv, Last, NoReport, Numeric
<1>10. Dispatches(d + 1)'
  BY <1>2, <1>3, <1>9 DEF Dispatches
<1>11. d + 1 \in 0 .. Last(batch)
  BY <1>3, <1>4 DEF Last
<1> QED
  BY <1>1, <1>2, <1>4, <1>6, <1>10, <1>11, RunInvStep DEF RunInv

\* stopStatistic enters the totals of the batch whose window ends, in its place.
LEMMA RunInvStopStatistic == ASSUME Inv, RunInv, StopStatistic PROVE RunInv'
<1>1. /\ Dispatched("stopStatistic") /\ curbatch' = curbatch + 1
      /\ delay' = IF delay = "NaN" THEN "NaN" ELSE Quotient(Total)
      /\ UNCHANGED <<totalpacket, report, drawing, active, heard>>
  BY DEF StopStatistic, NextBatch
<1>2. /\ InRun /\ InRun' /\ phase = "running" /\ phase' = "running" /\ drawing = 0
      /\ UNCHANGED <<batch, nodenum, started>> /\ clock' \in Nat
  BY <1>1, DispatchedEvent
<1>3. PICK d \in 0 .. Last(batch) : /\ Dispatches(d) /\ d < Last(batch) /\ QueueInv(d + 1)'
                                    /\ Milestone(batch, d + 1).what = "stopStatistic"
  BY <1>1, DispatchedEvent
<1>4. batch \in Nat /\ nodenum \in Nat /\ Sources = 1 .. nodenum
  BY <1>2, SourcesInRun DEF RunInv
<1>5. PICK i \in 1 .. batch : d + 1 = 2 * i
  <2>1. d + 1 \in 1 .. Last(batch)
    BY <1>3, <1>4 DEF Last
  <2> QED
    BY <1>3, <1>4, <2>1, MilestoneKind
<1>6. CountsInv(d)
  BY <1>3 DEF Dispatches
<1>7. /\ curbatch \in Nat /\ curbatch < batch /\ curbatch + 1 \in 1 .. batch
      /\ d = 2 * curbatch + 1 /\ Total = heard[curbatch + 1] /\ throughput[curbatch + 1] = 0
      /\ Total \in Nat /\ d # Last(batch) /\ d + 1 # Last(batch)
  <2>1. curbatch \in Nat /\ 2 * curbatch <= d /\ d <= 2 * curbatch + 1
    BY <1>6 DEF CountsInv
  <2>2. curbatch < batch /\ curbatch + 1 \in 1 .. batch /\ d = 2 * curbatch + 1
        /\ d # Last(batch) /\ d + 1 # Last(batch)
    BY <1>3, <1>4, <1>5, <2>1 DEF Last
  <2>3. Total = heard[curbatch + 1] /\ throughput[curbatch + 1] = 0
        /\ heard[curbatch + 1] \in Nat
    BY <1>3, <1>6, <2>1, <2>2 DEF CountsInv
  <2> QED
    BY <2>1, <2>2, <2>3
<1>8. /\ throughput' = [throughput EXCEPT ![curbatch + 1] = heard[curbatch + 1]]
      /\ overrun' = overrun
  BY <1>7 DEF StopStatistic
<1>9. CountsInv(d + 1)'
  <2>1. throughput' \in [1 .. batch -> Nat] /\ heard' \in [1 .. batch -> Nat]
    BY <1>1, <1>6, <1>7, <1>8 DEF CountsInv
  <2>2. \A j \in 1 .. batch : throughput'[j] = IF j <= curbatch + 1 THEN heard[j] ELSE 0
    <3>1. ASSUME NEW j \in 1 .. batch
          PROVE  throughput'[j] = IF j <= curbatch + 1 THEN heard[j] ELSE 0
      <4>1. throughput \in [1 .. batch -> Nat]
            /\ throughput[j] = IF j <= curbatch THEN heard[j] ELSE 0
        BY <1>6 DEF CountsInv
      <4>2. CASE j = curbatch + 1
        BY <1>7, <1>8, <4>1, <4>2
      <4>3. CASE j # curbatch + 1
        BY <1>7, <1>8, <4>1, <4>3
      <4> QED
        BY <4>2, <4>3
    <3> QED
      BY <3>1
  <2>3. \A j \in 1 .. batch : d + 1 < 2 * j - 1 => heard[j] = 0
    BY <1>6 DEF CountsInv
  <2>4. 2 * (curbatch + 1) = d + 1
    BY <1>7
  <2>5. delay' \in Numeric /\ (delay' = "number" <=> \A j \in 1 .. curbatch + 1 : heard[j] > 0)
    <3>1. delay \in Numeric /\ (delay = "number" <=> \A j \in 1 .. curbatch : heard[j] > 0)
      BY <1>6 DEF CountsInv
    <3>2. \A j \in 1 .. curbatch + 1 : j \in 1 .. curbatch \/ j = curbatch + 1
      BY <1>7
    <3>3. \A j \in 1 .. curbatch : j \in 1 .. curbatch + 1
      BY <1>7
    <3>4. curbatch + 1 \in 1 .. curbatch + 1
      BY <1>7
    <3>5. delay' = "number" <=> delay = "number" /\ heard[curbatch + 1] > 0
      BY <1>1, <1>7, <3>1 DEF Numeric, Quotient
    <3>6. delay' \in Numeric
      BY <1>1, <3>1 DEF Numeric, Quotient
    <3> QED
      BY <3>1, <3>2, <3>3, <3>4, <3>5, <3>6
  <2>6. report' = NoReport
    BY <1>1, <1>6, <1>7 DEF CountsInv
  <2> QED
    BY <1>1, <1>2, <1>7, <2>1, <2>2, <2>3, <2>4, <2>5, <2>6 DEF CountsInv, Last, NoReport, Numeric
<1>10. Dispatches(d + 1)'
  BY <1>2, <1>3, <1>9 DEF Dispatches
<1>11. d + 1 \in 0 .. Last(batch)
  BY <1>3, <1>4 DEF Last
<1> QED
  BY <1>1, <1>2, <1>4, <1>8, <1>10, <1>11, RunInvStep DEF RunInv

\* stopSimulation reports when every batch is in the books.
LEMMA RunInvStopSimulation == ASSUME Inv, RunInv, StopSimulation PROVE RunInv'
<1>1. /\ Dispatched("stopSimulation") /\ active' = Stopped
      /\ report' = [delay |-> delay, interval |-> Quotient(batch - 1)]
      /\ UNCHANGED <<totalpacket, throughput, curbatch, delay, overrun, drawing, heard>>
  BY DEF StopSimulation
<1>2. /\ InRun /\ InRun' /\ phase = "running" /\ phase' = "running" /\ drawing = 0
      /\ UNCHANGED <<batch, nodenum, started>> /\ clock' \in Nat
  BY <1>1, DispatchedEvent
<1>3. PICK d \in 0 .. Last(batch) : /\ Dispatches(d) /\ d < Last(batch) /\ QueueInv(d + 1)'
                                    /\ Milestone(batch, d + 1).what = "stopSimulation"
  BY <1>1, DispatchedEvent
<1>4. batch \in Nat /\ nodenum \in Nat /\ Sources = 1 .. nodenum
  BY <1>2, SourcesInRun DEF RunInv
<1>5. d + 1 = Last(batch) /\ d + 1 \in 0 .. Last(batch)
  <2>1. d + 1 \in 1 .. Last(batch)
    BY <1>3, <1>4 DEF Last
  <2> QED
    BY <1>3, <1>4, <2>1, MilestoneKind
<1>6. CountsInv(d)
  BY <1>3 DEF Dispatches
<1>7. CountsInv(d + 1)'
  <2>1. curbatch \in Nat /\ curbatch = batch /\ d = 2 * curbatch
    BY <1>4, <1>5, <1>6 DEF CountsInv, Last
  <2>2. \A j \in 1 .. batch : ~ (d + 1 < 2 * j - 1)
    BY <1>4, <2>1
  <2>3. 2 * curbatch <= d + 1 /\ d + 1 <= 2 * curbatch + 1
    BY <2>1
  <2> QED
    BY <1>1, <1>2, <1>5, <1>6, <2>1, <2>2, <2>3 DEF CountsInv, Last, Numeric, Quotient
<1>8. Dispatches(d + 1)'
  BY <1>2, <1>3, <1>7 DEF Dispatches
<1>9. active' \in [1 .. nodenum -> BOOLEAN]
  BY <1>1, <1>4 DEF Stopped, RunInv
<1> QED
  BY <1>1, <1>2, <1>4, <1>5, <1>8, <1>9, RunInvStep DEF RunInv

\* A packet passed up is counted at its destination, and in the window that
\* the clock is in.
LEMMA RunInvEndService == ASSUME Inv, RunInv, EndService PROVE RunInv'
<1>1. /\ Dispatched("service")
      /\ Receive(Head(queue).dst) \/ UNCHANGED <<totalpacket, heard>>
      /\ drawing' = IF active[Head(queue).node] THEN Head(queue).node ELSE 0
      /\ UNCHANGED <<throughput, curbatch, delay, report, overrun, active>>
  BY DEF EndService
<1>2. /\ InRun /\ InRun' /\ phase = "running" /\ phase' = "running" /\ drawing = 0
      /\ UNCHANGED <<batch, nodenum, started>> /\ clock' \in Nat
  BY <1>1, DispatchedEvent
<1>3. batch \in Nat /\ nodenum \in Nat /\ Sources = 1 .. nodenum /\ IsFiniteSet(1 .. nodenum)
      /\ Len(nodes) = nodenum
  BY <1>2, SourcesInRun DEF RunInv
<1>4. PICK d \in 0 .. Last(batch) :
         /\ Dispatches(d) /\ Head(queue) \in Services(nodenum) /\ QueueInv(d)'
         /\ d > 0 => Milestone(batch, d).time <= clock'
         /\ d < Last(batch) => clock' < Milestone(batch, d + 1).time
  <2>1. \A k \in 0 .. Last(batch) : k < Last(batch) => Milestone(batch, k + 1).what # "service"
    <3>1. \A k \in 0 .. Last(batch) : k < Last(batch) => k + 1 \in 1 .. Last(batch)
      BY <1>3 DEF Last
    <3> QED
      BY <1>3, <3>1, MilestonesInOrder
  <2> QED
    BY <1>1, <2>1, DispatchedEvent
<1>5. CountsInv(d)
  BY <1>4 DEF Dispatches
<1>6. \A i \in 1 .. batch : Opens(i) <= clock' /\ clock' < Closes(i)
                            <=> i = curbatch + 1 /\ 2 * curbatch < d /\ d < Last(batch)
  <2>1. curbatch \in Nat /\ 2 * curbatch <= d /\ d <= 2 * curbatch + 1
    BY <1>5 DEF CountsInv
  <2> QED
    BY <1>2, <1>3, <1>4, <2>1, WindowOfClock
<1>7. CountsInv(d)' /\ totalpacket' \in [1 .. nodenum -> Nat]
  <2>0. totalpacket \in [1 .. nodenum -> Nat]
    BY <1>3 DEF RunInv
  <2>1. CASE UNCHANGED <<totalpacket, heard>>
    BY <1>1, <1>2, <1>5, <2>0, <2>1, CountsKept
  <2>2. CASE Receive(Head(queue).dst)
    <3> DEFINE a == At(Head(queue).dst)
    <3>1. a \in 1 .. nodenum
      <4>1. Head(queue).dst + 1 \in DOMAIN nodes /\ DOMAIN nodes = 1 .. nodenum
            /\ nodes[Head(queue).dst + 1].mac = Head(queue).dst
        <5>1. Head(queue).dst \in 0 .. nodenum - 1
          BY <1>4 DEF Services
        <5>2. DOMAIN nodes = 1 .. nodenum /\ \A i \in DOMAIN nodes : nodes[i].mac = i - 1
          BY <1>2, <1>3 DEF Inv, NodesAreNumbered, TopologyTypeOK, Used
        <5> QED
          BY <1>3, <5>1, <5>2
      <4> QED
        BY <4>1 DEF At
    <3> HIDE DEF a
    <3>2. totalpacket' = [totalpacket EXCEPT ![a] = @ + 1]
      BY <2>2 DEF Receive, a
    <3>3. heard' = [i \in DOMAIN heard |->
                      heard[i] + (IF Opens(i) <= clock' /\ clock' < Closes(i) THEN 1 ELSE 0)]
      BY <2>2 DEF Receive
    <3>4. Total' = Total + 1 /\ totalpacket' \in [1 .. nodenum -> Nat]
      <4>1. FoldFunction(+, 0, totalpacket') = FoldFunction(+, 0, totalpacket) + 1
        BY <1>3, <2>0, <3>1, <3>2, SumPlusOne
      <4>2. totalpacket' \in [1 .. nodenum -> Nat]
        BY <2>0, <3>1, <3>2
      <4> QED
        BY <4>1, <4>2, TotalIsSum, Zenon
    <3>5. heard \in [1 .. batch -> Nat] /\ curbatch \in Nat
          /\ 2 * curbatch <= d /\ d <= 2 * curbatch + 1
      BY <1>5 DEF CountsInv
    <3>6. heard' = [i \in 1 .. batch |-> heard[i] +
                      (IF i = curbatch + 1 /\ 2 * curbatch < d /\ d < Last(batch) THEN 1 ELSE 0)]
      BY <1>6, <3>3, <3>5
    <3>7. heard' \in [1 .. batch -> Nat]
      BY <3>5, <3>6
    <3>8. \A i \in 1 .. curbatch : i \in 1 .. batch /\ heard'[i] = heard[i]
      <4>1. \A i \in 1 .. curbatch : i \in 1 .. batch /\ i # curbatch + 1
        BY <1>3, <3>5 DEF Last
      <4> QED
        BY <3>5, <3>6, <4>1
    <3>9. \A i \in 1 .. batch : d < 2 * i - 1 => heard'[i] = 0
      <4>1. ASSUME NEW i \in 1 .. batch, d < 2 * i - 1 PROVE heard'[i] = 0
        <5>1. heard[i] = 0
          BY <1>5, <4>1 DEF CountsInv
        <5>2. ~ (i = curbatch + 1 /\ 2 * curbatch < d)
          BY <3>5, <4>1
        <5> QED
          BY <3>6, <5>1, <5>2
      <4> QED
        BY <4>1
    <3>10. 2 * curbatch < d /\ d < Last(batch) => Total' = heard'[curbatch + 1]
      <4>1. ASSUME 2 * curbatch < d, d < Last(batch) PROVE Total' = heard'[curbatch + 1]
        <5>1. curbatch + 1 \in 1 .. batch
          BY <1>3, <3>5, <4>1 DEF Last
        <5>2. Total = heard[curbatch + 1]
          BY <1>5, <4>1 DEF CountsInv
        <5> QED
          BY <3>4, <3>6, <4>1, <5>1, <5>2
      <4> QED
        BY <4>1
    <3>11. \A i \in 1 .. batch : throughput'[i] = IF i <= curbatch THEN heard'[i] ELSE 0
      <4>1. \A i \in 1 .. batch : throughput[i] = IF i <= curbatch THEN heard[i] ELSE 0
        BY <1>5 DEF CountsInv
      <4>2. \A i \in 1 .. batch : i <= curbatch => i \in 1 .. curbatch
        BY <3>5
      <4> QED
        BY <1>1, <3>8, <4>1, <4>2
    <3>12. delay \in Numeric /\ (delay = "number" <=> \A i \in 1 .. curbatch : heard'[i] > 0)
      <4>1. delay \in Numeric /\ (delay = "number" <=> \A i \in 1 .. curbatch : heard[i] > 0)
        BY <1>5 DEF CountsInv
      <4> QED
        BY <3>8, <4>1
    <3>13. throughput \in [1 .. batch -> Nat]
           /\ report = IF d = Last(batch) THEN [delay |-> delay, interval |-> Quotient(batch - 1)]
                       ELSE NoReport
      BY <1>5 DEF CountsInv
    <3>14. CountsInv(d)'
      BY <1>1, <1>2, <3>5, <3>7, <3>9, <3>10, <3>11, <3>12, <3>13
         DEF CountsInv, Last, NoReport, Numeric, Quotient
    <3> QED
      BY <3>4, <3>14
  <2> QED
    BY <1>1, <2>1, <2>2
<1>8. Dispatches(d)'
  BY <1>2, <1>4, <1>7 DEF Dispatches
<1>9. drawing' \in 0 .. nodenum
  BY <1>1, <1>3, <1>4 DEF Services
<1> QED
  BY <1>1, <1>2, <1>3, <1>7, <1>8, <1>9, RunInvStep DEF RunInv

\* A step that changes nothing, as drawing the host itself or leaving main.
LEMMA RunInvStutter == ASSUME RunInv, UNCHANGED vars PROVE RunInv'
<1>1. /\ UNCHANGED <<phase, nodenum>> /\ UNCHANGED statistics /\ UNCHANGED run
  BY DEF vars, topology
<1>2. CASE InRun
  <2>1. PICK d \in 0 .. Last(batch) : Dispatches(d)
    BY <1>2 DEF RunInv
  <2>2. Dispatches(d)'
    BY <1>1, <2>1, QueueKept, CountsKept DEF Dispatches, statistics, run
  <2>3. d \in 0 .. Last(batch)' /\ Sources' = Sources /\ InRun'
    BY <1>1, <1>2 DEF run, Last, Sources, InRun
  <2> QED
    BY <1>1, <1>2, <2>2, <2>3 DEF RunInv, statistics, run
<1>3. CASE ~ InRun
  <2>1. Sources' = Sources /\ ~ InRun'
    BY <1>1, <1>3 DEF Sources, InRun
  <2>2. NotRun'
    BY <1>1, <1>3 DEF RunInv, NotRun, NoReport, statistics, run
  <2> QED
    BY <1>1, <1>3, <2>1, <2>2 DEF RunInv, statistics, run
<1> QED
  BY <1>2, <1>3

\* Every step of the program keeps the invariant.
LEMMA RunInvNext == Inv /\ RunInv /\ [Next]_vars => RunInv'
<1> SUFFICES ASSUME Inv, RunInv, [Next]_vars PROVE RunInv'
  OBVIOUS
<1>1. ASSUME NEW n \in NodeCounts, NEW b \in BatchCounts, Construct(n, b)
      PROVE  RunInv'
  BY <1>1, RunInvConstruct
<1>2. CASE Build \/ Delete \/ TakeDown
  BY <1>2, RunInvBuild, RunInvDelete, RunInvTakeDown
<1>3. CASE Run \/ StartSource \/ StartEvents \/ Return
  BY <1>3, RunInvRun, RunInvStartSource, RunInvStartEvents, RunInvReturn
<1>4. CASE Draw
  BY <1>4, RunInvDraw
<1>5. CASE StartStatistic \/ StopStatistic
  BY <1>5, RunInvStartStatistic, RunInvStopStatistic
<1>6. CASE StopSimulation \/ EndService
  BY <1>6, RunInvStopSimulation, RunInvEndService
<1>7. CASE Redraw \/ Exit \/ UNCHANGED vars
  BY <1>7, RunInvStutter DEF Redraw, Exit
<1> QED
  BY <1>1, <1>2, <1>3, <1>4, <1>5, <1>6, <1>7 DEF Next

-----------------------------------------------------------------------------
(* What the invariant says *)

\* Everything has its type, and no event is behind the clock.
LEMMA RunInvTypes == Inv /\ RunInv => TypeOK
<1> SUFFICES ASSUME Inv, RunInv PROVE TypeOK
  OBVIOUS
<1>1. \A E, r : \A l \in Nat : r \in [1 .. l -> E] => r \in Seq(E)
  OBVIOUS
<1>2. active \in Seq(BOOLEAN) /\ totalpacket \in Seq(Nat)
  <2>1. PICK l \in Nat : Sources = 1 .. l
    BY DEF Sources, Inv, TopologyTypeOK
  <2> QED
    BY <1>1, <2>1 DEF RunInv
<1>3. CASE InRun
  <2>1. PICK d \in 0 .. Last(batch) : Dispatches(d)
    BY <1>3 DEF RunInv
  <2>2. \A k \in DOMAIN queue : queue[k].time >= clock
    <3>1. queue \in Seq(Events) /\ \A k \in DOMAIN queue : clock <= queue[k].time
      BY <2>1 DEF Dispatches, QueueInv
    <3>2. \A e \in Events : e.time \in Nat
      BY DEF Events
    <3>3. \A k \in DOMAIN queue : queue[k] \in Events
      BY <3>1, ElementOfSeq
    <3> QED
      BY <3>1, <3>2, <3>3 DEF RunInv
  <2>3. throughput \in Seq(Nat) /\ heard \in Seq(Nat) /\ curbatch \in Nat /\ delay \in Numeric
    BY <1>1, <2>1 DEF Dispatches, CountsInv, RunInv
  <2>4. report.delay \in Numeric \cup {"none"} /\ report.interval \in Numeric \cup {"none"}
    BY <2>1, <2>3 DEF Dispatches, CountsInv, NoReport, Quotient, Numeric
  <2> QED
    BY <1>2, <2>2, <2>3, <2>4 DEF TypeOK, RunInv, Inv
<1>4. CASE ~ InRun
  <2>1. NotRun
    BY <1>4 DEF RunInv
  <2> QED
    BY <1>2, <2>1 DEF NotRun, TypeOK, RunInv, Inv, NoReport, Numeric
<1> QED
  BY <1>3, <1>4

\* There is a report only behind the last at-event.
LEMMA ReportIsLast ==
    ASSUME RunInv, report # NoReport
    PROVE  /\ batch \in Nat /\ batch > 0 /\ curbatch = batch
           /\ delay \in Numeric /\ (delay = "number" <=> \A i \in 1 .. batch : heard[i] > 0)
           /\ heard \in [1 .. batch -> Nat]
           /\ report = [delay |-> delay, interval |-> Quotient(batch - 1)]
<1>1. InRun
  BY DEF RunInv, NotRun
<1>2. batch \in Nat /\ batch > 0
  BY <1>1 DEF RunInv, InRun
<1>3. PICK d \in 0 .. Last(batch) : CountsInv(d)
  BY <1>1 DEF RunInv, Dispatches
<1>4. d = Last(batch)
  BY <1>3 DEF CountsInv
<1>5. curbatch = batch
  BY <1>2, <1>3, <1>4 DEF CountsInv, Last
<1> QED
  BY <1>2, <1>3, <1>4, <1>5 DEF CountsInv

\* The three properties of the statistics.
LEMMA RunInvImplies ==
    ASSUME RunInv
    PROVE  BatchesCountTheirWindow /\ EveryBatchIsWrittenOnce /\ ReportIsNumeric
<1>1. BatchesCountTheirWindow
  BY DEF RunInv, InRun, Dispatches, CountsInv, BatchesCountTheirWindow
<1>2. EveryBatchIsWrittenOnce
  BY ReportIsLast DEF RunInv, EveryBatchIsWrittenOnce
<1>3. ReportIsNumeric
  <2> SUFFICES ASSUME report # NoReport
               PROVE  /\ (report.delay = "number") <=> \A i \in 1 .. batch : heard[i] > 0
                      /\ (report.interval = "number") <=> batch > 1
    BY DEF ReportIsNumeric
  <2>1. report.delay = delay /\ report.interval = Quotient(batch - 1)
    BY ReportIsLast
  <2>2. batch \in Nat /\ batch > 0
    BY ReportIsLast
  <2>3. Quotient(batch - 1) = "number" <=> batch > 1
    BY <2>2 DEF Quotient
  <2> QED
    BY <2>1, <2>3, ReportIsLast
<1> QED
  BY <1>1, <1>2, <1>3

\* Both invariants hold throughout.
LEMMA RunInvAlways == Spec => [](Inv /\ RunInv)
<1> QED
  BY InvInit, InvNext, RunInvInit, RunInvNext, PTL DEF Spec

\* The statistics and the event queue of Simulator::run have their types in
\* every simulation of a program, and Scheduler::run never goes back in time.
THEOREM RunTypeCorrect == Spec => []TypeOK
<1> QED
  BY RunInvAlways, RunInvTypes, PTL

\* For every number of batches and of nodes, and every length of a batch, the
\* throughput of a finished batch is what Traffic::recv counted in its window.
THEOREM BatchesCounted == Spec => []BatchesCountTheirWindow
<1> QED
  BY RunInvAlways, RunInvImplies, PTL

\* stopStatistic never writes behind the end of throughput_, and the report is
\* made when it has written all of it.
THEOREM WrittenOnce == Spec => []EveryBatchIsWrittenOnce
<1> QED
  BY RunInvAlways, RunInvImplies, PTL

\* The delay and the confidence intervals in the log file are numbers in
\* exactly the runs that ReportIsNumeric names.
THEOREM ReportNumeric == Spec => []ReportIsNumeric
<1> QED
  BY RunInvAlways, RunInvImplies, PTL
=============================================================================
