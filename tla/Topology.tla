------------------------------ MODULE Topology ------------------------------
(***************************************************************************)
(* The objects of a simulation: what the constructors of Simulator, Node,  *)
(* Channel, WirelessPhy, Mac802_11 and Traffic build and their destructors *)
(* take down.  Every class numbers its objects from a static counter that  *)
(* the constructor moves up and the destructor down, so the addresses of   *)
(* one simulation depend on what the simulations before it left behind.    *)
(* As in main, one simulation is built after the other is gone.            *)
(***************************************************************************)
EXTENDS Integers, Sequences

CONSTANTS
    NodeCounts,   \* the sizes main builds, arguments nodenum
    Lifetimes     \* bound of the simulations of one program

ASSUME TopologyAssumption == NodeCounts \subseteq Nat \ {0} /\ Lifetimes \in Nat

VARIABLES
    index,         \* the static counters
    phase,         \* where the simulation is
    nodenum,       \* Simulator::nodenum_ and Mac802_11::cache_node_count_
    interfacenum,  \* Simulator::interfacenum_
    channel,       \* the index of the one Channel
    nodes,         \* Simulator::nodes_, in the order of its keys
    built          \* how many simulations have been built

topology == <<index, phase, nodenum, interfacenum, channel, nodes, built>>

Classes == {"Channel", "Node", "Interface", "Mac", "Traffic"}
Phases == {"none", "building", "ready", "starting", "running", "returned", "deleting"}

\* A node with its interface: their indexes, or -1 without an interface.
NodeRecord == [ node : Nat, interface : Int, mac : Int, traffic : Int ]

TopologyInit ==
    /\ index = [c \in Classes |-> IF c = "Channel" THEN 1 ELSE 0]
    /\ phase = "none"
    /\ nodenum = 0 /\ interfacenum = 0 /\ channel = 0
    /\ nodes = <<>>
    /\ built = 0

\* Simulator::Simulator up to its loop.
NewSimulator(n) ==
    /\ phase = "none" /\ built < Lifetimes
    /\ phase' = "building"
    /\ nodenum' = n /\ interfacenum' = 0
    /\ channel' = index["Channel"]
    /\ index' = [index EXCEPT !["Channel"] = @ + 1]
    /\ nodes' = <<>>
    /\ built' = built + 1

\* Node::addInterface, which goes back empty-handed when the simulation has
\* no channel of index 1.
Interface ==
    IF channel = 1
    THEN {"Interface", "Mac", "Traffic"}
    ELSE {}

\* One round of the constructor's loop: new Node, and insert by its index.
NewNode ==
    /\ phase = "building"
    /\ LET made == {"Node"} \cup Interface
           no(c) == IF c \in made THEN index[c] ELSE -1
       IN  /\ nodes' = Append(nodes, [ node |-> no("Node"), interface |-> no("Interface"),
                                       mac |-> no("Mac"), traffic |-> no("Traffic") ])
           /\ index' = [c \in Classes |-> index[c] + (IF c \in made THEN 1 ELSE 0)]
           /\ interfacenum' = interfacenum + (IF Interface = {} THEN 0 ELSE 1)
    /\ phase' = IF Len(nodes') = nodenum THEN "ready" ELSE "building"
    /\ UNCHANGED <<nodenum, channel, built>>

\* Faulty variant: the MAC's destructor leaves its counter.
Deleted_keepsMac(record) ==
    {"Node"} \cup (IF record.interface = -1 THEN {} ELSE {"Interface", "Traffic"})

\* The counters that Node::~Node and the destructors it calls move down.
Deleted(record) ==
    {"Node"} \cup (IF record.interface = -1 THEN {} ELSE {"Interface", "Mac", "Traffic"})

\* Simulator::~Simulator for one of the nodes.
DeleteNode ==
    /\ phase = "deleting" /\ nodes # <<>>
    /\ nodes' = Tail(nodes)
    /\ index' = [c \in Classes |-> index[c] - (IF c \in Deleted(Head(nodes)) THEN 1 ELSE 0)]
    /\ UNCHANGED <<phase, nodenum, interfacenum, channel, built>>

\* Simulator::~Simulator for the channel, after the nodes.
DeleteChannel ==
    /\ phase = "deleting" /\ nodes = <<>>
    /\ phase' = "none"
    /\ channel' = 0
    /\ index' = [index EXCEPT !["Channel"] = @ - 1]
    /\ UNCHANGED <<nodenum, interfacenum, nodes, built>>

\* The position of the node that has an address.
At(address) == CHOOSE i \in DOMAIN nodes : nodes[i].mac = address
Address(i) == nodes[i].mac

-----------------------------------------------------------------------------
(* Properties *)

\* Type invariant.
TopologyTypeOK ==
    /\ index \in [Classes -> Nat] /\ phase \in Phases
    /\ nodenum \in Nat /\ interfacenum \in Nat /\ channel \in Nat /\ built \in Nat
    /\ nodes \in Seq(NodeRecord)

\* From the end of the constructor to the destructor the addresses are just
\* the numbers 0 .. interfacenum_ - 1 that genPacket draws from, one for each
\* node, and all below the size of the duplicate filter (mac-802_11.cc:523) -
\* also in the second simulation of a program.
EveryAddressIsAStation ==
    phase \in {"ready", "starting", "running", "returned"} =>
        /\ Len(nodes) = nodenum
        /\ { Address(i) : i \in DOMAIN nodes } = 0 .. interfacenum - 1
        /\ \A i, j \in DOMAIN nodes : Address(i) = Address(j) => i = j
        /\ \A i \in DOMAIN nodes : Address(i) \in 0 .. nodenum - 1
=============================================================================
