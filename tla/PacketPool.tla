----------------------------- MODULE PacketPool -----------------------------
(***************************************************************************)
(* Packet::alloc, copy and free (packet.cc): the packets of the program    *)
(* and the list of those that are free.  A packet is the number it was     *)
(* made with; 0 is the null pointer.                                       *)
(***************************************************************************)
EXTENDS Integers, Sequences

Packets == Nat \ {0}

\* made packets exist, free is Packet::free_ with its next_ links, used are
\* the packets with fflag_, queued those with a positive uid_, which are in
\* the event queue.  failed: an assertion of alloc or free, or the test of
\* Scheduler::schedule for a packet that is queued already, has failed.
Pool == [ made : Nat, free : Seq(Packets), used : SUBSET Packets,
          queued : SUBSET Packets, failed : BOOLEAN ]

EmptyPool == [ made |-> 0, free |-> <<>>, used |-> {}, queued |-> {},
               failed |-> FALSE ]

\* The packet alloc will return: the head of the free list, or a new one.
Allocated(pool) == IF pool.free # <<>> THEN Head(pool.free) ELSE pool.made + 1

\* Packet::alloc.  The header is cleared in both cases.
AllocPacket(pool) ==
    LET p == Allocated(pool)
    IN  IF pool.free = <<>>
        THEN [pool EXCEPT !.made = p, !.used = @ \cup {p}]
        ELSE [pool EXCEPT !.free = Tail(@), !.used = @ \cup {p},
                          !.queued = @ \ {p},
                          !.failed = @ \/ p \in pool.used]

\* Faulty variant: fflag_ is not looked at.
FreePacket_unguarded(pool, p) ==
    [pool EXCEPT !.free = <<p>> \o @, !.used = @ \ {p}]

\* Packet::free; ref_count_ is always 0, nothing calls refcopy.  A packet that
\* is free already stays as it is.
FreePacket(pool, p) ==
    IF p \in pool.used
    THEN [pool EXCEPT !.free = <<p>> \o @, !.used = @ \ {p},
                      !.failed = @ \/ p \in pool.queued]
    ELSE pool

\* Scheduler::schedule and Scheduler::dispatch of a packet.
Enqueue(pool, p) ==
    [pool EXCEPT !.queued = @ \cup {p}, !.failed = @ \/ p \in pool.queued]
Dequeue(pool, p) == [pool EXCEPT !.queued = @ \ {p}]
=============================================================================
