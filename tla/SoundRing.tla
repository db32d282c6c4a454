----------------------------- MODULE SoundRing -----------------------------
(***************************************************************************)
(* Sound output: the ring of packets of rdpsnd.c, which every driver uses. *)
(* Packets enter at queue_hi, go to the device at queue_lo and are         *)
(* acknowledged at queue_pending, once the time they need for playing has  *)
(* passed.                                                                 *)
(***************************************************************************)
EXTENDS Integers, Sequences

CONSTANTS
    MaxQueue,      \* MAX_QUEUE, the slots of the ring
    IndexCount,    \* the server numbers its packets modulo this (256)
    Formats,       \* the negotiated wave formats
    Lengths,       \* lengths of packets, in bytes
    MaxDelay       \* the longest time a packet plays after it was copied, in ticks

ASSUME QueueAssumption == MaxQueue \in Nat /\ MaxQueue >= 2
ASSUME IndexAssumption == IndexCount \in Nat \ {0}
ASSUME FormatAssumption == Formats # {}
ASSUME LengthAssumption == Lengths \subseteq Nat \ {0}
ASSUME DelayAssumption == MaxDelay \in Nat

VARIABLES
    queue,                 \* packet_queue with queue_hi, queue_lo and queue_pending
    current_driver,        \* is one selected?
    rdpsnd_negotiated,
    device_open,
    current_format,
    block,                 \* the number of the server's next packet
    answered               \* the completions sent by the last step

deviceVars == <<current_driver, rdpsnd_negotiated, device_open, current_format>>
ringVars == <<queue, deviceVars, block, answered>>

Indexes == 0..(IndexCount - 1)
Slots == 0..(MaxQueue - 1)

\* "left" is what is still to be copied, "due" the time until completion_tv.
Packets == [index : Indexes, format : Formats, left : Nat, due : 0..MaxDelay]
Free == [index |-> 0, format |-> CHOOSE f \in Formats : TRUE, left |-> 0, due |-> 0]

(* The ring *)

Distance(from, to) == (to - from) % MaxQueue
Move(slot, k) == (slot + k) % MaxQueue

\* Is the slot in use: waiting to be copied, or to be acknowledged?
Waiting(q, slot) == Distance(q.lo, slot) < Distance(q.lo, q.hi)
InUse(q, slot) == Distance(q.pending, slot) < Distance(q.pending, q.hi)

EmptyQueue == [packets |-> [slot \in Slots |-> Free], hi |-> 0, lo |-> 0, pending |-> 0]

\* Slots given back are overwritten, so that states do not differ in dead data.
Cleaned(q) ==
    [q EXCEPT !.packets = [slot \in Slots |-> IF InUse(q, slot) THEN q.packets[slot] ELSE Free]]

\* Mutation: only packets not yet copied count as using the ring.
QueueWriteOverPending(q, packet) ==
    IF Move(q.hi, 1) = q.lo THEN q
    ELSE [q EXCEPT !.packets[q.hi] = packet, !.hi = Move(q.hi, 1)]

\* A full ring drops the packet, and nobody tells the server.
rdpsnd_queue_write(q, packet) ==
    IF Move(q.hi, 1) = q.pending THEN q
    ELSE [q EXCEPT !.packets[q.hi] = packet, !.hi = Move(q.hi, 1)]

\* The number of packets that can be acknowledged: copied and due, and all
\* before them too.
Completed(q) ==
    CHOOSE k \in 0..Distance(q.pending, q.lo) :
        /\ \A j \in 0..(k - 1) : q.packets[Move(q.pending, j)].due = 0
        /\ k = Distance(q.pending, q.lo) \/ q.packets[Move(q.pending, k)].due > 0

\* Mutation: the last packet of the batch stays in the ring.
LeaveOnePending(q) ==
    Cleaned([q EXCEPT !.pending = IF Completed(q) = 0 THEN @ ELSE Move(@, Completed(q) - 1)])

rdpsnd_queue_complete_pending(q) ==
    Cleaned([q EXCEPT !.pending = Move(@, Completed(q))])

rdpsnd_queue_next(q, delay) ==
    rdpsnd_queue_complete_pending(
        [q EXCEPT !.packets[q.lo].due = delay, !.packets[q.lo].left = 0, !.lo = Move(@, 1)])

\* rdpsnd_queue_next(0) k times.
NextAtOnce(q, k) ==
    rdpsnd_queue_complete_pending(
        [q EXCEPT !.packets = [slot \in Slots |->
                                  IF Distance(q.lo, slot) < k
                                  THEN [q.packets[slot] EXCEPT !.due = 0, !.left = 0]
                                  ELSE q.packets[slot]],
                  !.lo = Move(q.lo, k)])

\* Mutation: the driver is closed and keeps its packets.
KeepAll(q) == q

\* Closing a driver: every packet not yet copied counts as played.
AckAll(q) == NextAtOnce(q, Distance(q.lo, q.hi))

\* The completions sent while q became r.
Answers(q, r) ==
    [k \in 1..Distance(q.pending, r.pending) |-> q.packets[Move(q.pending, k - 1)].index]

RingInit ==
    /\ queue = EmptyQueue
    /\ current_driver = FALSE
    /\ rdpsnd_negotiated = FALSE
    /\ device_open = FALSE
    /\ current_format \in Formats
    /\ block = 0
    /\ answered = <<>>

\* Time passes for the packets that were copied.
QueueTick ==
    /\ \E slot \in Slots : queue.packets[slot].due > 0
    /\ queue' = [queue EXCEPT !.packets = [slot \in Slots |->
                    [queue.packets[slot] EXCEPT !.due = IF @ > 0 THEN @ - 1 ELSE 0]]]
    /\ answered' = <<>>
    /\ UNCHANGED <<deviceVars, block>>

-----------------------------------------------------------------------------
(* Properties, the same for every driver *)

RingTypeOK ==
    /\ DOMAIN queue = {"packets", "hi", "lo", "pending"}
    /\ queue.packets \in [Slots -> Packets]
    /\ queue.hi \in Slots /\ queue.lo \in Slots /\ queue.pending \in Slots
    /\ current_driver \in BOOLEAN
    /\ rdpsnd_negotiated \in BOOLEAN
    /\ device_open \in BOOLEAN
    /\ current_format \in Formats
    /\ block \in Indexes
    /\ answered \in Seq(Indexes)

\* The three positions of the ring keep their order: what waits to be copied is
\* part of what waits to be acknowledged.
RingInOrder == Distance(queue.pending, queue.lo) <= Distance(queue.pending, queue.hi)

\* Every packet of the ring was queued in the format that is current now.
OfCurrentFormat ==
    \A slot \in Slots : Waiting(queue, slot) => queue.packets[slot].format = current_format

\* Every packet that was queued is acknowledged once, in order of arrival.
waiting ==
    [k \in 1..Distance(queue.pending, queue.hi) |-> queue.packets[Move(queue.pending, k - 1)].index]
Promise == INSTANCE SoundPromise
CompletionsInOrder == Promise!Spec
=============================================================================
