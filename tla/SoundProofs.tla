---------------------------- MODULE SoundProofs ----------------------------
(***************************************************************************)
(* Proofs about the sound output of every driver, for rings of every size, *)
(* all formats, lengths and numbers of packets.                            *)
(*                                                                         *)
(* What a driver does to the ring is one of two things: it gives packets   *)
(* back, oldest first (GivesBack), or it takes one in at the other end.    *)
(* The steps of DartDriver and of SoundDrivers are led back to these two.  *)
(*                                                                         *)
(* The device of the other drivers serves its users (Serving): what        *)
(* opening, giving a format, closing and probing it do to that is shown    *)
(* once for all drivers, and then used for each step of rdpsnd.c.          *)
(***************************************************************************)
EXTENDS Sound, ProofLemmas

USE QueueAssumption, IndexAssumption, FormatAssumption, DelayAssumption

-----------------------------------------------------------------------------
(* Positions on the ring *)

LEMMA DistanceIs ==
    ASSUME NEW a \in Slots, NEW b \in Slots
    PROVE  /\ Distance(a, b) = IF b >= a THEN b - a ELSE b - a + MaxQueue
           /\ Distance(a, b) \in Slots /\ Slots \subseteq Nat
BY DEF Distance, Slots

LEMMA MoveIs ==
    ASSUME NEW a \in Slots, NEW k \in 0..MaxQueue
    PROVE  /\ Move(a, k) = IF a + k < MaxQueue THEN a + k ELSE a + k - MaxQueue
           /\ Move(a, k) \in Slots
BY DEF Move, Slots

\* On the way from a to c, b comes first or it does not.
LEMMA Halfway ==
    ASSUME NEW a \in Slots, NEW b \in Slots, NEW c \in Slots, Distance(a, b) <= Distance(a, c)
    PROVE  Distance(b, c) = Distance(a, c) - Distance(a, b)
<1>1. /\ Distance(a, b) = IF b >= a THEN b - a ELSE b - a + MaxQueue
      /\ Distance(a, c) = IF c >= a THEN c - a ELSE c - a + MaxQueue
      /\ Distance(b, c) = IF c >= b THEN c - b ELSE c - b + MaxQueue
    BY DistanceIs
<1> QED
    BY <1>1 DEF Slots

LEMMA OneAfterTheOther ==
    ASSUME NEW a \in Slots, NEW b \in Slots, NEW c \in Slots,
           Distance(a, b) + Distance(b, c) < MaxQueue
    PROVE  Distance(a, c) = Distance(a, b) + Distance(b, c)
<1>1. /\ Distance(a, b) = IF b >= a THEN b - a ELSE b - a + MaxQueue
      /\ Distance(a, c) = IF c >= a THEN c - a ELSE c - a + MaxQueue
      /\ Distance(b, c) = IF c >= b THEN c - b ELSE c - b + MaxQueue
    BY DistanceIs
<1> QED
    BY <1>1 DEF Slots

Queues == [packets : [Slots -> Packets], hi : Slots, lo : Slots, pending : Slots]

Ordered(q) == Distance(q.pending, q.lo) <= Distance(q.pending, q.hi)
Ring(q) == q \in Queues /\ Ordered(q)

\* r is what is left of q when some of the oldest packets are given back, and
\* some, at least those, have been copied.
Kept(q, r) ==
    \A slot \in Slots : InUse(r, slot) =>
        /\ r.packets[slot].index = q.packets[slot].index
        /\ r.packets[slot].format = q.packets[slot].format
GivesBack(q, r) ==
    /\ Ring(r)
    /\ r.hi = q.hi
    /\ Distance(q.pending, r.pending) <= Distance(q.pending, r.lo)
    /\ Distance(q.pending, q.lo) <= Distance(q.pending, r.lo)
    /\ Distance(q.pending, r.lo) <= Distance(q.pending, q.hi)
    /\ Kept(q, r)

LEMMA Within ==
    ASSUME NEW a \in Slots, NEW b \in Slots, NEW c \in Slots, NEW slot \in Slots,
           Distance(a, b) <= Distance(a, c), Distance(b, slot) < Distance(b, c)
    PROVE  Distance(a, slot) < Distance(a, c)
<1>1. /\ Distance(a, b) \in 0..(MaxQueue - 1) /\ Distance(a, c) \in 0..(MaxQueue - 1)
      /\ Distance(b, slot) \in 0..(MaxQueue - 1)
    BY DistanceIs DEF Slots
<1>2. Distance(b, c) = Distance(a, c) - Distance(a, b)
    BY Halfway
<1>3. Distance(a, slot) = Distance(a, b) + Distance(b, slot)
    BY <1>1, <1>2, OneAfterTheOther
<1> QED
    BY <1>1, <1>2, <1>3

\* What is still in use after a packet was given back was in use before.
LEMMA UseShrinks ==
    ASSUME NEW q \in Queues, NEW r \in Queues, r.hi = q.hi,
           Distance(q.pending, r.pending) <= Distance(q.pending, q.hi),
           NEW slot \in Slots, InUse(r, slot)
    PROVE  InUse(q, slot)
BY Within DEF InUse, Queues

\* Giving back twice is giving back.
LEMMA GivesBackAgain ==
    ASSUME NEW q, NEW r, NEW s, Ring(q), GivesBack(q, r), GivesBack(r, s)
    PROVE  GivesBack(q, s)
<1>1. q \in Queues /\ r \in Queues /\ s \in Queues
    BY DEF GivesBack, Ring
<1>2. /\ Distance(q.pending, s.pending) <= Distance(q.pending, s.lo)
      /\ Distance(q.pending, q.lo) <= Distance(q.pending, s.lo)
      /\ Distance(q.pending, s.lo) <= Distance(q.pending, q.hi)
  <2> DEFINE a == q.pending
             al == q.lo
             h == q.hi
             b == r.pending
             bl == r.lo
             c == s.pending
             cl == s.lo
  <2>1. /\ a \in Slots /\ al \in Slots /\ h \in Slots /\ b \in Slots
        /\ bl \in Slots /\ c \in Slots /\ cl \in Slots
    BY <1>1 DEF Queues
  <2>2. /\ Distance(a, b) <= Distance(a, bl) /\ Distance(a, al) <= Distance(a, bl)
        /\ Distance(a, bl) <= Distance(a, h)
        /\ Distance(b, c) <= Distance(b, cl) /\ Distance(b, bl) <= Distance(b, cl)
        /\ Distance(b, cl) <= Distance(b, h)
    BY DEF GivesBack
  <2> HIDE DEF a, al, h, b, bl, c, cl
  <2>3. /\ Distance(a, c) <= Distance(a, cl) /\ Distance(a, al) <= Distance(a, cl)
        /\ Distance(a, cl) <= Distance(a, h)
    <3>1. /\ Distance(a, b) \in 0..(MaxQueue - 1) /\ Distance(a, bl) \in 0..(MaxQueue - 1)
          /\ Distance(a, h) \in 0..(MaxQueue - 1) /\ Distance(b, c) \in 0..(MaxQueue - 1)
          /\ Distance(b, cl) \in 0..(MaxQueue - 1) /\ Distance(a, al) \in 0..(MaxQueue - 1)
      BY <2>1, DistanceIs DEF Slots
    <3>2. Distance(a, b) <= Distance(a, h)
      BY <2>2, <3>1
    <3>3. Distance(b, bl) = Distance(a, bl) - Distance(a, b)
          /\ Distance(b, h) = Distance(a, h) - Distance(a, b)
      BY <2>1, <2>2, <3>2, Halfway
    <3>4. Distance(a, b) + Distance(b, cl) < MaxQueue /\ Distance(a, b) + Distance(b, c) < MaxQueue
      BY <2>2, <3>1, <3>3
    <3>5. Distance(a, cl) = Distance(a, b) + Distance(b, cl)
          /\ Distance(a, c) = Distance(a, b) + Distance(b, c)
      BY <2>1, <3>4, OneAfterTheOther
    <3> QED
      BY <2>2, <3>1, <3>3, <3>5
  <2> QED
    BY <2>3 DEF a, al, h, b, bl, c, cl
<1>3. \A slot \in Slots : InUse(s, slot) => InUse(r, slot)
  <2>1. Distance(r.pending, s.pending) <= Distance(r.pending, r.hi) /\ s.hi = r.hi
    BY <1>1, DistanceIs DEF GivesBack, Queues
  <2> QED
    BY <1>1, <2>1, UseShrinks
<1>4. Kept(q, s)
    BY <1>3 DEF GivesBack, Kept
<1> QED
    BY <1>2, <1>4 DEF GivesBack

-----------------------------------------------------------------------------
(* What the operations do to the ring *)

LEMMA MovedOn ==
    ASSUME NEW a \in Slots, NEW b \in Slots, NEW k \in Nat, Distance(a, b) + k < MaxQueue
    PROVE  Move(b, k) \in Slots /\ Distance(a, Move(b, k)) = Distance(a, b) + k
<1>1. Distance(a, b) \in 0..(MaxQueue - 1) /\ Distance(a, b) = IF b >= a THEN b - a ELSE b - a + MaxQueue
    BY DistanceIs DEF Slots
<1>2. k \in 0..MaxQueue
    BY <1>1
<1> DEFINE c == Move(b, k)
<1>3. c = (IF b + k < MaxQueue THEN b + k ELSE b + k - MaxQueue) /\ c \in Slots
    BY <1>2, MoveIs
<1> HIDE DEF c
<1>4. Distance(a, c) = IF c >= a THEN c - a ELSE c - a + MaxQueue
    BY <1>3, DistanceIs
<1> QED
    BY <1>1, <1>3, <1>4 DEF c, Slots

\* Positions at the same distance are the same.
LEMMA SamePlace ==
    ASSUME NEW a \in Slots, NEW b \in Slots, NEW c \in Slots, Distance(a, b) = Distance(a, c)
    PROVE  b = c
<1>1. /\ Distance(a, b) = IF b >= a THEN b - a ELSE b - a + MaxQueue
      /\ Distance(a, c) = IF c >= a THEN c - a ELSE c - a + MaxQueue
    BY DistanceIs
<1>2. a \in 0..(MaxQueue - 1) /\ b \in 0..(MaxQueue - 1) /\ c \in 0..(MaxQueue - 1)
    BY DEF Slots
<1>3. (IF b >= a THEN b - a ELSE b - a + MaxQueue) = (IF c >= a THEN c - a ELSE c - a + MaxQueue)
    BY <1>1
<1> QED
    BY <1>2, <1>3

LEMMA NoWay ==
    ASSUME NEW a \in Slots
    PROVE  Distance(a, a) = 0
BY DistanceIs DEF Slots

LEMMA GivesBackIf ==
    ASSUME NEW q, Ring(q), NEW r \in Queues, r.hi = q.hi,
           Distance(q.pending, r.pending) <= Distance(q.pending, r.lo),
           Distance(q.pending, q.lo) <= Distance(q.pending, r.lo),
           Distance(q.pending, r.lo) <= Distance(q.pending, q.hi),
           Kept(q, r)
    PROVE  GivesBack(q, r)
<1>1. /\ q.pending \in Slots /\ q.hi \in Slots /\ q.lo \in Slots
      /\ r.pending \in Slots /\ r.hi \in Slots /\ r.lo \in Slots
    BY DEF Ring, Queues
<1>2. /\ Distance(q.pending, r.pending) \in Nat /\ Distance(q.pending, r.lo) \in Nat
      /\ Distance(q.pending, q.hi) \in Nat
    BY <1>1, DistanceIs
<1>3. Distance(r.pending, r.lo) = Distance(q.pending, r.lo) - Distance(q.pending, r.pending)
    BY <1>1, Halfway
<1>4. Distance(r.pending, r.hi) = Distance(q.pending, r.hi) - Distance(q.pending, r.pending)
    BY <1>1, <1>2, Halfway
<1>5. Ordered(r)
    BY <1>2, <1>3, <1>4 DEF Ordered
<1> QED
    BY <1>5 DEF GivesBack, Ring

LEMMA CleanedIs ==
    ASSUME NEW q \in Queues
    PROVE  /\ Cleaned(q) \in Queues
           /\ Cleaned(q).hi = q.hi /\ Cleaned(q).lo = q.lo /\ Cleaned(q).pending = q.pending
           /\ \A slot \in Slots : Cleaned(q).packets[slot] =
                  IF InUse(q, slot) THEN q.packets[slot] ELSE Free
<1>1. Free \in Packets
    BY DEF Free, Packets, Indexes
<1> DEFINE packets == [slot \in Slots |-> IF InUse(q, slot) THEN q.packets[slot] ELSE Free]
<1>2. packets \in [Slots -> Packets]
    BY <1>1 DEF Queues
<1>3. \A slot \in Slots : packets[slot] = IF InUse(q, slot) THEN q.packets[slot] ELSE Free
    OBVIOUS
<1>4. Cleaned(q) = [q EXCEPT !.packets = packets]
    BY DEF Cleaned
<1> HIDE DEF packets
<1> QED
    BY <1>2, <1>3, <1>4 DEF Queues

LEMMA CompletedIs ==
    ASSUME NEW q, Ring(q)
    PROVE  Completed(q) \in 0..Distance(q.pending, q.lo)
<1> DEFINE D == Distance(q.pending, q.lo)
           Late(k) == q.packets[Move(q.pending, k)].due > 0
           S == {k \in 0..D : k = D \/ Late(k)}
<1>1. D \in Nat
    BY DistanceIs DEF Ring, Queues
<1>2. \A k \in 0..D : q.packets[Move(q.pending, k)].due \in Nat
  <2>1. D \in 0..(MaxQueue - 1)
    BY DistanceIs DEF Ring, Queues, Slots
  <2>2. \A k \in 0..D : Move(q.pending, k) \in Slots
    BY <2>1, MoveIs DEF Ring, Queues
  <2> QED
    BY <2>2 DEF Ring, Queues, Packets
<1>3. D \in S /\ S \subseteq Nat
    BY <1>1
<1> HIDE DEF S
<1>4. PICK m \in S : \A n \in S : m <= n
    BY <1>3, Smallest
<1>5. m \in 0..D /\ (m = D \/ Late(m)) /\ \A j \in 0..(m - 1) : q.packets[Move(q.pending, j)].due = 0
  <2>1. m \in 0..D /\ (m = D \/ Late(m))
    BY DEF S
  <2>2. ASSUME NEW j \in 0..(m - 1)
        PROVE  q.packets[Move(q.pending, j)].due = 0
    <3>1. j \in 0..D /\ ~(j \in S)
      BY <1>1, <1>3, <1>4, <2>1
    <3>2. ~Late(j)
      BY <3>1 DEF S
    <3> QED
      BY <1>2, <3>1, <3>2
  <2> QED
    BY <2>1, <2>2
<1> QED
    BY <1>5 DEF Completed

LEMMA CompleteIs ==
    ASSUME NEW q, Ring(q)
    PROVE  /\ GivesBack(q, rdpsnd_queue_complete_pending(q))
           /\ rdpsnd_queue_complete_pending(q).lo = q.lo
<1> DEFINE k == Completed(q)
           moved == [q EXCEPT !.pending = Move(q.pending, k)]
           r == rdpsnd_queue_complete_pending(q)
<1>1. q \in Queues /\ q.pending \in Slots /\ q.hi \in Slots /\ q.lo \in Slots
    BY DEF Ring, Queues
<1>2. /\ k \in 0..Distance(q.pending, q.lo)
      /\ Distance(q.pending, q.lo) \in 0..(MaxQueue - 1)
      /\ Distance(q.pending, q.lo) <= Distance(q.pending, q.hi)
    BY <1>1, CompletedIs, DistanceIs DEF Ring, Ordered, Slots
<1> HIDE DEF k
<1>3. Move(q.pending, k) \in Slots /\ Distance(q.pending, Move(q.pending, k)) = k
  <2>1. k \in Nat /\ Distance(q.pending, q.pending) = 0
    BY <1>1, <1>2, NoWay
  <2>2. Distance(q.pending, q.pending) + k < MaxQueue
    BY <1>2, <2>1
  <2> QED
    BY <1>1, <2>1, <2>2, MovedOn
<1>4. /\ moved \in Queues /\ moved.hi = q.hi /\ moved.lo = q.lo /\ moved.packets = q.packets
      /\ moved.pending = Move(q.pending, k)
    BY <1>1, <1>3 DEF Queues
<1>5. r = Cleaned(moved)
    BY DEF rdpsnd_queue_complete_pending, k
<1> HIDE DEF moved, r
<1>6. /\ r \in Queues /\ r.hi = q.hi /\ r.lo = q.lo /\ r.pending = Move(q.pending, k)
      /\ \A slot \in Slots : InUse(moved, slot) => r.packets[slot] = q.packets[slot]
    BY <1>4, <1>5, CleanedIs
<1>7. \A slot \in Slots : InUse(r, slot) => InUse(moved, slot)
    BY <1>4, <1>6 DEF InUse
<1>8. Kept(q, r)
    BY <1>6, <1>7 DEF Kept
<1>9. Distance(q.pending, q.lo) <= Distance(q.pending, q.lo)
    BY <1>2
<1>10. GivesBack(q, r)
    BY <1>2, <1>3, <1>6, <1>8, <1>9, GivesBackIf
<1> QED
    BY <1>6, <1>10 DEF r

\* The packet at queue_lo is changed, and queue_lo may move on.
LEMMA PlayedPacket ==
    ASSUME NEW q, Ring(q), NEW packet \in Packets, NEW r \in Queues,
           packet.index = q.packets[q.lo].index, packet.format = q.packets[q.lo].format,
           r.packets = [q.packets EXCEPT ![q.lo] = packet],
           r.hi = q.hi, r.pending = q.pending,
           r.lo = q.lo \/ (q.lo # q.hi /\ r.lo = Move(q.lo, 1))
    PROVE  GivesBack(q, r)
<1>1. q \in Queues /\ q.pending \in Slots /\ q.hi \in Slots /\ q.lo \in Slots /\ r.lo \in Slots
    BY DEF Ring, Queues
<1>2. /\ Distance(q.pending, q.lo) \in 0..(MaxQueue - 1)
      /\ Distance(q.pending, q.hi) \in 0..(MaxQueue - 1)
      /\ Distance(q.pending, q.lo) <= Distance(q.pending, q.hi)
    BY <1>1, DistanceIs DEF Ring, Ordered, Slots
<1>3. /\ Distance(q.pending, q.lo) <= Distance(q.pending, r.lo)
      /\ Distance(q.pending, r.lo) <= Distance(q.pending, q.hi)
  <2>1. CASE r.lo = q.lo
    BY <1>2, <2>1
  <2>2. CASE q.lo # q.hi /\ r.lo = Move(q.lo, 1)
    <3>1. Distance(q.pending, q.lo) # Distance(q.pending, q.hi)
      BY <1>1, <2>2, SamePlace
    <3>2. Distance(q.pending, q.lo) + 1 < MaxQueue
      BY <1>2, <3>1
    <3>3. Distance(q.pending, r.lo) = Distance(q.pending, q.lo) + 1
      BY <1>1, <2>2, <3>2, MovedOn
    <3> QED
      BY <1>2, <3>1, <3>3
  <2> QED
    BY <2>1, <2>2
<1>4. Kept(q, r)
  <2>1. \A slot \in Slots : r.packets[slot] = IF slot = q.lo THEN packet ELSE q.packets[slot]
    BY <1>1 DEF Queues
  <2> QED
    BY <2>1 DEF Kept
<1>5. Distance(q.pending, r.pending) <= Distance(q.pending, r.lo)
  <2>1. Distance(q.pending, r.pending) = 0
    BY <1>1, NoWay
  <2> QED
    BY <1>2, <1>3, <2>1, <1>1, DistanceIs
<1> QED
    BY <1>3, <1>4, <1>5, GivesBackIf

LEMMA NextIs ==
    ASSUME NEW q, Ring(q), q.lo # q.hi, NEW delay \in 0..MaxDelay
    PROVE  GivesBack(q, rdpsnd_queue_next(q, delay))
<1>1. q \in Queues /\ q.lo \in Slots /\ q.packets \in [Slots -> Packets]
    BY DEF Ring, Queues
<1> DEFINE old == q.packets[q.lo]
           packet == [index |-> old.index, format |-> old.format, left |-> 0, due |-> delay]
           packets == [q.packets EXCEPT ![q.lo] = packet]
           next == Move(q.lo, 1)
           r == [q EXCEPT !.packets = packets, !.lo = next]
<1>2. packet \in Packets /\ packet.index = old.index /\ packet.format = old.format
    BY <1>1 DEF Packets
<1>3. rdpsnd_queue_next(q, delay) = rdpsnd_queue_complete_pending(r)
  <2>1. [old EXCEPT !.due = delay, !.left = 0] = packet
    <3>1. old \in Packets
      BY <1>1
    <3> HIDE DEF old
    <3> DEFINE new == [old EXCEPT !.due = delay, !.left = 0]
    <3>2. /\ new \in Packets /\ new.index = old.index /\ new.format = old.format
          /\ new.left = 0 /\ new.due = delay
      BY <3>1 DEF Packets
    <3>3. packet \in Packets /\ packet.left = 0 /\ packet.due = delay
          /\ packet.index = old.index /\ packet.format = old.format
      BY <3>1 DEF Packets
    <3> HIDE DEF new, packet
    <3> QED
      BY <3>2, <3>3 DEF new, Packets
  <2>2. [q EXCEPT !.packets[q.lo].due = delay, !.packets[q.lo].left = 0, !.lo = Move(@, 1)] = r
    BY <1>1, <2>1 DEF Queues
  <2> QED
    BY <2>2 DEF rdpsnd_queue_next
<1>4. next \in Slots
    BY <1>1, MoveIs
<1> HIDE DEF packet
<1>5. packets \in [Slots -> Packets]
    BY <1>1, <1>2
<1> HIDE DEF next
<1>6. r \in Queues /\ r.packets = packets /\ r.lo = next /\ r.hi = q.hi /\ r.pending = q.pending
  <2> HIDE DEF packets
  <2> QED
    BY <1>1, <1>4, <1>5 DEF Queues
<1> HIDE DEF r
<1>7. GivesBack(q, r)
    BY <1>2, <1>6, PlayedPacket DEF next
<1>8. GivesBack(r, rdpsnd_queue_complete_pending(r))
    BY <1>7, CompleteIs DEF GivesBack
<1> QED
    BY <1>3, <1>7, <1>8, GivesBackAgain

\* Part of a packet is copied.
LEMMA LeftIs ==
    ASSUME NEW q, Ring(q), NEW n \in Nat
    PROVE  GivesBack(q, [q EXCEPT !.packets[q.lo].left = n])
<1>1. q \in Queues /\ q.lo \in Slots /\ q.packets \in [Slots -> Packets]
    BY DEF Ring, Queues
<1> DEFINE old == q.packets[q.lo]
           packet == [old EXCEPT !.left = n]
           packets == [q.packets EXCEPT ![q.lo] = packet]
           r == [q EXCEPT !.packets = packets]
<1>2. packet \in Packets /\ packet.index = old.index /\ packet.format = old.format
    BY <1>1 DEF Packets
<1>3. [q EXCEPT !.packets[q.lo].left = n] = r
    BY <1>1 DEF Queues
<1> HIDE DEF packet
<1>5. packets \in [Slots -> Packets]
    BY <1>1, <1>2
<1>6. r \in Queues /\ r.packets = packets /\ r.lo = q.lo /\ r.hi = q.hi /\ r.pending = q.pending
  <2> HIDE DEF packets
  <2> QED
    BY <1>1, <1>5 DEF Queues
<1> HIDE DEF r
<1>7. GivesBack(q, r)
    BY <1>2, <1>6, PlayedPacket
<1> QED
    BY <1>3, <1>7

LEMMA NextAtOnceIs ==
    ASSUME NEW q, Ring(q), NEW k \in 0..Distance(q.lo, q.hi)
    PROVE  GivesBack(q, NextAtOnce(q, k)) /\ NextAtOnce(q, k).lo = Move(q.lo, k)
<1>1. /\ q \in Queues /\ q.lo \in Slots /\ q.hi \in Slots /\ q.pending \in Slots
      /\ q.packets \in [Slots -> Packets]
    BY DEF Ring, Queues
<1> DEFINE played(old) == [old EXCEPT !.due = 0, !.left = 0]
           packets == [slot \in Slots |-> IF Distance(q.lo, slot) < k
                                          THEN played(q.packets[slot]) ELSE q.packets[slot]]
           next == Move(q.lo, k)
           r == [q EXCEPT !.packets = packets, !.lo = next]
<1>2. NextAtOnce(q, k) = rdpsnd_queue_complete_pending(r)
    BY <1>1 DEF NextAtOnce, Queues
<1>3. /\ packets \in [Slots -> Packets]
      /\ \A slot \in Slots : packets[slot].index = q.packets[slot].index
                             /\ packets[slot].format = q.packets[slot].format
  <2>1. ASSUME NEW old \in Packets
        PROVE  played(old) \in Packets /\ played(old).index = old.index
                             /\ played(old).format = old.format
    <3>1. 0 \in Nat /\ 0 \in 0..MaxDelay
      OBVIOUS
    <3> QED
      BY <3>1 DEF Packets
  <2> HIDE DEF played
  <2> QED
    BY <1>1, <2>1
<1>4. /\ Distance(q.pending, q.lo) \in 0..(MaxQueue - 1) /\ Distance(q.lo, q.hi) \in 0..(MaxQueue - 1)
      /\ Distance(q.pending, q.hi) \in 0..(MaxQueue - 1)
      /\ Distance(q.lo, q.hi) = Distance(q.pending, q.hi) - Distance(q.pending, q.lo)
    BY <1>1, DistanceIs, Halfway DEF Ring, Ordered, Slots
<1>5. next \in Slots /\ Distance(q.pending, next) = Distance(q.pending, q.lo) + k
  <2>1. k \in Nat /\ Distance(q.pending, q.lo) + k < MaxQueue
    BY <1>4
  <2> QED
    BY <1>1, <2>1, MovedOn
<1> HIDE DEF packets, next
<1>6. r \in Queues /\ r.packets = packets /\ r.lo = next /\ r.hi = q.hi /\ r.pending = q.pending
    BY <1>1, <1>3, <1>5 DEF Queues
<1> HIDE DEF r
<1>7. Kept(q, r)
    BY <1>3, <1>6 DEF Kept
<1>8. Distance(q.pending, q.pending) = 0
    BY <1>1, NoWay
<1>9. /\ Distance(q.pending, r.pending) <= Distance(q.pending, r.lo)
      /\ Distance(q.pending, q.lo) <= Distance(q.pending, r.lo)
      /\ Distance(q.pending, r.lo) <= Distance(q.pending, q.hi)
  <2>1. k \in Nat /\ k <= Distance(q.lo, q.hi)
    BY <1>4
  <2> QED
    BY <1>4, <1>5, <1>6, <1>8, <2>1
<1>10. GivesBack(q, r)
    BY <1>6, <1>7, <1>9, GivesBackIf
<1>11. GivesBack(r, NextAtOnce(q, k)) /\ NextAtOnce(q, k).lo = r.lo
    BY <1>2, <1>10, CompleteIs DEF GivesBack
<1> QED
    BY <1>6, <1>10, <1>11, GivesBackAgain DEF next

LEMMA AckAllIs ==
    ASSUME NEW q, Ring(q)
    PROVE  GivesBack(q, AckAll(q)) /\ AckAll(q).lo = AckAll(q).hi
<1>1. q.lo \in Slots /\ q.hi \in Slots
    BY DEF Ring, Queues
<1>2. Distance(q.lo, q.hi) \in 0..(MaxQueue - 1)
    BY <1>1, DistanceIs DEF Slots
<1>3. Distance(q.lo, q.hi) \in 0..Distance(q.lo, q.hi)
    BY <1>2
<1>4. GivesBack(q, AckAll(q)) /\ AckAll(q).lo = Move(q.lo, Distance(q.lo, q.hi))
    BY <1>3, NextAtOnceIs DEF AckAll
<1>5. Move(q.lo, Distance(q.lo, q.hi)) = q.hi
  <2>1. Distance(q.lo, q.hi) = IF q.hi >= q.lo THEN q.hi - q.lo ELSE q.hi - q.lo + MaxQueue
    BY <1>1, DistanceIs
  <2>2. Distance(q.lo, q.hi) \in 0..MaxQueue
    BY <1>2
  <2>3. Move(q.lo, Distance(q.lo, q.hi)) =
              IF q.lo + Distance(q.lo, q.hi) < MaxQueue THEN q.lo + Distance(q.lo, q.hi)
              ELSE q.lo + Distance(q.lo, q.hi) - MaxQueue
    BY <1>1, <2>2, MoveIs
  <2> QED
    BY <1>1, <2>1, <2>3 DEF Slots
<1> QED
    BY <1>4, <1>5 DEF GivesBack

-----------------------------------------------------------------------------
(* The numbers of the packets in the ring, as SoundPromise sees them *)

Numbers(q) == [k \in 1..Distance(q.pending, q.hi) |-> q.packets[Move(q.pending, k - 1)].index]

LEMMA NumbersAre ==
    ASSUME NEW q, Ring(q)
    PROVE  /\ Numbers(q) \in Seq(Indexes)
           /\ Len(Numbers(q)) = Distance(q.pending, q.hi)
           /\ \A k \in 1..Distance(q.pending, q.hi) :
                 Numbers(q)[k] = q.packets[Move(q.pending, k - 1)].index
<1>1. q.pending \in Slots /\ q.hi \in Slots /\ q.packets \in [Slots -> Packets]
    BY DEF Ring, Queues
<1> DEFINE n == Distance(q.pending, q.hi)
<1>2. n \in 0..(MaxQueue - 1) /\ n \in Nat
    BY <1>1, DistanceIs DEF Slots
<1> HIDE DEF n
<1>3. \A k \in 1..n : k - 1 \in 0..MaxQueue
    BY <1>2
<1>4. \A k \in 1..n : Move(q.pending, k - 1) \in Slots
    BY <1>1, <1>3, MoveIs
<1>5. Numbers(q) = [k \in 1..n |-> q.packets[Move(q.pending, k - 1)].index]
    BY DEF Numbers, n
<1>6. Numbers(q) \in [1..n -> Indexes]
    BY <1>1, <1>4, <1>5 DEF Packets
<1>7. Numbers(q) \in Seq(Indexes) /\ Len(Numbers(q)) = n
    BY <1>2, <1>6, SeqOfLength
<1> QED
    BY <1>5, <1>7 DEF n

\* The packets that are given back are the oldest, and the others stay.
LEMMA OldestFirst ==
    ASSUME NEW q, NEW r, Ring(q), GivesBack(q, r), NEW k, k = Distance(q.pending, r.pending)
    PROVE  /\ k \in 0..Len(Numbers(q))
           /\ Answers(q, r) = SubSeq(Numbers(q), 1, k)
           /\ Numbers(r) = SubSeq(Numbers(q), k + 1, Len(Numbers(q)))
<1> DEFINE n == Distance(q.pending, q.hi)
<1>1. /\ Ring(r) /\ r.hi = q.hi
      /\ q.pending \in Slots /\ q.hi \in Slots /\ r.pending \in Slots /\ r.lo \in Slots
    BY DEF GivesBack, Ring, Queues
<1>2. n \in 0..(MaxQueue - 1) /\ k \in 0..(MaxQueue - 1) /\ k <= n
  <2>1. n \in 0..(MaxQueue - 1) /\ k \in 0..(MaxQueue - 1)
        /\ Distance(q.pending, r.lo) \in 0..(MaxQueue - 1)
    BY <1>1, DistanceIs DEF Slots
  <2>2. k <= Distance(q.pending, r.lo) /\ Distance(q.pending, r.lo) <= n
    BY DEF GivesBack
  <2> QED
    BY <2>1, <2>2
<1>3. Distance(r.pending, r.hi) = n - k
    BY <1>1, <1>2, Halfway
<1>4. /\ Numbers(q) \in Seq(Indexes) /\ Len(Numbers(q)) = n
      /\ \A i \in 1..n : Numbers(q)[i] = q.packets[Move(q.pending, i - 1)].index
    BY NumbersAre
<1>5. /\ Numbers(r) \in Seq(Indexes) /\ Len(Numbers(r)) = n - k
      /\ \A i \in 1..(n - k) : Numbers(r)[i] = r.packets[Move(r.pending, i - 1)].index
    BY <1>1, <1>3, NumbersAre
<1> HIDE DEF n
<1>6. Answers(q, r) = SubSeq(Numbers(q), 1, k)
  <2>1. Answers(q, r) = [i \in 1..k |-> q.packets[Move(q.pending, i - 1)].index]
    BY DEF Answers
  <2>2. \A i \in 1..k : q.packets[Move(q.pending, i - 1)].index = Numbers(q)[i] /\ Numbers(q)[i] \in Indexes
    <3>1. \A i \in 1..k : i \in 1..n
      BY <1>2
    <3> QED
      BY <1>4, <3>1, ElementOfSeq
  <2>3. Answers(q, r) \in [1..k -> Indexes]
    BY <2>1, <2>2
  <2>4. Answers(q, r) \in Seq(Indexes) /\ Len(Answers(q, r)) = k
    BY <1>2, <2>3, SeqOfLength
  <2>5. /\ SubSeq(Numbers(q), 1, k) \in Seq(Indexes) /\ Len(SubSeq(Numbers(q), 1, k)) = k
        /\ \A i \in 1..k : SubSeq(Numbers(q), 1, k)[i] = Numbers(q)[i]
    <3>1. 1 \in Nat \ {0} /\ k \in 0..Len(Numbers(q)) /\ 1 <= k + 1
      BY <1>2, <1>4
    <3>2. /\ SubSeq(Numbers(q), 1, k) \in Seq(Indexes) /\ Len(SubSeq(Numbers(q), 1, k)) = k - 1 + 1
          /\ \A i \in 1..(k - 1 + 1) : SubSeq(Numbers(q), 1, k)[i] = Numbers(q)[1 + i - 1]
      BY <1>4, <3>1, SubSeqIs
    <3>3. k - 1 + 1 = k /\ \A i \in 1..k : 1 + i - 1 = i
      BY <1>2
    <3> QED
      BY <3>2, <3>3
  <2>6. \A i \in 1..k : Answers(q, r)[i] = SubSeq(Numbers(q), 1, k)[i]
    BY <2>1, <2>2, <2>5
  <2> QED
    BY <2>4, <2>5, <2>6, SeqEqual
<1>7. Numbers(r) = SubSeq(Numbers(q), k + 1, n)
  <2>1. ASSUME NEW i \in 1..(n - k)
        PROVE  Numbers(r)[i] = Numbers(q)[k + i]
    <3>1. /\ i - 1 \in Nat /\ (k + i) - 1 \in Nat /\ (k + i) - 1 < MaxQueue
          /\ k + i \in 1..n /\ i - 1 < n - k
      BY <1>2
    <3>2. Distance(r.pending, r.pending) = 0 /\ Distance(q.pending, q.pending) = 0
      BY <1>1, NoWay
    <3>3. /\ Move(r.pending, i - 1) \in Slots
          /\ Distance(r.pending, Move(r.pending, i - 1)) = i - 1
      <4>1. Distance(r.pending, r.pending) + (i - 1) < MaxQueue
        BY <1>2, <3>1, <3>2
      <4>2. /\ Move(r.pending, i - 1) \in Slots
            /\ Distance(r.pending, Move(r.pending, i - 1)) = Distance(r.pending, r.pending) + (i - 1)
        BY <1>1, <3>1, <4>1, MovedOn
      <4> QED
        BY <3>1, <3>2, <4>2
    <3>4. Distance(q.pending, Move(r.pending, i - 1)) = (k + i) - 1
      <4>1. Distance(q.pending, r.pending) + (i - 1) < MaxQueue
        BY <1>2, <3>1
      <4>2. Distance(q.pending, Move(r.pending, i - 1)) = Distance(q.pending, r.pending) + (i - 1)
        BY <1>1, <3>1, <4>1, MovedOn
      <4> QED
        BY <1>2, <4>2
    <3>5. /\ Move(q.pending, (k + i) - 1) \in Slots
          /\ Distance(q.pending, Move(q.pending, (k + i) - 1)) = (k + i) - 1
      <4>1. Distance(q.pending, q.pending) + ((k + i) - 1) < MaxQueue
        BY <3>1, <3>2
      <4>2. /\ Move(q.pending, (k + i) - 1) \in Slots
            /\ Distance(q.pending, Move(q.pending, (k + i) - 1))
                  = Distance(q.pending, q.pending) + ((k + i) - 1)
        BY <1>1, <3>1, <4>1, MovedOn
      <4> QED
        BY <3>1, <3>2, <4>2
    <3>6. Move(r.pending, i - 1) = Move(q.pending, (k + i) - 1)
      BY <1>1, <3>3, <3>4, <3>5, SamePlace
    <3>7. InUse(r, Move(r.pending, i - 1))
      BY <1>3, <3>1, <3>3 DEF InUse
    <3>8. r.packets[Move(r.pending, i - 1)].index = q.packets[Move(r.pending, i - 1)].index
      BY <3>3, <3>7 DEF GivesBack, Kept
    <3> QED
      <4>1. Numbers(r)[i] = r.packets[Move(r.pending, i - 1)].index
        BY <1>5
      <4>2. Numbers(q)[k + i] = q.packets[Move(q.pending, (k + i) - 1)].index
        BY <1>4, <3>1
      <4>3. q.packets[Move(r.pending, i - 1)] = q.packets[Move(q.pending, (k + i) - 1)]
        BY <3>6, Zenon
      <4> QED
        BY <3>8, <4>1, <4>2, <4>3, Zenon
  <2>2. /\ SubSeq(Numbers(q), k + 1, n) \in Seq(Indexes)
        /\ Len(SubSeq(Numbers(q), k + 1, n)) = n - k
        /\ \A i \in 1..(n - k) : SubSeq(Numbers(q), k + 1, n)[i] = Numbers(q)[k + i]
    <3>1. k + 1 \in Nat \ {0} /\ n \in 0..Len(Numbers(q)) /\ k + 1 <= n + 1
      BY <1>2, <1>4
    <3>2. /\ SubSeq(Numbers(q), k + 1, n) \in Seq(Indexes)
          /\ Len(SubSeq(Numbers(q), k + 1, n)) = n - (k + 1) + 1
          /\ \A i \in 1..(n - (k + 1) + 1) :
                SubSeq(Numbers(q), k + 1, n)[i] = Numbers(q)[(k + 1) + i - 1]
      BY <1>4, <3>1, SubSeqIs
    <3>3. n - (k + 1) + 1 = n - k /\ \A i \in 1..(n - k) : (k + 1) + i - 1 = k + i
      BY <1>2
    <3> QED
      BY <3>2, <3>3
  <2>3. \A i \in 1..Len(Numbers(r)) : Numbers(r)[i] = SubSeq(Numbers(q), k + 1, n)[i]
    BY <1>5, <2>1, <2>2
  <2> QED
    BY <1>5, <2>2, <2>3, SeqEqual
<1>8. k \in 0..n
    BY <1>2
<1> QED
    BY <1>4, <1>6, <1>7, <1>8

-----------------------------------------------------------------------------
(* The other thing that happens to the ring: it takes a packet *)

LEMMA WriteIs ==
    ASSUME NEW q, Ring(q), NEW packet \in Packets
    PROVE  LET r == rdpsnd_queue_write(q, packet)
           IN  /\ Ring(r)
               /\ \/ r = q
                  \/ /\ Numbers(r) = Append(Numbers(q), packet.index)
                     /\ \A slot \in Slots : Waiting(r, slot) =>
                           \/ slot = q.hi /\ r.packets[slot] = packet
                           \/ Waiting(q, slot) /\ r.packets[slot] = q.packets[slot]
<1> DEFINE r == [q EXCEPT !.packets[q.hi] = packet, !.hi = Move(q.hi, 1)]
           n == Distance(q.pending, q.hi)
           next == Move(q.hi, 1)
<1>1. CASE next = q.pending
    BY <1>1 DEF rdpsnd_queue_write
<1>2. CASE next # q.pending
  <2>1. /\ q \in Queues /\ q.packets \in [Slots -> Packets] /\ q.hi \in Slots /\ q.lo \in Slots
        /\ q.pending \in Slots /\ next \in Slots
    BY MoveIs DEF Ring, Queues
  <2>2. rdpsnd_queue_write(q, packet) = r
    BY <1>2 DEF rdpsnd_queue_write
  <2> DEFINE packets == [q.packets EXCEPT ![q.hi] = packet]
  <2>3. packets \in [Slots -> Packets] /\ r = [q EXCEPT !.packets = packets, !.hi = next]
    BY <2>1 DEF Queues
  <2>4. \A slot \in Slots : packets[slot] = IF slot = q.hi THEN packet ELSE q.packets[slot]
    BY <2>1
  <2> HIDE DEF packets, next, r
  <2>5. r \in Queues /\ r.packets = packets /\ r.hi = next /\ r.lo = q.lo /\ r.pending = q.pending
    BY <2>1, <2>3 DEF Queues
  <2>6. n \in 0..(MaxQueue - 1) /\ Distance(q.pending, q.lo) \in 0..(MaxQueue - 1)
        /\ Distance(q.pending, q.lo) <= n /\ Distance(q.lo, q.hi) \in 0..(MaxQueue - 1)
        /\ Distance(q.lo, q.hi) = n - Distance(q.pending, q.lo)
    BY <2>1, DistanceIs, Halfway, ZenonT(60) DEF Ring, Ordered, Slots
  <2>7. n + 1 < MaxQueue
    <3>1. n = IF q.hi >= q.pending THEN q.hi - q.pending ELSE q.hi - q.pending + MaxQueue
      BY <2>1, DistanceIs
    <3>2. next = IF q.hi + 1 < MaxQueue THEN q.hi + 1 ELSE q.hi + 1 - MaxQueue
      BY <2>1, MoveIs DEF next
    <3> QED
      <4> DEFINE h == q.hi
                 p == q.pending
      <4>1. h \in 0..(MaxQueue - 1) /\ p \in 0..(MaxQueue - 1) /\ n \in 0..(MaxQueue - 1)
        BY <2>1, <2>6 DEF Slots
      <4>2. /\ next # p
            /\ n = IF h >= p THEN h - p ELSE h - p + MaxQueue
            /\ next = IF h + 1 < MaxQueue THEN h + 1 ELSE h + 1 - MaxQueue
        BY <1>2, <3>1, <3>2
      <4> HIDE DEF n, h, p
      <4> QED
        BY <4>1, <4>2
  <2>8. Distance(q.pending, next) = n + 1
    BY <2>1, <2>7, MovedOn DEF next
  <2>9. Distance(q.lo, next) = Distance(q.lo, q.hi) + 1
    <3>1. Distance(q.lo, q.hi) + 1 < MaxQueue
      BY <2>6, <2>7
    <3> QED
      BY <2>1, <3>1, MovedOn DEF next
  <2>10. Ring(r)
    BY <2>5, <2>6, <2>8 DEF Ring, Ordered
  <2> HIDE DEF n
  <2>11. Numbers(r) = Append(Numbers(q), packet.index)
    <3>1. /\ Numbers(q) \in Seq(Indexes) /\ Len(Numbers(q)) = n
          /\ \A i \in 1..n : Numbers(q)[i] = q.packets[Move(q.pending, i - 1)].index
      BY NumbersAre DEF n
    <3>2. /\ Numbers(r) \in Seq(Indexes) /\ Len(Numbers(r)) = n + 1
          /\ \A i \in 1..(n + 1) : Numbers(r)[i] = r.packets[Move(q.pending, i - 1)].index
      BY <2>5, <2>8, <2>10, NumbersAre
    <3>3. packet.index \in Indexes
      BY DEF Packets
    <3>4. /\ Append(Numbers(q), packet.index) \in Seq(Indexes)
          /\ Len(Append(Numbers(q), packet.index)) = n + 1
          /\ \A i \in 1..n : Append(Numbers(q), packet.index)[i] = Numbers(q)[i]
          /\ Append(Numbers(q), packet.index)[n + 1] = packet.index
      BY <3>1, <3>3, AppendProperties
    <3>5. \A i \in 1..(n + 1) : /\ Move(q.pending, i - 1) \in Slots
                                /\ Distance(q.pending, Move(q.pending, i - 1)) = i - 1
      <4>1. TAKE i \in 1..(n + 1)
      <4>2. i - 1 \in Nat /\ Distance(q.pending, q.pending) = 0 /\ 0 + (i - 1) = i - 1
            /\ 0 + (i - 1) < MaxQueue
        BY <2>1, <2>6, <2>7, NoWay DEF n
      <4>3. /\ Move(q.pending, i - 1) \in Slots
            /\ Distance(q.pending, Move(q.pending, i - 1)) = Distance(q.pending, q.pending) + (i - 1)
        BY <2>1, <4>2, MovedOn
      <4> QED
        BY <4>2, <4>3
    <3>6. \A i \in 1..n : Move(q.pending, i - 1) # q.hi
      <4>1. \A i \in 1..n : i \in 1..(n + 1) /\ i - 1 # n
        BY <2>6 DEF n
      <4> QED
        BY <3>5, <4>1 DEF n
    <3>7. Move(q.pending, n) = q.hi
      <4>1. n + 1 \in 1..(n + 1) /\ (n + 1) - 1 = n
        BY <2>6 DEF n
      <4>2. Move(q.pending, n) \in Slots /\ Distance(q.pending, Move(q.pending, n)) = n
        BY <3>5, <4>1
      <4> QED
        BY <2>1, <4>2, SamePlace DEF n
    <3>8. ASSUME NEW i \in 1..(n + 1)
          PROVE  Numbers(r)[i] = Append(Numbers(q), packet.index)[i]
      <4>1. n \in Nat
        BY <2>6 DEF n
      <4>2. CASE i = n + 1
        <5>1. (n + 1) - 1 = n
          BY <4>1
        <5>2. Numbers(r)[n + 1] = r.packets[Move(q.pending, n)].index
          BY <3>2, <4>2, <5>1
        <5> QED
          BY <2>1, <2>4, <2>5, <3>4, <3>7, <4>2, <5>2
      <4>3. CASE i # n + 1
        <5>1. i \in 1..n
          BY <4>1, <4>3
        <5>2. r.packets[Move(q.pending, i - 1)] = q.packets[Move(q.pending, i - 1)]
          BY <2>4, <2>5, <3>5, <3>6, <5>1
        <5> QED
          BY <3>1, <3>2, <3>4, <5>1, <5>2
      <4> QED
        BY <4>2, <4>3
    <3> QED
      BY <3>2, <3>4, <3>8, SeqEqual
  <2>12. ASSUME NEW slot \in Slots, Waiting(r, slot)
         PROVE  \/ slot = q.hi /\ r.packets[slot] = packet
                \/ Waiting(q, slot) /\ r.packets[slot] = q.packets[slot]
    <3>1. CASE slot = q.hi
      BY <2>4, <2>5, <3>1
    <3>2. CASE slot # q.hi
      <4>1. Distance(q.lo, slot) < Distance(q.lo, q.hi) + 1
        BY <2>5, <2>9, <2>12 DEF Waiting
      <4>2. Distance(q.lo, slot) # Distance(q.lo, q.hi)
        BY <2>1, <3>2, SamePlace
      <4>3. Distance(q.lo, slot) \in Nat
        BY <2>1, DistanceIs
      <4>4. Waiting(q, slot)
        BY <2>6, <4>1, <4>2, <4>3 DEF Waiting
      <4> QED
        BY <2>4, <2>5, <3>2, <4>4
    <3> QED
      BY <3>1, <3>2
  <2> QED
    BY <2>2, <2>10, <2>11, <2>12
<1> QED
    BY <1>1, <1>2

\* What waits to be copied after packets were given back waited before.
LEMMA WaitsLess ==
    ASSUME NEW q, NEW r, Ring(q), GivesBack(q, r), NEW slot \in Slots, Waiting(r, slot)
    PROVE  Waiting(q, slot) /\ r.packets[slot].format = q.packets[slot].format
<1>1. /\ Ring(r) /\ r.hi = q.hi
      /\ q.pending \in Slots /\ q.hi \in Slots /\ q.lo \in Slots /\ r.pending \in Slots /\ r.lo \in Slots
    BY DEF GivesBack, Ring, Queues
<1>2. InUse(r, slot)
    BY <1>1, Within DEF Waiting, InUse, Ring, Ordered
<1>3. Distance(q.lo, r.lo) <= Distance(q.lo, q.hi)
  <2>1. /\ Distance(q.pending, q.lo) \in Nat /\ Distance(q.pending, r.lo) \in Nat
        /\ Distance(q.pending, q.hi) \in Nat
    BY <1>1, DistanceIs
  <2>2. Distance(q.lo, r.lo) = Distance(q.pending, r.lo) - Distance(q.pending, q.lo)
    BY <1>1, Halfway DEF GivesBack
  <2>3. Distance(q.lo, q.hi) = Distance(q.pending, q.hi) - Distance(q.pending, q.lo)
    BY <1>1, Halfway DEF Ring, Ordered
  <2> QED
    BY <2>1, <2>2, <2>3 DEF GivesBack
<1> QED
    BY <1>1, <1>2, <1>3, Within DEF GivesBack, Kept, Waiting

-----------------------------------------------------------------------------
(* Each step of a driver is a step of the promise *)

LEMMA NothingBack ==
    ASSUME NEW q, Ring(q)
    PROVE  GivesBack(q, q)
<1>1. q \in Queues /\ q.pending \in Slots /\ q.lo \in Slots /\ q.hi \in Slots
    BY DEF Ring, Queues
<1>2. /\ Distance(q.pending, q.pending) = 0 /\ Distance(q.pending, q.lo) \in Nat
      /\ Distance(q.pending, q.lo) <= Distance(q.pending, q.hi)
    BY <1>1, NoWay, DistanceIs DEF Ring, Ordered
<1> QED
    BY <1>2 DEF GivesBack, Kept

LEMMA EmptyIs == Ring(EmptyQueue) /\ Numbers(EmptyQueue) = <<>>
<1>1. Free \in Packets /\ 0 \in Slots
    BY DEF Free, Packets, Indexes, Slots
<1>2. /\ EmptyQueue \in Queues /\ EmptyQueue.hi = 0 /\ EmptyQueue.lo = 0 /\ EmptyQueue.pending = 0
    BY <1>1 DEF EmptyQueue, Queues
<1>3. Distance(0, 0) = 0
    BY <1>1, NoWay
<1>4. Ring(EmptyQueue)
    BY <1>2, <1>3 DEF Ring, Ordered
<1>5. Numbers(EmptyQueue) \in Seq(Indexes) /\ Len(Numbers(EmptyQueue)) = 0
    BY <1>2, <1>3, <1>4, NumbersAre
<1> QED
    BY <1>4, <1>5, EmptySeq

\* The parts of the promise, in terms of the ring.
LEMMA PromiseNext ==
    ASSUME NEW k \in 0..Len(Numbers(queue)),
           \/ /\ answered' = SubSeq(Numbers(queue), 1, k)
              /\ \/ Numbers(queue)' = SubSeq(Numbers(queue), k + 1, Len(Numbers(queue)))
                 \/ Numbers(queue)' = <<>>
                 \/ \E index \in Indexes : Numbers(queue)' =
                       Append(SubSeq(Numbers(queue), k + 1, Len(Numbers(queue))), index)
           \/ /\ \E index \in Indexes : answered' = <<index>> \o SubSeq(Numbers(queue), 1, k)
              /\ Numbers(queue)' = SubSeq(Numbers(queue), k + 1, Len(Numbers(queue)))
    PROVE  Promise!Next
<1> DEFINE w == Numbers(queue)
<1>1. waiting = w /\ waiting' = w'
    BY DEF waiting, Numbers
<1> HIDE DEF w
<1>2. k \in 0..Len(waiting)
    BY <1>1 DEF w
<1>3. \/ Promise!Acknowledge(k) \/ Promise!AcknowledgeAndForget(k)
      \/ \E index \in Indexes : Promise!AcknowledgeAndQueue(k, index)
      \/ \E index \in Indexes : Promise!RefuseAndAcknowledge(k, index)
    BY <1>1 DEF w, Promise!Acknowledge, Promise!AcknowledgeAndForget, Promise!AcknowledgeAndQueue,
           Promise!RefuseAndAcknowledge, Promise!Oldest, Promise!Rest
<1> QED
    BY <1>2, <1>3 DEF Promise!Next

LEMMA StepGivesBack ==
    ASSUME Ring(queue), GivesBack(queue, queue'), answered' = Answers(queue, queue')
    PROVE  Promise!Next
<1> DEFINE k == Distance(queue.pending, queue'.pending)
<1>1. /\ k \in 0..Len(Numbers(queue))
      /\ Answers(queue, queue') = SubSeq(Numbers(queue), 1, k)
      /\ Numbers(queue') = SubSeq(Numbers(queue), k + 1, Len(Numbers(queue)))
    BY OldestFirst
<1> HIDE DEF k
<1>2. Numbers(queue)' = Numbers(queue')
    BY DEF Numbers
<1> QED
    BY <1>1, <1>2, PromiseNext

LEMMA StepRefuses ==
    ASSUME Ring(queue), GivesBack(queue, queue'), NEW index \in Indexes,
           answered' = <<index>> \o Answers(queue, queue')
    PROVE  Promise!Next
<1> DEFINE k == Distance(queue.pending, queue'.pending)
<1>1. /\ k \in 0..Len(Numbers(queue))
      /\ Answers(queue, queue') = SubSeq(Numbers(queue), 1, k)
      /\ Numbers(queue') = SubSeq(Numbers(queue), k + 1, Len(Numbers(queue)))
    BY OldestFirst
<1> HIDE DEF k
<1>2. Numbers(queue)' = Numbers(queue')
    BY DEF Numbers
<1> QED
    BY <1>1, <1>2, PromiseNext

LEMMA StepWrites ==
    ASSUME Ring(queue), NEW kept, GivesBack(queue, kept), NEW packet \in Packets,
           queue' = rdpsnd_queue_write(kept, packet), answered' = Answers(queue, kept)
    PROVE  Promise!Next
<1> DEFINE k == Distance(queue.pending, kept.pending)
<1>1. /\ k \in 0..Len(Numbers(queue))
      /\ Answers(queue, kept) = SubSeq(Numbers(queue), 1, k)
      /\ Numbers(kept) = SubSeq(Numbers(queue), k + 1, Len(Numbers(queue)))
    BY OldestFirst
<1> HIDE DEF k
<1>2. Numbers(queue') = Numbers(kept) \/ Numbers(queue') = Append(Numbers(kept), packet.index)
    BY WriteIs DEF GivesBack
<1>3. Numbers(queue)' = Numbers(queue') /\ packet.index \in Indexes
    BY DEF Numbers, Packets
<1> QED
    BY <1>1, <1>2, <1>3, PromiseNext

LEMMA StepForgets ==
    ASSUME Ring(queue), queue' = EmptyQueue,
           answered' = <<>> \/ answered' = Answers(queue, AckAll(queue))
    PROVE  Promise!Next
<1>1. Numbers(queue)' = <<>>
    BY EmptyIs DEF Numbers
<1>2. CASE answered' = Answers(queue, AckAll(queue))
  <2>1. GivesBack(queue, AckAll(queue))
    BY AckAllIs
  <2> DEFINE k == Distance(queue.pending, AckAll(queue).pending)
  <2>2. k \in 0..Len(Numbers(queue)) /\ Answers(queue, AckAll(queue)) = SubSeq(Numbers(queue), 1, k)
    BY <2>1, OldestFirst
  <2> HIDE DEF k
  <2> QED
    BY <1>1, <1>2, <2>2, PromiseNext
<1>3. CASE answered' = <<>>
  <2>1. 0 \in 0..Len(Numbers(queue)) /\ SubSeq(Numbers(queue), 1, 0) = <<>>
    BY NumbersAre, LenProperties, SubSeqEmpty
  <2> QED
    BY <1>1, <1>3, <2>1, PromiseNext
<1> QED
    BY <1>2, <1>3

LEMMA Unanswered ==
    ASSUME NEW q, Ring(q)
    PROVE  Answers(q, q) = <<>>
<1>1. GivesBack(q, q) /\ Distance(q.pending, q.pending) = 0
    BY NothingBack, NoWay DEF Ring, Queues
<1>2. Answers(q, q) = SubSeq(Numbers(q), 1, 0)
    BY <1>1, OldestFirst
<1> QED
    BY <1>2, SubSeqEmpty

LEMMA TickIs ==
    ASSUME Ring(queue), QueueTick
    PROVE  GivesBack(queue, queue') /\ Answers(queue, queue') = <<>>
<1> DEFINE later(old) == [old EXCEPT !.due = IF old.due > 0 THEN old.due - 1 ELSE 0]
           packets == [slot \in Slots |-> later(queue.packets[slot])]
<1>1. /\ queue \in Queues /\ queue.pending \in Slots /\ queue.lo \in Slots /\ queue.hi \in Slots
      /\ queue.packets \in [Slots -> Packets]
    BY DEF Ring, Queues
<1>2. queue' = [queue EXCEPT !.packets = packets]
    BY DEF QueueTick
<1>3. ASSUME NEW old \in Packets
      PROVE  later(old) \in Packets /\ later(old).index = old.index /\ later(old).format = old.format
  <2> DEFINE due == IF old.due > 0 THEN old.due - 1 ELSE 0
  <2>1. due \in 0..MaxDelay
    BY DEF Packets
  <2> HIDE DEF due
  <2>2. later(old) = [old EXCEPT !.due = due]
    BY DEF due
  <2> QED
    BY <2>1, <2>2 DEF Packets
<1> HIDE DEF later
<1>4. /\ packets \in [Slots -> Packets]
      /\ \A slot \in Slots : packets[slot].index = queue.packets[slot].index
                             /\ packets[slot].format = queue.packets[slot].format
    BY <1>1, <1>3
<1> HIDE DEF packets
<1>5. /\ queue' \in Queues /\ queue'.packets = packets /\ queue'.hi = queue.hi
      /\ queue'.lo = queue.lo /\ queue'.pending = queue.pending
    BY <1>1, <1>2, <1>4 DEF Queues
<1>6. Kept(queue, queue')
    BY <1>4, <1>5 DEF Kept
<1>7. /\ Distance(queue.pending, queue.pending) = 0 /\ Distance(queue.pending, queue.lo) \in Nat
      /\ Distance(queue.pending, queue.lo) <= Distance(queue.pending, queue.hi)
    BY <1>1, NoWay, DistanceIs DEF Ring, Ordered
<1>8. GivesBack(queue, queue')
    BY <1>5, <1>6, <1>7, GivesBackIf
<1>9. Answers(queue, queue') = SubSeq(Numbers(queue), 1, 0)
    BY <1>5, <1>7, <1>8, OldestFirst
<1> QED
    BY <1>8, <1>9, SubSeqEmpty

-----------------------------------------------------------------------------
(* DART *)

RingState ==
    /\ Ring(queue)
    /\ current_driver \in BOOLEAN /\ rdpsnd_negotiated \in BOOLEAN /\ device_open \in BOOLEAN
    /\ current_format \in Formats /\ block \in Indexes
    /\ answered \in Seq(Indexes)

DartState == RingState /\ ulMidBufOutWritePos \in Int

LEMMA AnswersType ==
    ASSUME NEW q, NEW r, Ring(q), GivesBack(q, r)
    PROVE  Answers(q, r) \in Seq(Indexes)
<1> DEFINE k == Distance(q.pending, r.pending)
<1>1. k \in 0..Len(Numbers(q)) /\ Answers(q, r) = SubSeq(Numbers(q), 1, k)
    BY OldestFirst
<1>2. Numbers(q) \in Seq(Indexes)
    BY NumbersAre
<1> HIDE DEF k
<1> QED
    BY <1>1, <1>2, SubSeqType

LEMMA RingStateIs == RingState => RingTypeOK /\ RingInOrder
<1> SUFFICES ASSUME RingState PROVE RingTypeOK /\ RingInOrder
    OBVIOUS
<1>1. queue \in Queues
    BY DEF RingState, Ring
<1>2. DOMAIN queue = {"packets", "hi", "lo", "pending"}
    BY <1>1 DEF Queues
<1> QED
    BY <1>1, <1>2 DEF RingState, Ring, Ordered, Queues, RingTypeOK, RingInOrder

LEMMA RingStart == RingInit => RingState /\ Promise!Init
<1>1. SUFFICES ASSUME RingInit PROVE RingState /\ Promise!Init
    OBVIOUS
<1>2. <<>> \in Seq(Indexes) /\ 0 \in Indexes
    BY EmptySeq DEF Indexes
<1>3. waiting = <<>>
    BY <1>1, EmptyIs DEF RingInit, waiting, Numbers
<1> QED
    BY <1>1, <1>2, <1>3, EmptyIs DEF RingInit, RingState, Promise!Init

\* What a step does to the ring and to the server's knowledge of it.
RingStep ==
    \/ GivesBack(queue, queue') /\ answered' = Answers(queue, queue')
    \/ /\ GivesBack(queue, queue')
       /\ \E index \in Indexes : answered' = <<index>> \o Answers(queue, queue')
    \/ \E kept : \E packet \in Packets :
          /\ GivesBack(queue, kept) /\ queue' = rdpsnd_queue_write(kept, packet)
          /\ answered' = Answers(queue, kept)
    \/ queue' = EmptyQueue /\ (answered' = <<>> \/ answered' = Answers(queue, AckAll(queue)))

LEMMA RingStepIs ==
    ASSUME Ring(queue), RingStep
    PROVE  Ring(queue') /\ answered' \in Seq(Indexes) /\ Promise!Next
<1>1. CASE GivesBack(queue, queue') /\ answered' = Answers(queue, queue')
    BY <1>1, AnswersType, StepGivesBack DEF GivesBack
<1>2. CASE /\ GivesBack(queue, queue')
           /\ \E index \in Indexes : answered' = <<index>> \o Answers(queue, queue')
  <2>1. PICK index \in Indexes : answered' = <<index>> \o Answers(queue, queue')
    BY <1>2
  <2>2. Answers(queue, queue') \in Seq(Indexes) /\ <<index>> \in Seq(Indexes)
    BY <1>2, AnswersType
  <2>3. answered' \in Seq(Indexes)
    BY <2>1, <2>2, ConcatProperties
  <2> QED
    BY <1>2, <2>1, <2>3, StepRefuses DEF GivesBack
<1>3. CASE \E kept : \E packet \in Packets :
               /\ GivesBack(queue, kept) /\ queue' = rdpsnd_queue_write(kept, packet)
               /\ answered' = Answers(queue, kept)
  <2> PICK kept : \E packet \in Packets :
               /\ GivesBack(queue, kept) /\ queue' = rdpsnd_queue_write(kept, packet)
               /\ answered' = Answers(queue, kept)
    BY <1>3
  <2>1. PICK packet \in Packets :
               /\ GivesBack(queue, kept) /\ queue' = rdpsnd_queue_write(kept, packet)
               /\ answered' = Answers(queue, kept)
    OBVIOUS
  <2>2. Ring(queue')
    BY <2>1, WriteIs DEF GivesBack
  <2> QED
    BY <2>1, <2>2, AnswersType, StepWrites
<1>4. CASE queue' = EmptyQueue /\ (answered' = <<>> \/ answered' = Answers(queue, AckAll(queue)))
  <2>1. answered' \in Seq(Indexes)
    BY <1>4, AckAllIs, AnswersType, EmptySeq
  <2> QED
    BY <1>4, <2>1, EmptyIs, StepForgets
<1> QED
    BY <1>1, <1>2, <1>3, <1>4 DEF RingStep

LEMMA NextBlock ==
    ASSUME block \in Indexes
    PROVE  (block + 1) % IndexCount \in Indexes
BY DEF Indexes

LEMMA PacketIs ==
    ASSUME block \in Indexes, NEW format \in Formats, NEW length \in Lengths
    PROVE  [index |-> block, format |-> format, left |-> length, due |-> 0] \in Packets
<1>1. 0 \in 0..MaxDelay /\ length \in Nat
    BY LengthAssumption
<1> QED
    BY <1>1 DEF Packets

LEMMA DartWrites ==
    ASSUME DartState, NEW format \in Formats, NEW length \in Lengths, Write(format, length)
    PROVE  RingStep
<1> DEFINE ready == device_open /\ format = current_format
           kept == IF ready THEN queue ELSE AckAll(queue)
           packet == [index |-> block, format |-> format, left |-> length, due |-> 0]
<1>1. Ring(queue) /\ block \in Indexes
    BY DEF DartState, RingState
<1>2. GivesBack(queue, kept)
    BY <1>1, NothingBack, AckAllIs
<1>3. packet \in Packets
    BY <1>1, PacketIs
<1>4. \/ answered' = <<block>> /\ queue' = queue
      \/ queue' = rdpsnd_queue_write(kept, packet) /\ answered' = Answers(queue, kept)
    BY DEF Write
<1> HIDE DEF ready, kept, packet
<1>5. CASE answered' = <<block>> /\ queue' = queue
  <2>1. GivesBack(queue, queue') /\ Answers(queue, queue') = <<>>
    BY <1>1, <1>5, NothingBack, Unanswered
  <2>2. <<block>> \o <<>> = <<block>>
    BY <1>1, ConcatEmptySeq
  <2> QED
    BY <1>1, <1>5, <2>1, <2>2 DEF RingStep
<1> QED
    BY <1>2, <1>3, <1>4, <1>5 DEF RingStep

LEMMA DartChecks ==
    ASSUME DartState, CheckFds
    PROVE  /\ GivesBack(queue, queue') /\ answered' = Answers(queue, queue')
           /\ ulMidBufOutWritePos' \in Int
<1> DEFINE q == rdpsnd_queue_complete_pending(queue)
<1>1. Ring(queue) /\ ulMidBufOutWritePos \in Int /\ cbMidBufOut \in Int
    BY BufferAssumption DEF DartState, RingState, cbMidBufOut
<1>2. GivesBack(queue, q) /\ q.lo = queue.lo
    BY <1>1, CompleteIs
<1>3. /\ \/ q.lo # q.hi /\ Play(q)
         \/ queue' = q /\ UNCHANGED ulMidBufOutWritePos
      /\ answered' = Answers(queue, queue')
    BY DEF CheckFds
<1> HIDE DEF q
<1>4. CASE queue' = q /\ UNCHANGED ulMidBufOutWritePos
    BY <1>1, <1>2, <1>3, <1>4
<1>5. CASE q.lo # q.hi /\ Play(q)
  <2> DEFINE left == q.packets[q.lo].left
             room == cbMidBufOut - ulMidBufOutWritePos
             copied == IF left < room THEN left ELSE room
  <2>1. Ring(q) /\ left \in Nat
    BY <1>2 DEF GivesBack, Ring, Queues, Packets
  <2> HIDE DEF left
  <2>2. copied \in Int /\ (copied < left => left - copied \in Nat)
    BY <1>1, <2>1
  <2>3. /\ ulMidBufOutWritePos' = ulMidBufOutWritePos + copied
        /\ \/ copied < left /\ queue' = [q EXCEPT !.packets[q.lo].left = left - copied]
           \/ queue' \in {rdpsnd_queue_next(q, delay) : delay \in 0..MaxDelay}
    BY <1>5 DEF Play, left
  <2> HIDE DEF copied
  <2>4. GivesBack(q, queue')
    <3>1. CASE copied < left /\ queue' = [q EXCEPT !.packets[q.lo].left = left - copied]
      BY <2>1, <2>2, <3>1, LeftIs
    <3>2. CASE queue' \in {rdpsnd_queue_next(q, delay) : delay \in 0..MaxDelay}
      BY <1>5, <2>1, <3>2, NextIs
    <3> QED
      BY <2>3, <3>1, <3>2
  <2>5. GivesBack(queue, queue')
    BY <1>1, <1>2, <2>4, GivesBackAgain
  <2> QED
    BY <1>1, <1>3, <2>2, <2>3, <2>5
<1> QED
    BY <1>3, <1>4, <1>5

LEMMA DartStep ==
    ASSUME DartState, DartNext
    PROVE  DartState' /\ Promise!Next
<1>1. Ring(queue)
    BY DEF DartState, RingState
<1>2. GivesBack(queue, AckAll(queue)) /\ GivesBack(queue, queue) /\ Answers(queue, queue) = <<>>
    BY <1>1, AckAllIs, NothingBack, Unanswered
<1>3. RingStep => Ring(queue)' /\ answered' \in Seq(Indexes) /\ Promise!Next
  <2>1. Ring(queue)' <=> Ring(queue')
    BY DEF Ring, Ordered
  <2> QED
    BY <1>1, <2>1, RingStepIs
<1> DEFINE Goal ==
        /\ RingStep
        /\ ulMidBufOutWritePos' \in Int
        /\ current_driver' \in BOOLEAN /\ rdpsnd_negotiated' \in BOOLEAN /\ device_open' \in BOOLEAN
        /\ current_format' \in Formats /\ block' \in Indexes
<1> SUFFICES Goal
    BY <1>3 DEF DartState, RingState
<1>4. /\ ulMidBufOutWritePos \in Int
      /\ current_driver \in BOOLEAN /\ rdpsnd_negotiated \in BOOLEAN /\ device_open \in BOOLEAN
      /\ current_format \in Formats /\ block \in Indexes
    BY DEF DartState, RingState
<1>5. ASSUME NEW format \in Formats, NEW length \in Lengths, Write(format, length)
      PROVE  Goal
  <2>1. RingStep
    BY <1>5, DartWrites
  <2>2. block' \in Indexes
    BY <1>4, <1>5, NextBlock DEF Write
  <2>3. \/ UNCHANGED <<deviceVars, bufferVars>>
        \/ /\ device_open' = TRUE /\ current_format' = format
           /\ UNCHANGED <<current_driver, rdpsnd_negotiated>>
           /\ UNCHANGED bufferVars \/ AudioOutOpen
    BY <1>5 DEF Write
  <2>4. /\ ulMidBufOutWritePos' \in Int
        /\ current_driver' \in BOOLEAN /\ rdpsnd_negotiated' \in BOOLEAN /\ device_open' \in BOOLEAN
        /\ current_format' \in Formats
    <3>1. CASE UNCHANGED <<deviceVars, bufferVars>>
      BY <1>4, <3>1 DEF deviceVars, bufferVars
    <3>2. CASE /\ device_open' = TRUE /\ current_format' = format
               /\ UNCHANGED <<current_driver, rdpsnd_negotiated>>
               /\ UNCHANGED bufferVars \/ AudioOutOpen
      <4>1. ulMidBufOutWritePos' \in Int
        BY <1>4, <3>2 DEF bufferVars, AudioOutOpen
      <4> QED
        BY <1>4, <3>2, <4>1
    <3> QED
      BY <2>3, <3>1, <3>2
  <2> QED
    BY <2>1, <2>2, <2>4
<1>6. CASE Close
  <2>1. RingStep
    BY <1>2, <1>6 DEF Close, RingStep
  <2> QED
    BY <1>4, <1>6, <2>1 DEF Close, AudioClose
<1>7. CASE Negotiate
  <2>1. RingStep
    BY <1>2, <1>7 DEF Negotiate, ResetAnswers, RingStep
  <2> QED
    BY <1>4, <1>7, <2>1 DEF Negotiate, AudioClose
<1>8. CASE Reset
  <2>1. RingStep
    BY <1>2, <1>8 DEF Reset, ResetAnswers, RingStep
  <2> QED
    BY <1>4, <1>8, <2>1 DEF Reset, AudioClose, bufferVars
<1>9. CASE CheckFds
  <2>1. RingStep /\ ulMidBufOutWritePos' \in Int
    BY <1>9, DartChecks DEF RingStep
  <2> QED
    BY <1>4, <1>9, <2>1 DEF CheckFds, deviceVars
<1>10. CASE AudioCallback
  <2>1. RingStep
    BY <1>2, <1>10 DEF AudioCallback, RingStep
  <2>2. cbRead \in Int
    BY <1>4, BufferAssumption DEF cbRead
  <2> QED
    BY <1>4, <1>10, <2>1, <2>2 DEF AudioCallback, deviceVars
<1>11. CASE DartTick
  <2>1. RingStep
    BY <1>1, <1>11, TickIs DEF DartTick, QueueTick, RingStep
  <2> QED
    BY <1>4, <1>11, <2>1 DEF DartTick, QueueTick, deviceVars, bufferVars
<1> HIDE DEF Goal
<1> QED
    BY <1>5, <1>6, <1>7, <1>8, <1>9, <1>10, <1>11 DEF DartNext, Server

LEMMA DartStutters ==
    ASSUME DartState, UNCHANGED dartVars
    PROVE  DartState' /\ UNCHANGED <<waiting, answered>>
BY DEF dartVars, ringVars, deviceVars, bufferVars, DartState, RingState, Ring, Ordered, waiting

LEMMA DartInvariance == DartSpec => []DartState
<1>1. DartInit => DartState
    BY RingStart DEF DartInit, DartState
<1>2. DartState /\ [DartNext]_dartVars => DartState'
    BY DartStep, DartStutters
<1> QED
    BY <1>1, <1>2, PTL DEF DartSpec

\* The ring of the OS/2 build keeps its types and the order of its positions:
\* what waits to be copied to the device is part of what waits to be acknowledged.
THEOREM DartRing == DartSpec => [](RingTypeOK /\ RingInOrder)
<1>1. DartState => RingTypeOK /\ RingInOrder
    BY RingStateIs DEF DartState
<1> QED
    BY <1>1, DartInvariance, PTL

\* The OS/2 build acknowledges every packet it queued once, in the order they came,
\* whatever is opened, closed, reset or negotiated in between: it implements SoundPromise.
THEOREM DartKeepsPromise == DartSpec => CompletionsInOrder
<1>1. DartInit => Promise!Init
    BY RingStart DEF DartInit
<1>2. DartState /\ [DartNext]_dartVars => [Promise!Next]_(Promise!vars)
    BY DartStep, DartStutters DEF Promise!vars
<1> QED
    BY <1>1, <1>2, DartInvariance, PTL DEF DartSpec, CompletionsInOrder, Promise!Spec

LEMMA EmptyWaitsNot ==
    ASSUME NEW q, Ring(q), q.lo = q.hi, NEW slot \in Slots
    PROVE  ~Waiting(q, slot)
<1>1. q.hi \in Slots /\ Distance(q.hi, q.hi) = 0 /\ Distance(q.hi, slot) \in Nat
    BY NoWay, DistanceIs DEF Ring, Queues
<1> QED
    BY <1>1 DEF Waiting

LEMMA FormatKept ==
    ASSUME DartState, OfCurrentFormat, DartNext
    PROVE  OfCurrentFormat'
<1>1. Ring(queue) /\ GivesBack(queue, AckAll(queue)) /\ GivesBack(queue, queue)
      /\ block \in Indexes /\ current_format \in Formats
    BY AckAllIs, NothingBack DEF DartState, RingState
<1>2. ASSUME NEW kept, GivesBack(queue, kept), NEW slot \in Slots, Waiting(kept, slot)
      PROVE  kept.packets[slot].format = current_format
    BY <1>1, <1>2, WaitsLess DEF OfCurrentFormat
<1>3. ASSUME GivesBack(queue, queue'), UNCHANGED current_format
      PROVE  OfCurrentFormat'
    BY <1>2, <1>3 DEF OfCurrentFormat, Waiting
<1>4. ASSUME queue' = EmptyQueue
      PROVE  OfCurrentFormat'
  <2>1. Ring(EmptyQueue) /\ EmptyQueue.lo = EmptyQueue.hi
    BY EmptyIs DEF EmptyQueue
  <2>2. \A slot \in Slots : ~Waiting(queue', slot)
    BY <1>4, <2>1, EmptyWaitsNot
  <2> QED
    BY <2>2 DEF OfCurrentFormat, Waiting
<1>5. ASSUME NEW format \in Formats, NEW length \in Lengths, Write(format, length)
      PROVE  OfCurrentFormat'
  <2> DEFINE ready == device_open /\ format = current_format
             kept == IF ready THEN queue ELSE AckAll(queue)
             packet == [index |-> block, format |-> format, left |-> length, due |-> 0]
  <2>1. CASE queue' = rdpsnd_queue_write(kept, packet) /\ current_format' = format
    <3>1. GivesBack(queue, kept) /\ Ring(kept)
      BY <1>1 DEF GivesBack
    <3>2. packet \in Packets /\ packet.format = format
      BY <1>1, PacketIs
    <3>3. \A slot \in Slots : Waiting(kept, slot) => kept.packets[slot].format = format
      <4>1. CASE ready
        BY <1>2, <3>1, <4>1
      <4>2. CASE ~ready
        BY <1>1, <3>1, <4>2, AckAllIs, EmptyWaitsNot
      <4> QED
        BY <4>1, <4>2
    <3> HIDE DEF ready, kept, packet
    <3>4. \A slot \in Slots : Waiting(queue', slot) => queue'.packets[slot].format = format
      BY <2>1, <3>1, <3>2, <3>3, WriteIs
    <3> QED
      BY <2>1, <3>4 DEF OfCurrentFormat, Waiting
  <2>2. CASE UNCHANGED <<queue, deviceVars>>
    BY <1>1, <1>3, <2>2 DEF deviceVars
  <2> QED
    BY <1>5, <2>1, <2>2 DEF Write
<1>6. CASE Close
    BY <1>1, <1>3, <1>6 DEF Close
<1>7. CASE Negotiate
    BY <1>1, <1>3, <1>4, <1>7 DEF Negotiate
<1>8. CASE Reset
    BY <1>4, <1>8 DEF Reset
<1>9. CASE CheckFds
  <2>1. GivesBack(queue, queue')
    BY <1>9, DartChecks
  <2> QED
    BY <1>3, <1>9, <2>1 DEF CheckFds, deviceVars
<1>10. CASE AudioCallback
    BY <1>1, <1>3, <1>10 DEF AudioCallback, deviceVars
<1>11. CASE DartTick
    BY <1>1, <1>3, <1>11, TickIs DEF DartTick, QueueTick, deviceVars
<1> QED
    BY <1>5, <1>6, <1>7, <1>8, <1>9, <1>10, <1>11 DEF DartNext, Server

\* No packet of an earlier format is still to be copied when DART's device has
\* the next: a packet is never played in another format than its own.
THEOREM DartFormats == DartSpec => []OfCurrentFormat
<1>1. DartInit => OfCurrentFormat
  <2> SUFFICES ASSUME DartInit PROVE OfCurrentFormat
      OBVIOUS
  <2>1. queue = EmptyQueue /\ Ring(EmptyQueue) /\ EmptyQueue.lo = EmptyQueue.hi
    BY EmptyIs DEF DartInit, RingInit, EmptyQueue
  <2> QED
    BY <2>1, EmptyWaitsNot DEF OfCurrentFormat
<1>2. DartState /\ OfCurrentFormat /\ [DartNext]_dartVars => OfCurrentFormat'
  <2>1. ASSUME OfCurrentFormat, UNCHANGED dartVars PROVE OfCurrentFormat'
    BY <2>1 DEF OfCurrentFormat, Waiting, dartVars, ringVars, deviceVars
  <2> QED
    BY <2>1, FormatKept
<1> QED
    BY <1>1, <1>2, DartInvariance, PTL DEF DartSpec

-----------------------------------------------------------------------------
(* The other drivers: what they do to the ring *)

USE DriversAssumption

DriverState == RingState /\ driver \in Drivers

LEMMA WroteIs ==
    ASSUME driver \in Drivers, NEW q, Ring(q), q.lo # q.hi,
           NEW k \in 0..q.packets[q.lo].left, NEW r \in Wrote(q, k)
    PROVE  GivesBack(q, r)
<1>1. q.packets[q.lo].left \in Nat /\ q \in Queues
    BY DEF Ring, Queues, Packets
<1>2. CASE r \in {rdpsnd_queue_next(q, delay) : delay \in 0..DriverDelay[driver]}
  <2>1. \A delay \in 0..DriverDelay[driver] : delay \in 0..MaxDelay
    BY DriverDelayAssumption
  <2> QED
    BY <1>2, <2>1, NextIs
<1>3. CASE r = [q EXCEPT !.packets[q.lo].left = q.packets[q.lo].left - k]
  <2> DEFINE n == q.packets[q.lo].left - k
  <2>1. n \in Nat
    BY <1>1
  <2> HIDE DEF n
  <2>2. r = [q EXCEPT !.packets[q.lo].left = n]
    BY <1>3 DEF n
  <2> QED
    BY <2>1, <2>2, LeftIs
<1>4. \/ r \in {rdpsnd_queue_next(q, delay) : delay \in 0..DriverDelay[driver]}
      \/ r = [q EXCEPT !.packets[q.lo].left = q.packets[q.lo].left - k]
    BY <1>1 DEF Wrote
<1> QED
    BY <1>2, <1>3, <1>4

LEMMA GivenUpIs ==
    ASSUME driver \in Drivers, NEW q, Ring(q), q.lo # q.hi, NEW r \in GivenUp(q)
    PROVE  GivesBack(q, r)
<1>1. \A delay \in 0..DriverDelay[driver] : delay \in 0..MaxDelay
    BY DriverDelayAssumption
<1> QED
    BY <1>1, NextIs DEF GivenUp

LEMMA AtMostIs ==
    ASSUME NEW q, Ring(q)
    PROVE  AtMost(q) \in Nat /\ AtMost(q) <= q.packets[q.lo].left /\ q.packets[q.lo].left \in Nat
<1>1. q.packets[q.lo].left \in Nat
    BY DEF Ring, Queues, Packets
<1> QED
    BY <1>1, MaxWriteAssumption DEF AtMost

LEMMA PlayedIs ==
    ASSUME driver \in Drivers, NEW q, Ring(q), NEW r \in Played(q)
    PROVE  GivesBack(q, r)
<1>1. GivesBack(q, q)
    BY NothingBack
<1>2. CASE ~device_open \/ ~HasDevice \/ q.lo = q.hi
    BY <1>1, <1>2 DEF Played
<1>3. CASE ~(~device_open \/ ~HasDevice \/ q.lo = q.hi)
  <2> USE <1>3
  <2>1. q.lo # q.hi
    OBVIOUS
  <2> DEFINE left == q.packets[q.lo].left
  <2>2. AtMost(q) \in Nat /\ AtMost(q) <= left /\ left \in Nat
    BY AtMostIs
  <2> HIDE DEF left
  <2>3. \A k \in 0..AtMost(q) : k \in 0..left
    BY <2>2
  <2>4. 0 \in 0..MaxDelay
    OBVIOUS
  <2>5. GivesBack(q, rdpsnd_queue_next(q, 0))
    BY <2>1, <2>4, NextIs
  <2>6. \A k \in 0..AtMost(q) : \A s \in Wrote(q, k) : GivesBack(q, s)
    BY <2>1, <2>3, WroteIs DEF left
  <2>7. r \in oss_play(q) => GivesBack(q, r)
    <3>1. \A k \in 1..AtMost(q) : k \in 0..AtMost(q)
      BY <2>2
    <3> QED
      BY <1>1, <2>5, <2>6, <3>1 DEF oss_play
  <2>8. r \in alsa_play(q) => GivesBack(q, r)
    <3>1. r \in alsa_play(q) =>
              r = q \/ (\E k \in 0..AtMost(q) : r \in Wrote(q, k)) \/ r \in GivenUp(q)
      BY DEF alsa_play
    <3>2. r \in GivenUp(q) => GivesBack(q, r)
      BY <2>1, GivenUpIs
    <3> QED
      BY <1>1, <2>6, <3>1, <3>2
  <2>9. r \in libao_play(q) => GivesBack(q, r)
    <3>1. AtMost(q) \in 0..AtMost(q)
      BY <2>2
    <3> QED
      BY <2>1, <2>6, <3>1, GivenUpIs DEF libao_play
  <2>10. ASSUME r \in sgi_play(q) PROVE GivesBack(q, r)
    <3>1. PICK k \in 0..Distance(q.lo, q.hi) :
              r = LET s == NextAtOnce(q, k)
                  IN IF s.lo = s.hi THEN s ELSE [s EXCEPT !.packets[s.lo].left = 0]
      BY <2>10 DEF sgi_play
    <3> DEFINE s == NextAtOnce(q, k)
    <3>2. GivesBack(q, s) /\ Ring(s)
      BY NextAtOnceIs DEF GivesBack
    <3>3. GivesBack(s, [s EXCEPT !.packets[s.lo].left = 0])
      BY <3>2, LeftIs
    <3>4. r = s \/ r = [s EXCEPT !.packets[s.lo].left = 0]
      BY <3>1
    <3> HIDE DEF s
    <3> QED
      BY <3>2, <3>3, <3>4, GivesBackAgain
  <2>11. \/ r \in oss_play(q) \/ r \in alsa_play(q) \/ r \in libao_play(q) \/ r \in sgi_play(q)
    BY DEF Played, sun_play
  <2> QED
    BY <2>7, <2>8, <2>9, <2>10, <2>11
<1> QED
    BY <1>2, <1>3

LEMMA RecordedIs ==
    ASSUME driver \in Drivers, NEW q, Ring(q),
           NEW heard \in IF device_open \/ rec_device_open THEN Recorded(q) ELSE {Silence(q)}
    PROVE  GivesBack(q, heard.queue)
<1>1. GivesBack(q, q)
    BY NothingBack
<1>2. heard \in Reads(q) => heard.queue = q
    BY DEF Reads, Silence, rdpsnd_record, Heard
<1>3. heard = Silence(q) => heard.queue = q
    BY DEF Silence, Heard
<1>4. ASSUME heard = ReadFails(q) PROVE GivesBack(q, heard.queue)
  <2>1. 0 \in 0..MaxDelay
    OBVIOUS
  <2>2. CASE q.lo = q.hi
    BY <1>1, <1>4, <2>2 DEF ReadFails, Heard
  <2>3. CASE q.lo # q.hi
    BY <1>4, <2>1, <2>3, NextIs DEF ReadFails, Heard
  <2> QED
    BY <2>2, <2>3
<1>5. heard \in Reads(q) \/ heard = Silence(q) \/ heard = ReadFails(q)
  <2>1. CASE heard \in Recorded(q)
    <3>1. heard \in oss_record(q) \/ heard \in sun_record(q) \/ heard \in alsa_record(q)
          \/ heard = Silence(q)
      BY <2>1 DEF Recorded
    <3> QED
      BY <3>1 DEF oss_record, sun_record, alsa_record
  <2> QED
    BY <2>1
<1> QED
    BY <1>1, <1>2, <1>3, <1>4, <1>5

LEMMA DriverWritesRing ==
    ASSUME DriverState, NEW format \in Formats, NEW length \in Lengths, DriverWrite(format, length)
    PROVE  RingStep
<1> DEFINE packet == Packet(format, length)
<1>1. /\ Ring(queue) /\ block \in Indexes /\ GivesBack(queue, queue) /\ Answers(queue, queue) = <<>>
      /\ GivesBack(queue, AckAll(queue)) /\ packet \in Packets
    BY NothingBack, Unanswered, AckAllIs, PacketIs DEF DriverState, RingState, Packet
<1>2. \/ queue' = rdpsnd_queue_write(queue, packet) /\ answered' = <<>>
      \/ queue' = queue /\ answered' = <<block>>
      \/ queue' = queue /\ answered' = <<>>
      \/ queue' = AckAll(queue) /\ answered' = <<block>> \o Answers(queue, AckAll(queue))
    BY DEF DriverWrite, WriteOn, WriteAnew
<1>3. <<block>> \o <<>> = <<block>>
    BY <1>1, ConcatEmptySeq
<1> HIDE DEF packet
<1> QED
    BY <1>1, <1>2, <1>3 DEF RingStep

LEMMA DriverChecks ==
    ASSUME DriverState, DriverCheckFds
    PROVE  GivesBack(queue, queue') /\ answered' = Answers(queue, queue')
<1> DEFINE p == rdpsnd_queue_complete_pending(queue)
<1>1. Ring(queue) /\ driver \in Drivers
    BY DEF DriverState, RingState
<1>2. GivesBack(queue, p) /\ Ring(p)
    BY <1>1, CompleteIs DEF GivesBack
<1> HIDE DEF p
<1>3. PICK q \in Played(p) :
          \E heard \in IF device_open \/ rec_device_open THEN Recorded(q) ELSE {Silence(q)} :
             queue' = heard.queue /\ answered' = Answers(queue, heard.queue)
    BY DEF DriverCheckFds, p
<1>4. PICK heard \in IF device_open \/ rec_device_open THEN Recorded(q) ELSE {Silence(q)} :
             queue' = heard.queue /\ answered' = Answers(queue, heard.queue)
    BY <1>3
<1>5. GivesBack(p, q) /\ Ring(q)
    BY <1>1, <1>2, PlayedIs DEF GivesBack
<1>6. GivesBack(q, queue')
    BY <1>1, <1>4, <1>5, RecordedIs
<1>7. GivesBack(queue, queue')
    BY <1>1, <1>2, <1>5, <1>6, GivesBackAgain
<1> QED
    BY <1>4, <1>7

LEMMA DriverRing ==
    ASSUME DriverState, DriverNext
    PROVE  RingStep
<1>1. /\ Ring(queue) /\ GivesBack(queue, queue) /\ Answers(queue, queue) = <<>>
      /\ GivesBack(queue, AckAll(queue)) /\ driver \in Drivers
    BY NothingBack, Unanswered, AckAllIs DEF DriverState, RingState
<1>2. ASSUME queue' = queue, answered' = <<>> PROVE RingStep
    BY <1>1, <1>2 DEF RingStep
<1>3. ResetSound => RingStep
    BY DEF ResetSound, RingStep
<1>4. DriverClose => RingStep
    BY <1>1 DEF DriverClose, RingStep
<1>5. DriverNegotiate => RingStep
    BY <1>2, <1>3 DEF DriverNegotiate, Negotiation
<1>6. RecNegotiate => RingStep
    BY <1>2, <1>3 DEF RecNegotiate, Negotiation
<1>7. RecStop => RingStep
    BY <1>2 DEF RecStop
<1>8. \A format \in RecFormats : RecStart(format) => RingStep
    BY <1>2 DEF RecStart
<1>9. DriverReset => RingStep
    BY <1>3 DEF DriverReset
<1>10. DriverTick => RingStep
    BY <1>1, TickIs DEF DriverTick, QueueTick, RingStep
<1>11. DriverCheckFds => RingStep
    BY DriverChecks DEF RingStep
<1> QED
    BY <1>4, <1>5, <1>6, <1>7, <1>8, <1>9, <1>10, <1>11, DriverWritesRing DEF DriverNext, DriverServer

-----------------------------------------------------------------------------
(* Their devices.  A call that fails without reason leaves trouble behind; *)
(* the facts below are about the others.                                    *)

Results == [dsp : Devices, ok : BOOLEAN]

LEMMA ResultIs ==
    ASSUME NEW d \in Devices, NEW ok \in BOOLEAN
    PROVE  Result(d, ok) \in Results /\ Result(d, ok).dsp = d /\ Result(d, ok).ok = ok
BY DEF Result, Results

LEMMA FailsIs ==
    ASSUME NEW d \in Devices, NEW r \in Fails(d)
    PROVE  r \in Results /\ r.dsp.trouble
<1> DEFINE e == [d EXCEPT !.trouble = TRUE]
<1>1. e \in Devices /\ e.trouble
    BY DEF Devices
<1>2. r = Result(e, FALSE)
    BY DEF Fails
<1> HIDE DEF e
<1> QED
    BY <1>1, <1>2, ResultIs

LEMMA OpensIs ==
    ASSUME NEW d \in Devices, NEW r \in Opens(d)
    PROVE  /\ r \in Results
           /\ r.dsp.trouble \/
              (/\ r.ok /\ ~d.trouble /\ r.dsp.fd = TRUE /\ r.dsp.configured = FALSE
               /\ r.dsp.mode = d.mode /\ r.dsp.refs = d.refs /\ r.dsp.format = d.format)
<1> DEFINE good == [d EXCEPT !.fd = TRUE, !.configured = FALSE]
           bad == [d EXCEPT !.fd = FALSE, !.configured = FALSE]
<1>1. /\ good \in Devices /\ good.fd = TRUE /\ good.configured = FALSE /\ good.mode = d.mode
      /\ good.refs = d.refs /\ good.format = d.format /\ good.trouble = d.trouble
    BY DEF Devices
<1>2. bad \in Devices
    BY DEF Devices
<1>3. r = Result(good, TRUE) \/ r \in Fails(bad)
    BY DEF Opens
<1> HIDE DEF good, bad
<1>4. CASE r = Result(good, TRUE)
    BY <1>1, <1>4, ResultIs
<1>5. CASE r \in Fails(bad)
    BY <1>2, <1>5, FailsIs
<1> QED
    BY <1>3, <1>4, <1>5

\* The device has a format, which need not be this one.
FormatSet(d, r, format) ==
    /\ ~d.trouble
    /\ r.dsp.fd = d.fd /\ r.dsp.mode = d.mode /\ r.dsp.refs = d.refs
    /\ r.dsp.configured = TRUE
    /\ d.configured => r.dsp.format = d.format
    /\ r.ok => r.dsp.format = format

LEMMA SetFormatIs ==
    ASSUME NEW d \in Devices, NEW format \in Formats, NEW closed \in Devices,
           NEW r \in dsp_set_format(d, format, closed)
    PROVE  r \in Results /\ (r.dsp.trouble \/ FormatSet(d, r, format))
<1> USE DEF FormatSet
<1>1. CASE d.configured
  <2>1. r = Result(d, d.format = format) /\ (d.format = format) \in BOOLEAN
    BY <1>1 DEF dsp_set_format
  <2>2. r \in Results /\ r.dsp = d /\ r.ok = (d.format = format)
    BY <2>1, ResultIs
  <2> QED
    BY <1>1, <2>2 DEF Devices
<1>2. CASE ~d.configured
  <2> DEFINE set == [d EXCEPT !.configured = TRUE, !.format = format]
             bad == [closed EXCEPT !.format = format]
  <2>1. /\ set \in Devices /\ set.configured = TRUE /\ set.format = format /\ set.fd = d.fd
        /\ set.mode = d.mode /\ set.refs = d.refs /\ set.trouble = d.trouble
    BY DEF Devices
  <2>2. bad \in Devices
    BY DEF Devices
  <2>3. r = Result(set, TRUE) \/ r \in Fails(bad)
    BY <1>2 DEF dsp_set_format
  <2> HIDE DEF set, bad
  <2>4. CASE r = Result(set, TRUE)
    BY <1>2, <2>1, <2>4, ResultIs
  <2>5. CASE r \in Fails(bad)
    BY <2>2, <2>5, FailsIs
  <2> QED
    BY <2>3, <2>4, <2>5
<1> QED
    BY <1>1, <1>2

LEMMA OpenAloneIs ==
    ASSUME NEW d \in Devices, NEW way \in Ways, NEW r \in OpenAlone(d, way)
    PROVE  /\ r \in Results /\ r.dsp.trouble = d.trouble
           /\ r.ok => r.dsp.mode = d.mode \cup {way}
           /\ ~r.ok => r.dsp.mode = d.mode
<1> DEFINE e == [d EXCEPT !.mode = d.mode \cup {way}]
<1>1. e \in Devices /\ e.mode = d.mode \cup {way} /\ e.trouble = d.trouble
    BY DEF Devices
<1>2. r = Result(e, TRUE) \/ r = Result(d, FALSE)
    BY DEF OpenAlone
<1> HIDE DEF e
<1> QED
    BY <1>1, <1>2, ResultIs

LEMMA CloseAloneIs ==
    ASSUME NEW d \in Devices, NEW way \in Ways
    PROVE  /\ CloseAlone(d, way) \in Devices
           /\ CloseAlone(d, way).trouble = d.trouble
           /\ CloseAlone(d, way).mode = d.mode \ {way}
BY DEF CloseAlone, Devices

LEMMA OssCloseIs ==
    ASSUME NEW d \in Devices
    PROVE  /\ oss_close(d) \in Devices /\ oss_close(d).fd = FALSE
           /\ oss_close(d).trouble = d.trouble /\ oss_close(d).mode = d.mode
           /\ oss_close(d).format = d.format
BY DEF oss_close, Devices

LEMMA SunCloseIs ==
    ASSUME NEW d \in Devices
    PROVE  /\ sun_close(d) \in Devices /\ sun_close(d).refs = d.refs - 1
           /\ sun_close(d).fd = (d.fd /\ d.refs # 1)
           /\ sun_close(d).trouble = d.trouble /\ sun_close(d).mode = d.mode
           /\ sun_close(d).format = d.format /\ sun_close(d).configured = d.configured
<1> DEFINE n == d.refs - 1
           fd == d.fd /\ d.refs # 1
<1>1. n \in Int /\ fd \in BOOLEAN
    BY DEF Devices
<1>2. sun_close(d) = [d EXCEPT !.refs = n, !.fd = fd]
    BY DEF sun_close
<1> HIDE DEF n, fd
<1>3. /\ sun_close(d) \in Devices /\ sun_close(d).refs = n /\ sun_close(d).fd = fd
      /\ sun_close(d).trouble = d.trouble /\ sun_close(d).mode = d.mode
      /\ sun_close(d).format = d.format /\ sun_close(d).configured = d.configured
    BY <1>1, <1>2 DEF Devices
<1> QED
    BY <1>3 DEF n, fd

\* The device is open for these users, and only for them.
Fits(d, users) ==
    /\ driver = "oss" => d.fd = (users # {}) /\ (d.fd => d.mode = users)
    /\ driver = "sun" => /\ d.fd = (users # {}) /\ (d.fd => users \subseteq d.mode)
                         /\ d.refs = Cardinality(users)
    /\ driver \notin {"oss", "sun"} => d.mode = users

PlaysOnly == driver \in {"libao", "sgi"}

LEMMA UsersAre ==
    ASSUME NEW users \in SUBSET Ways
    PROVE  /\ users \in {{}, {"out"}, {"in"}, Ways}
           /\ IsFiniteSet(users) /\ Cardinality({}) = 0 /\ Cardinality({"out"}) = 1
           /\ Cardinality({"in"}) = 1 /\ Cardinality(Ways) = 2
<1>1. Ways = {"out"} \cup {"in"}
    BY DEF Ways
<1>2. /\ IsFiniteSet({}) /\ IsFiniteSet({"out"}) /\ IsFiniteSet({"in"})
      /\ Cardinality({}) = 0 /\ Cardinality({"out"}) = 1 /\ Cardinality({"in"}) = 1
    BY FS_EmptySet, FS_Singleton
<1>3. IsFiniteSet({"out"} \cup {"in"}) /\ Cardinality({"out"} \cup {"in"}) = 2
  <2> DEFINE one == {"out"}
  <2>1. "in" \notin one /\ IsFiniteSet(one) /\ Cardinality(one) = 1
    BY <1>2
  <2> HIDE DEF one
  <2>2. IsFiniteSet(one \cup {"in"}) /\ Cardinality(one \cup {"in"}) = Cardinality(one) + 1
    BY <2>1, FS_AddElement
  <2>3. IsFiniteSet(one \cup {"in"}) /\ Cardinality(one \cup {"in"}) = 2
    BY <2>1, <2>2
  <2> QED
    BY <2>3 DEF one
<1>4. users \in {{}, {"out"}, {"in"}, Ways}
    BY DEF Ways
<1> QED
    BY <1>1, <1>2, <1>3, <1>4

LEMMA OssOpenFits ==
    ASSUME driver = "oss", NEW d \in Devices, NEW users \in SUBSET Ways, NEW way \in Ways \ users,
           Fits(d, users), NEW r \in oss_open(d, way)
    PROVE  /\ r \in Results
           /\ r.dsp.trouble \/ (~d.trouble /\ Fits(r.dsp, IF r.ok THEN users \cup {way} ELSE users))
<1>1. CASE ~d.fd
  <2> DEFINE e == [d EXCEPT !.mode = {way}]
  <2>1. e \in Devices /\ e.mode = {way} /\ e.trouble = d.trouble
    BY DEF Devices
  <2>2. r \in Opens(e)
    BY <1>1 DEF oss_open
  <2>3. users = {}
    BY <1>1 DEF Fits, Devices
  <2> HIDE DEF e
  <2> QED
    BY <2>1, <2>2, <2>3, OpensIs, ZenonT(60) DEF Fits
<1>2. CASE d.fd
  <2>1. users # {} /\ d.mode = users /\ d.mode # {way} /\ users \cup {way} = Ways
    BY <1>2, ZenonT(60) DEF Fits, Ways
  <2>2. CASE ~duplex
    <3>1. r = Result(d, FALSE)
      BY <1>2, <2>1, <2>2 DEF oss_open
    <3> QED
      BY <3>1, ResultIs
  <2>3. CASE duplex
    <3> DEFINE e == [d EXCEPT !.mode = Ways]
    <3>1. e \in Devices /\ e.mode = Ways /\ e.trouble = d.trouble
      BY DEF Devices
    <3>2. r \in Opens(e)
      BY <1>2, <2>1, <2>3 DEF oss_open
    <3> HIDE DEF e
    <3> QED
      BY <2>1, <3>1, <3>2, OpensIs DEF Fits
  <2> QED
    BY <2>2, <2>3
<1> QED
    BY <1>1, <1>2 DEF Devices

LEMMA SunOpenFits ==
    ASSUME driver = "sun", NEW d \in Devices, NEW users \in SUBSET Ways, NEW way \in Ways \ users,
           Fits(d, users), NEW r \in sun_open(d, way)
    PROVE  /\ r \in Results
           /\ r.dsp.trouble \/
              (/\ ~d.trouble /\ Fits(r.dsp, IF r.ok THEN users \cup {way} ELSE users)
               /\ users # {} => r.dsp.configured = d.configured /\ r.dsp.format = d.format)
<1>1. d.refs = Cardinality(users) /\ Cardinality(users \cup {way}) = d.refs + 1 /\ d.refs \in Int
      /\ users \cup {way} # {}
  <2>1. Cardinality(users \cup {way}) = Cardinality(users) + 1
    BY UsersAre, FS_AddElement
  <2> QED
    BY <2>1 DEF Fits, Devices
<1>2. CASE d.fd
  <2> DEFINE n == d.refs + 1
             e == [d EXCEPT !.refs = n]
  <2>1. n \in Int
    BY <1>1
  <2> HIDE DEF n
  <2>2. /\ e \in Devices /\ e.refs = n /\ e.fd = d.fd /\ e.mode = d.mode /\ e.trouble = d.trouble
        /\ e.configured = d.configured /\ e.format = d.format
    BY <2>1 DEF Devices
  <2>3. r = IF d.mode \in {Ways, {way}} THEN Result(e, TRUE) ELSE Result(d, FALSE)
    BY <1>2 DEF sun_open, n
  <2> HIDE DEF e
  <2>4. CASE d.mode \in {Ways, {way}}
    <3>1. r \in Results /\ r.dsp = e /\ r.ok
      BY <2>2, <2>3, <2>4, ResultIs
    <3>2. users \cup {way} \subseteq d.mode
      BY <1>2, <2>4 DEF Fits
    <3> QED
      BY <1>1, <1>2, <2>2, <3>1, <3>2 DEF Fits, n
  <2>5. CASE d.mode \notin {Ways, {way}}
    BY <2>3, <2>5, ResultIs
  <2> QED
    BY <2>4, <2>5
<1>3. CASE ~d.fd
  <2> DEFINE e == [d EXCEPT !.mode = IF duplex THEN Ways ELSE {way}]
  <2>1. /\ e \in Devices /\ way \in e.mode /\ e.refs = d.refs /\ e.trouble = d.trouble /\ e.fd = d.fd
    BY DEF Devices
  <2> HIDE DEF e
  <2>2. PICK o \in Opens(e) : r = Result(IF o.ok THEN [o.dsp EXCEPT !.refs = @ + 1] ELSE o.dsp, o.ok)
    BY <1>3 DEF sun_open, e
  <2>3. users = {} /\ users \cup {way} = {way}
    BY <1>3 DEF Fits
  <2>4. /\ o \in Results
        /\ o.dsp.trouble \/
              (/\ o.ok /\ ~e.trouble /\ o.dsp.fd = TRUE /\ o.dsp.mode = e.mode /\ o.dsp.refs = e.refs)
    BY <2>1, <2>2, OpensIs, ZenonT(60)
  <2>5. o.dsp \in Devices /\ o.ok \in BOOLEAN
    BY <2>4 DEF Results
  <2> DEFINE n == o.dsp.refs + 1
             counted == [o.dsp EXCEPT !.refs = n]
  <2>6. n \in Int
    BY <2>5 DEF Devices
  <2> HIDE DEF n
  <2>7. /\ counted \in Devices /\ counted.refs = n /\ counted.fd = o.dsp.fd
        /\ counted.mode = o.dsp.mode /\ counted.trouble = o.dsp.trouble
    BY <2>5, <2>6 DEF Devices
  <2>8. r = Result(IF o.ok THEN counted ELSE o.dsp, o.ok)
    BY <2>2 DEF n
  <2> HIDE DEF counted
  <2>9. r \in Results /\ r.ok = o.ok /\ r.dsp = IF o.ok THEN counted ELSE o.dsp
    BY <2>5, <2>7, <2>8, ResultIs
  <2>10. CASE o.dsp.trouble
    BY <2>7, <2>9, <2>10
  <2>11. CASE ~o.dsp.trouble
    <3>1. o.ok /\ ~e.trouble /\ o.dsp.fd = TRUE /\ o.dsp.mode = e.mode /\ o.dsp.refs = e.refs
      BY <2>4, <2>11
    <3>2. r.ok /\ r.dsp = counted
      BY <2>9, <3>1
    <3>3. /\ counted.fd = TRUE /\ counted.mode = e.mode /\ counted.refs = d.refs + 1
      BY <2>1, <2>7, <3>1 DEF n
    <3>4. Fits(counted, users \cup {way})
      BY <1>1, <2>1, <2>3, <3>3 DEF Fits
    <3> QED
      BY <2>1, <2>3, <2>9, <3>1, <3>2, <3>4
  <2> QED
    BY <2>10, <2>11
<1> QED
    BY <1>2, <1>3 DEF Devices

\* What the call that opens it leaves.
OpenedFor(d, r, users, way) ==
    /\ ~d.trouble /\ Fits(r.dsp, IF r.ok THEN users \cup {way} ELSE users)
    /\ driver = "sun" /\ users # {} => r.dsp.configured = d.configured /\ r.dsp.format = d.format

LEMMA OpenFits ==
    ASSUME driver \in Drivers, NEW d \in Devices, NEW users \in SUBSET Ways, NEW way \in Ways \ users,
           PlaysOnly => way = "out", Fits(d, users), NEW r \in wave_open(d, way)
    PROVE  r \in Results /\ (r.dsp.trouble \/ OpenedFor(d, r, users, way))
<1> SUFFICES
      /\ r \in Results
      /\ r.dsp.trouble \/
         (/\ ~d.trouble /\ Fits(r.dsp, IF r.ok THEN users \cup {way} ELSE users)
          /\ driver = "sun" /\ users # {} =>
                r.dsp.configured = d.configured /\ r.dsp.format = d.format)
    BY Zenon DEF OpenedFor
<1>1. CASE driver = "oss"
  <2>1. r \in oss_open(d, way)
    BY <1>1 DEF wave_open
  <2> QED
    BY <1>1, <2>1, OssOpenFits
<1>2. CASE driver = "sun"
  <2>1. r \in sun_open(d, way)
    BY <1>2 DEF wave_open
  <2> QED
    BY <1>2, <2>1, SunOpenFits
<1>3. CASE driver \in {"alsa", "libao", "sgi"}
  <2>1. r \in OpenAlone(d, way)
    BY <1>3 DEF wave_open, alsa_open, libao_open, sgi_open, PlaysOnly
  <2>2. d.mode = users
    BY <1>3 DEF Fits
  <2>3. /\ r \in Results /\ r.dsp.trouble = d.trouble /\ r.ok \in BOOLEAN /\ d.trouble \in BOOLEAN
        /\ r.ok => r.dsp.mode = users \cup {way}
        /\ ~r.ok => r.dsp.mode = users
    BY <2>1, <2>2, OpenAloneIs DEF Results, Devices
  <2> QED
    BY <1>3, <2>3 DEF Fits
<1> QED
    BY <1>1, <1>2, <1>3

LEMMA SetFits ==
    ASSUME driver \in Drivers, NEW d \in Devices, NEW users \in SUBSET Ways, users # {},
           Fits(d, users), NEW format \in Formats, NEW s \in wave_set_format(d, format)
    PROVE  /\ s \in Results
           /\ s.dsp.trouble \/
              (/\ ~d.trouble
               /\ Fits(s.dsp, users) \/ (PlaysOnly /\ ~s.ok /\ s.dsp.mode = users \ {"out"})
               /\ driver = "sun" => /\ s.dsp.configured
                                    /\ d.configured => s.dsp.format = d.format
                                    /\ s.ok => s.dsp.format = format)
<1>1. CASE driver = "oss"
  <2>1. s \in dsp_set_format(d, format, oss_close(d)) /\ oss_close(d) \in Devices
    BY <1>1, OssCloseIs DEF wave_set_format, oss_set_format
  <2>2. s \in Results /\ (s.dsp.trouble \/ FormatSet(d, s, format))
    BY <2>1, SetFormatIs
  <2> QED
    BY <1>1, <2>2 DEF Fits, FormatSet
<1>2. CASE driver = "sun"
  <2>1. s \in dsp_set_format(d, format, sun_close(d)) /\ sun_close(d) \in Devices
    BY <1>2, SunCloseIs DEF wave_set_format, sun_set_format
  <2>2. s \in Results /\ (s.dsp.trouble \/ FormatSet(d, s, format))
    BY <2>1, SetFormatIs
  <2> QED
    BY <1>2, <2>2 DEF Fits, FormatSet
<1>3. CASE driver \in {"alsa", "libao", "sgi"}
  <2> DEFINE e == CloseAlone(d, "out")
  <2>1. e \in Devices /\ e.mode = d.mode \ {"out"} /\ e.trouble = d.trouble
    BY CloseAloneIs DEF Ways
  <2>2. \/ s = Result(d, TRUE) \/ s = Result(d, FALSE)
        \/ PlaysOnly /\ s = Result(e, FALSE)
    BY <1>3 DEF wave_set_format, alsa_set_format, libao_set_format, sgi_set_format, PlaysOnly,
                libao_close, sgi_close
  <2>3. d.mode = users /\ d.trouble \in BOOLEAN
    BY <1>3 DEF Fits, Devices
  <2> HIDE DEF e
  <2>4. /\ s \in Results
        /\ \/ s.dsp = d
           \/ PlaysOnly /\ ~s.ok /\ s.dsp = e
    BY <2>1, <2>2, ResultIs
  <2> QED
    BY <1>3, <2>1, <2>3, <2>4
<1> QED
    BY <1>1, <1>2, <1>3

LEMMA OssCloseFits ==
    ASSUME driver = "oss", NEW d \in Devices, NEW users \in SUBSET Ways, NEW way \in users,
           Fits(d, users), NEW e \in oss_close_way(d, way)
    PROVE  e \in Devices /\ (e.trouble \/ (~d.trouble /\ Fits(e, users \ {way})))
<1>1. d.fd = TRUE /\ d.mode = users /\ d.trouble \in BOOLEAN /\ d.format \in Formats
    BY DEF Fits, Devices
<1>2. CASE users # Ways
  <2>1. users \ {way} = {}
    BY <1>2 DEF Ways
  <2>2. e = oss_close(d)
    BY <1>1, <1>2 DEF oss_close_way
  <2> QED
    BY <1>1, <2>1, <2>2, OssCloseIs DEF Fits
<1>3. CASE users = Ways
  <2> DEFINE c == oss_close(d)
  <2>1. c \in Devices /\ c.fd = FALSE /\ c.trouble = d.trouble
    BY OssCloseIs
  <2>2. Fits(c, {})
    BY <2>1 DEF Fits
  <2> HIDE DEF c
  <2> PICK other \in Ways \ {way} : \E opened \in oss_open(c, other) :
            e \in IF opened.ok THEN {set.dsp : set \in oss_set_format(opened.dsp, d.format)}
                  ELSE {opened.dsp}
    BY <1>1, <1>3 DEF oss_close_way, c
  <2>3. PICK opened \in oss_open(c, other) :
            e \in IF opened.ok THEN {set.dsp : set \in oss_set_format(opened.dsp, d.format)}
                  ELSE {opened.dsp}
    OBVIOUS
  <2>4. other \in Ways \ {} /\ {} \in SUBSET Ways /\ users \ {way} = {other} /\ {} \cup {other} = {other}
    BY <1>3, <2>3 DEF Ways
  <2>5. /\ opened \in Results
        /\ opened.dsp.trouble \/
              (~c.trouble /\ Fits(opened.dsp, IF opened.ok THEN {} \cup {other} ELSE {}))
    BY <2>1, <2>2, <2>3, <2>4, OssOpenFits
  <2>6. opened.dsp \in Devices /\ opened.ok \in BOOLEAN
    BY <2>5 DEF Results
  <2>7. CASE ~opened.ok
    <3>1. e = opened.dsp
      BY <2>3, <2>7
    <3>2. opened.dsp.trouble
      <4>1. opened \in Opens([c EXCEPT !.mode = {other}]) /\ [c EXCEPT !.mode = {other}] \in Devices
        BY <2>1, <2>3 DEF oss_open, Devices
      <4> QED
        BY <2>7, <4>1, OpensIs
    <3> QED
      BY <2>6, <3>1, <3>2
  <2>8. CASE opened.ok
    <3>1. PICK set \in dsp_set_format(opened.dsp, d.format, oss_close(opened.dsp)) : e = set.dsp
      BY <2>3, <2>8 DEF oss_set_format
    <3>2. oss_close(opened.dsp) \in Devices
      BY <2>6, OssCloseIs
    <3>3. /\ set \in Results
          /\ set.dsp.trouble \/
                (~opened.dsp.trouble /\ set.dsp.fd = opened.dsp.fd /\ set.dsp.mode = opened.dsp.mode)
      <4>1. set \in Results /\ (set.dsp.trouble \/ FormatSet(opened.dsp, set, d.format))
        BY <1>1, <2>6, <3>1, <3>2, SetFormatIs
      <4> QED
        BY <4>1 DEF FormatSet
    <3>4. e \in Devices
      BY <3>1, <3>3 DEF Results
    <3>5. ASSUME ~e.trouble PROVE ~d.trouble /\ Fits(e, users \ {way})
      <4>1. ~opened.dsp.trouble /\ e.fd = opened.dsp.fd /\ e.mode = opened.dsp.mode
        BY <3>1, <3>3, <3>5
      <4>2. ~c.trouble /\ Fits(opened.dsp, {other})
        BY <2>4, <2>5, <2>8, <4>1
      <4> QED
        BY <2>1, <2>4, <4>1, <4>2 DEF Fits
    <3> QED
      BY <3>4, <3>5
  <2> QED
    BY <2>7, <2>8
<1> QED
    BY <1>2, <1>3

LEMMA CloseFits ==
    ASSUME driver \in Drivers, NEW d \in Devices, NEW users \in SUBSET Ways, NEW way \in users,
           PlaysOnly => way = "out",
           Fits(d, users) \/ (PlaysOnly /\ d.mode = users \ {"out"}), NEW e \in wave_close(d, way)
    PROVE  /\ e \in Devices
           /\ e.trouble \/
              (/\ ~d.trouble /\ Fits(e, users \ {way})
               /\ driver = "sun" => e.configured = d.configured /\ e.format = d.format)
<1>1. CASE driver = "oss"
  <2>1. e \in oss_close_way(d, way) /\ Fits(d, users)
    BY <1>1 DEF wave_close, PlaysOnly
  <2> QED
    BY <1>1, <2>1, OssCloseFits
<1>2. CASE driver = "sun"
  <2>1. e = sun_close(d) /\ Fits(d, users)
    BY <1>2 DEF wave_close, PlaysOnly
  <2>2. /\ e \in Devices /\ e.refs = d.refs - 1 /\ e.fd = (d.fd /\ d.refs # 1)
        /\ e.trouble = d.trouble /\ e.mode = d.mode
        /\ e.format = d.format /\ e.configured = d.configured
    BY <2>1, SunCloseIs
  <2>3. d.fd = TRUE /\ users \subseteq d.mode /\ d.refs = Cardinality(users)
    BY <1>2, <2>1 DEF Fits
  <2>4. Cardinality(users \ {way}) = Cardinality(users) - 1 /\ IsFiniteSet(users \ {way})
    BY UsersAre, FS_RemoveElement
  <2>5. Cardinality(users \ {way}) = 0 <=> users \ {way} = {}
    BY <2>4, FS_EmptySet
  <2>6. Cardinality(users) \in Int
    BY UsersAre, FS_CardinalityType
  <2>7. e.fd = (users \ {way} # {}) /\ users \ {way} \subseteq e.mode
        /\ e.refs = Cardinality(users \ {way})
    BY <2>2, <2>3, <2>4, <2>5, <2>6
  <2> QED
    BY <1>2, <2>2, <2>7 DEF Fits, Devices
<1>3. CASE driver \in {"alsa", "libao", "sgi"}
  <2>1. e = CloseAlone(d, way)
    BY <1>3 DEF wave_close, alsa_close, libao_close, sgi_close, PlaysOnly
  <2>2. e \in Devices /\ e.trouble = d.trouble /\ e.mode = d.mode \ {way} /\ d.trouble \in BOOLEAN
    BY <2>1, CloseAloneIs DEF Devices
  <2>3. e.mode = users \ {way}
    BY <1>3, <2>2 DEF Fits
  <2> QED
    BY <1>3, <2>2, <2>3 DEF Fits
<1> QED
    BY <1>1, <1>2, <1>3

\* Whatever was before, results have their types, and trouble stays.
LEMMA OpenTyped ==
    ASSUME driver \in Drivers, NEW d \in Devices, NEW way \in Ways, NEW r \in wave_open(d, way)
    PROVE  r \in Results /\ (d.trouble => r.dsp.trouble)
<1>1. CASE driver = "oss"
  <2> DEFINE one == [d EXCEPT !.mode = {way}]
             both == [d EXCEPT !.mode = Ways]
  <2>1. /\ one \in Devices /\ both \in Devices
        /\ one.trouble = d.trouble /\ both.trouble = d.trouble
    BY DEF Devices
  <2>2. \/ r \in Opens(one) \/ r \in Opens(both) \/ r = Result(d, TRUE) \/ r = Result(d, FALSE)
    BY <1>1 DEF wave_open, oss_open
  <2> HIDE DEF one, both
  <2>3. /\ Result(d, TRUE) \in Results /\ Result(d, FALSE) \in Results
        /\ Result(d, TRUE).dsp = d /\ Result(d, FALSE).dsp = d
    BY ResultIs
  <2>4. r \in Opens(one) \/ r \in Opens(both) => r \in Results /\ (d.trouble => r.dsp.trouble)
    BY <2>1, OpensIs
  <2> QED
    BY <2>2, <2>3, <2>4
<1>2. CASE driver = "sun"
  <2>1. CASE d.fd
    <3> DEFINE n == d.refs + 1
               e == [d EXCEPT !.refs = n]
    <3>1. n \in Int
      BY DEF Devices
    <3> HIDE DEF n
    <3>2. e \in Devices /\ e.trouble = d.trouble
      BY <3>1 DEF Devices
    <3>3. r = Result(e, TRUE) \/ r = Result(d, FALSE)
      BY <1>2, <2>1 DEF wave_open, sun_open, n
    <3> HIDE DEF e
    <3>4. /\ Result(e, TRUE) \in Results /\ Result(d, FALSE) \in Results
          /\ Result(e, TRUE).dsp = e /\ Result(d, FALSE).dsp = d
      BY <3>2, ResultIs
    <3> QED
      BY <3>2, <3>3, <3>4
  <2>2. CASE ~d.fd
    <3> DEFINE e == [d EXCEPT !.mode = IF duplex THEN Ways ELSE {way}]
    <3>1. e \in Devices /\ e.trouble = d.trouble
      BY DEF Devices
    <3>2. PICK o \in Opens(e) :
              r = Result(IF o.ok THEN [o.dsp EXCEPT !.refs = o.dsp.refs + 1] ELSE o.dsp, o.ok)
      BY <1>2, <2>2 DEF wave_open, sun_open
    <3> HIDE DEF e
    <3>3. o.dsp \in Devices /\ o.ok \in BOOLEAN
      BY <3>1, <3>2, OpensIs DEF Results
    <3>4. d.trouble => o.dsp.trouble
      BY <3>1, <3>2, OpensIs
    <3> DEFINE n == o.dsp.refs + 1
               f == [o.dsp EXCEPT !.refs = n]
    <3>5. n \in Int
      BY <3>3 DEF Devices
    <3> HIDE DEF n
    <3>6. f \in Devices /\ f.trouble = o.dsp.trouble
      BY <3>3, <3>5 DEF Devices
    <3> DEFINE g == IF o.ok THEN f ELSE o.dsp
    <3>7. r = Result(g, o.ok)
      BY <3>2 DEF n
    <3> HIDE DEF f
    <3>8. g \in Devices /\ (d.trouble => g.trouble)
      BY <3>3, <3>4, <3>6
    <3> HIDE DEF g
    <3>9. r \in Results /\ r.dsp = g
      BY <3>3, <3>7, <3>8, ResultIs
    <3> QED
      BY <3>8, <3>9
  <2> QED
    BY <2>1, <2>2
<1>3. CASE driver \in {"alsa", "libao", "sgi"}
  <2>1. r \in OpenAlone(d, way) \/ r \in OpenAlone(d, "out")
    BY <1>3 DEF wave_open, alsa_open, libao_open, sgi_open
  <2> QED
    BY <2>1, OpenAloneIs DEF Ways
<1> QED
    BY <1>1, <1>2, <1>3

LEMMA SetTyped ==
    ASSUME driver \in Drivers, NEW d \in Devices, NEW format \in Formats,
           NEW s \in wave_set_format(d, format)
    PROVE  s \in Results /\ (d.trouble => s.dsp.trouble)
<1>1. CASE driver \in {"oss", "sun"}
  <2>1. oss_close(d) \in Devices /\ sun_close(d) \in Devices
    BY OssCloseIs, SunCloseIs
  <2>2. s \in dsp_set_format(d, format, oss_close(d)) \/ s \in dsp_set_format(d, format, sun_close(d))
    BY <1>1 DEF wave_set_format, oss_set_format, sun_set_format
  <2>3. s \in Results /\ (s.dsp.trouble \/ FormatSet(d, s, format))
    BY <2>1, <2>2, SetFormatIs
  <2> QED
    BY <2>3 DEF FormatSet
<1>2. CASE driver \in {"alsa", "libao", "sgi"}
  <2> DEFINE e == CloseAlone(d, "out")
  <2>1. e \in Devices /\ e.trouble = d.trouble
    BY CloseAloneIs DEF Ways
  <2>2. s = Result(d, TRUE) \/ s = Result(d, FALSE) \/ s = Result(e, FALSE)
    BY <1>2 DEF wave_set_format, alsa_set_format, libao_set_format, sgi_set_format,
                libao_close, sgi_close
  <2> HIDE DEF e
  <2>3. s \in Results /\ (s.dsp = d \/ s.dsp = e)
    BY <2>1, <2>2, ResultIs
  <2> QED
    BY <2>1, <2>3
<1> QED
    BY <1>1, <1>2

LEMMA CloseTyped ==
    ASSUME driver \in Drivers, NEW d \in Devices, NEW way \in Ways, NEW e \in wave_close(d, way)
    PROVE  e \in Devices
<1>1. CASE driver = "oss"
  <2>1. CASE d.mode # Ways
    <3>1. e = oss_close(d)
      BY <1>1, <2>1 DEF wave_close, oss_close_way
    <3> QED
      BY <3>1, OssCloseIs
  <2>2. CASE d.mode = Ways
    <3> DEFINE c == oss_close(d)
    <3>1. c \in Devices /\ c.fd = FALSE /\ d.format \in Formats
      BY OssCloseIs DEF Devices
    <3> HIDE DEF c
    <3> PICK other \in Ways \ {way} : \E opened \in oss_open(c, other) :
            e \in IF opened.ok THEN {set.dsp : set \in oss_set_format(opened.dsp, d.format)}
                  ELSE {opened.dsp}
      BY <1>1, <2>2 DEF wave_close, oss_close_way, c
    <3>2. PICK opened \in oss_open(c, other) :
            e \in IF opened.ok THEN {set.dsp : set \in oss_set_format(opened.dsp, d.format)}
                  ELSE {opened.dsp}
      OBVIOUS
    <3>3. opened \in Results
      <4>1. opened \in wave_open(c, other)
        BY <1>1 DEF wave_open
      <4> QED
        BY <3>1, <4>1, OpenTyped
    <3>4. opened.dsp \in Devices
      BY <3>3 DEF Results
    <3>5. CASE opened.ok
      <4>1. PICK set \in wave_set_format(opened.dsp, d.format) : e = set.dsp
        BY <1>1, <3>2, <3>5 DEF wave_set_format
      <4>2. set \in Results
        BY <3>1, <3>4, <4>1, SetTyped
      <4> QED
        BY <4>1, <4>2 DEF Results
    <3>6. CASE ~opened.ok
      BY <3>2, <3>4, <3>6
    <3> QED
      BY <3>5, <3>6
  <2> QED
    BY <2>1, <2>2
<1>2. CASE driver = "sun"
    BY <1>2, SunCloseIs DEF wave_close
<1>3. CASE driver \in {"alsa", "libao", "sgi"}
  <2>1. e = CloseAlone(d, way) \/ e = CloseAlone(d, "out")
    BY <1>3 DEF wave_close, alsa_close, libao_close, sgi_close
  <2> QED
    BY <2>1, CloseAloneIs DEF Ways
<1> QED
    BY <1>1, <1>2, <1>3

LEMMA FormatTaken ==
    ASSUME driver \in {"oss", "sun"}, NEW d \in Devices, NEW format \in Formats,
           NEW s \in wave_set_format(d, format)
    PROVE  /\ s.ok => s.dsp.configured /\ s.dsp.format = format
           /\ d.configured /\ d.format # format => ~s.ok
<1>1. PICK closed \in Devices : s \in dsp_set_format(d, format, closed)
    BY OssCloseIs, SunCloseIs DEF wave_set_format, oss_set_format, sun_set_format
<1>2. CASE d.configured
  <2>1. s = Result(d, d.format = format)
    BY <1>1, <1>2 DEF dsp_set_format
  <2>2. s.dsp = d /\ s.ok = (d.format = format)
    BY <2>1 DEF Result
  <2> QED
    BY <1>2, <2>2
<1>3. CASE ~d.configured
  <2> DEFINE set == [d EXCEPT !.configured = TRUE, !.format = format]
             bad == [closed EXCEPT !.format = format]
  <2>1. set \in Devices /\ set.configured = TRUE /\ set.format = format
    BY DEF Devices
  <2>2. s = Result(set, TRUE) \/ s \in Fails(bad)
    BY <1>1, <1>3 DEF dsp_set_format
  <2> HIDE DEF set
  <2>3. CASE s = Result(set, TRUE)
    BY <1>3, <2>1, <2>3, ResultIs
  <2>4. CASE s \in Fails(bad)
    <3>1. s.ok = FALSE
      BY <2>4 DEF Fails, Result
    <3> QED
      BY <3>1
  <2> QED
    BY <2>2, <2>3, <2>4
<1> QED
    BY <1>2, <1>3

LEMMA TroubleStays ==
    ASSUME driver \in Drivers, NEW d \in Devices, d.trouble, NEW way \in Ways, NEW e \in wave_close(d, way)
    PROVE  e.trouble
<1>1. CASE driver = "oss"
  <2>1. CASE d.mode # Ways
    <3>1. e = oss_close(d)
      BY <1>1, <2>1 DEF wave_close, oss_close_way
    <3> QED
      BY <3>1, OssCloseIs
  <2>2. CASE d.mode = Ways
    <3> DEFINE c == oss_close(d)
    <3>1. c \in Devices /\ c.fd = FALSE /\ c.trouble /\ d.format \in Formats
      BY OssCloseIs DEF Devices
    <3> HIDE DEF c
    <3> PICK other \in Ways \ {way} : \E opened \in oss_open(c, other) :
            e \in IF opened.ok THEN {set.dsp : set \in oss_set_format(opened.dsp, d.format)}
                  ELSE {opened.dsp}
      BY <1>1, <2>2 DEF wave_close, oss_close_way, c
    <3>2. PICK opened \in oss_open(c, other) :
            e \in IF opened.ok THEN {set.dsp : set \in oss_set_format(opened.dsp, d.format)}
                  ELSE {opened.dsp}
      OBVIOUS
    <3>3. opened \in Results /\ opened.dsp.trouble
      <4>1. opened \in Opens([c EXCEPT !.mode = {other}])
        BY <3>1, <3>2 DEF oss_open
      <4>2. [c EXCEPT !.mode = {other}] \in Devices /\ [c EXCEPT !.mode = {other}].trouble
        BY <3>1 DEF Devices
      <4> QED
        BY <4>1, <4>2, OpensIs
    <3>4. opened.dsp \in Devices
      BY <3>3 DEF Results
    <3>5. CASE opened.ok
      <4>1. PICK set \in dsp_set_format(opened.dsp, d.format, oss_close(opened.dsp)) : e = set.dsp
        BY <3>2, <3>5 DEF oss_set_format
      <4>2. set.dsp.trouble \/ FormatSet(opened.dsp, set, d.format)
        BY <3>1, <3>4, <4>1, OssCloseIs, SetFormatIs
      <4> QED
        BY <3>3, <4>1, <4>2 DEF FormatSet
    <3>6. CASE ~opened.ok
      BY <3>2, <3>3, <3>6
    <3> QED
      BY <3>5, <3>6
  <2> QED
    BY <2>1, <2>2
<1>2. CASE driver = "sun"
    BY <1>2, SunCloseIs DEF wave_close
<1>3. CASE driver \in {"alsa", "libao", "sgi"}
  <2>1. e = CloseAlone(d, way) \/ e = CloseAlone(d, "out")
    BY <1>3 DEF wave_close, alsa_close, libao_close, sgi_close
  <2> QED
    BY <2>1, CloseAloneIs DEF Ways
<1> QED
    BY <1>1, <1>2, <1>3

\* A device that is opened and closed again is as it was.
LEMMA ProbeFits ==
    ASSUME driver \in Drivers, NEW d \in Devices, NEW way \in Ways, NEW e \in Probe(d, way)
    PROVE  /\ e \in Devices
           /\ \A users \in SUBSET (Ways \ {way}) :
                 Fits(d, users) /\ (PlaysOnly => way = "out") =>
                    e.trouble \/
                       (/\ ~d.trouble /\ Fits(e, users)
                        /\ driver = "sun" /\ users # {} =>
                              e.configured = d.configured /\ e.format = d.format)
<1>1. PICK r \in wave_open(d, way) : e \in IF r.ok THEN wave_close(r.dsp, way) ELSE {r.dsp}
    BY DEF Probe
<1>2. r.dsp \in Devices /\ r.ok \in BOOLEAN
    BY <1>1, OpenTyped DEF Results
<1>3. e \in Devices
    BY <1>1, <1>2, CloseTyped
<1>4. ASSUME NEW users \in SUBSET (Ways \ {way}), Fits(d, users), PlaysOnly => way = "out", ~e.trouble
      PROVE  /\ ~d.trouble /\ Fits(e, users)
             /\ driver = "sun" /\ users # {} =>
                   e.configured = d.configured /\ e.format = d.format
  <2> DEFINE more == users \cup {way}
  <2>1. users \in SUBSET Ways /\ way \in Ways \ users /\ more \in SUBSET Ways /\ way \in more
        /\ more \ {way} = users
    OBVIOUS
  <2>2. ~r.dsp.trouble =>
           /\ ~d.trouble /\ Fits(r.dsp, IF r.ok THEN more ELSE users)
           /\ driver = "sun" /\ users # {} =>
                 r.dsp.configured = d.configured /\ r.dsp.format = d.format
    <3>1. ~r.dsp.trouble => OpenedFor(d, r, users, way)
      BY <1>1, <1>4, <2>1, OpenFits
    <3> QED
      BY <3>1 DEF OpenedFor
  <2> HIDE DEF more
  <2>3. CASE ~r.ok
    BY <1>1, <1>4, <2>2, <2>3
  <2>4. CASE r.ok
    <3>1. e \in wave_close(r.dsp, way)
      BY <1>1, <2>4
    <3>2. ~r.dsp.trouble
      <4>1. SUFFICES ASSUME r.dsp.trouble PROVE FALSE
        OBVIOUS
      <4> QED
        BY <1>2, <1>4, <3>1, <4>1, TroubleStays
    <3>3. Fits(r.dsp, more)
      BY <2>2, <2>4, <3>2
    <3>4. /\ Fits(e, users)
          /\ driver = "sun" => e.configured = r.dsp.configured /\ e.format = r.dsp.format
      BY <1>2, <1>4, <2>1, <3>1, <3>3, CloseFits, SMTT(60)
    <3> QED
      BY <2>2, <3>2, <3>4
  <2> QED
    BY <1>2, <2>3, <2>4
<1> QED
    BY <1>3, <1>4

\* As long as there is no trouble, the device is open for these users and Sun's
\* has the format of the packets.
Serving(d, users, format) ==
    ~d.trouble =>
        /\ Fits(d, users)
        /\ driver = "sun" /\ "out" \in users => d.configured /\ d.format = format

LEMMA CloseServes ==
    ASSUME driver \in Drivers, NEW d \in Devices, NEW users \in SUBSET Ways, NEW way \in users,
           PlaysOnly => way = "out", NEW format, Serving(d, users, format), NEW e \in wave_close(d, way)
    PROVE  e \in Devices /\ Serving(e, users \ {way}, format)
<1>1. e \in Devices
    BY CloseTyped
<1>2. ASSUME ~e.trouble
      PROVE  /\ Fits(e, users \ {way})
             /\ driver = "sun" /\ "out" \in users \ {way} => e.configured /\ e.format = format
  <2>1. ~d.trouble
    <3>1. SUFFICES ASSUME d.trouble PROVE FALSE
      OBVIOUS
    <3> QED
      BY <1>2, <3>1, TroubleStays
  <2>2. Fits(d, users) /\ (driver = "sun" /\ "out" \in users => d.configured /\ d.format = format)
    BY <2>1 DEF Serving
  <2>3. /\ Fits(e, users \ {way})
        /\ driver = "sun" => e.configured = d.configured /\ e.format = d.format
    BY <1>2, <2>2, CloseFits, ZenonT(60)
  <2> QED
    BY <2>2, <2>3
<1> QED
    BY <1>1, <1>2 DEF Serving

LEMMA ProbeServes ==
    ASSUME driver \in Drivers, NEW d \in Devices, NEW users \in SUBSET Ways, NEW way \in Ways \ users,
           PlaysOnly => way = "out", NEW format, Serving(d, users, format), NEW e \in Probe(d, way)
    PROVE  e \in Devices /\ Serving(e, users, format)
<1>1. e \in Devices
    BY ProbeFits
<1>2. PICK r \in wave_open(d, way) : e \in IF r.ok THEN wave_close(r.dsp, way) ELSE {r.dsp}
    BY DEF Probe
<1>3. r.dsp \in Devices /\ r.ok \in BOOLEAN /\ (d.trouble => r.dsp.trouble)
    BY <1>2, OpenTyped DEF Results
<1>4. d.trouble => e.trouble
    BY <1>2, <1>3, TroubleStays
<1>5. ASSUME ~e.trouble
      PROVE  /\ Fits(e, users)
             /\ driver = "sun" /\ "out" \in users => e.configured /\ e.format = format
  <2>1. Fits(d, users) /\ (driver = "sun" /\ "out" \in users => d.configured /\ d.format = format)
    BY <1>4, <1>5 DEF Serving
  <2>2. users \in SUBSET (Ways \ {way})
    OBVIOUS
  <2>3. /\ Fits(e, users)
        /\ driver = "sun" /\ users # {} => e.configured = d.configured /\ e.format = d.format
    BY <1>5, <2>1, <2>2, ProbeFits
  <2> QED
    BY <2>1, <2>3
<1> QED
    BY <1>1, <1>5 DEF Serving

\* The device gets a format for one of its users; if it does not take it, that user goes.
LEMMA FormatServes ==
    ASSUME driver \in Drivers, NEW d \in Devices, NEW users \in SUBSET Ways, NEW way \in users,
           PlaysOnly => way = "out", d.trouble \/ Fits(d, users),
           NEW format \in Formats, NEW s \in wave_set_format(d, format)
    PROVE  /\ s.dsp \in Devices /\ s.ok \in BOOLEAN
           /\ s.ok => /\ Serving(s.dsp, users, format) \/ way # "out"
                      /\ \A old : (driver = "sun" /\ "out" \in users => d.configured /\ d.format = old)
                                     => Serving(s.dsp, users, old)
           /\ ~s.ok => \A e \in wave_close(s.dsp, way) :
                          /\ e \in Devices
                          /\ \A old : (driver = "sun" /\ "out" \in users \ {way} =>
                                          d.configured /\ d.format = old)
                                         => Serving(e, users \ {way}, old)
<1>1. s \in Results /\ s.dsp \in Devices /\ s.ok \in BOOLEAN /\ (d.trouble => s.dsp.trouble)
    BY SetTyped DEF Results
<1>2. ASSUME ~s.dsp.trouble
      PROVE  /\ Fits(s.dsp, users) \/ (PlaysOnly /\ ~s.ok /\ s.dsp.mode = users \ {"out"})
             /\ driver = "sun" => /\ s.dsp.configured
                                  /\ d.configured => s.dsp.format = d.format
                                  /\ s.ok => s.dsp.format = format
    BY <1>1, <1>2, SetFits
<1>3. ASSUME s.ok
      PROVE  /\ Serving(s.dsp, users, format)
             /\ \A old : (driver = "sun" /\ "out" \in users => d.configured /\ d.format = old)
                            => Serving(s.dsp, users, old)
    BY <1>2, <1>3 DEF Serving
<1>4. ASSUME ~s.ok, NEW e \in wave_close(s.dsp, way)
      PROVE  /\ e \in Devices
             /\ \A old : (driver = "sun" /\ "out" \in users \ {way} => d.configured /\ d.format = old)
                            => Serving(e, users \ {way}, old)
  <2>1. e \in Devices
    BY <1>1, CloseTyped
  <2>2. ASSUME ~e.trouble
        PROVE  /\ Fits(e, users \ {way})
               /\ driver = "sun" => e.configured /\ (d.configured => e.format = d.format)
    <3>1. ~s.dsp.trouble
      <4>1. SUFFICES ASSUME s.dsp.trouble PROVE FALSE
        OBVIOUS
      <4> QED
        BY <1>1, <2>2, <4>1, TroubleStays
    <3>2. Fits(s.dsp, users) \/ (PlaysOnly /\ s.dsp.mode = users \ {"out"})
      BY <1>2, <3>1
    <3>3. /\ Fits(e, users \ {way})
          /\ driver = "sun" => e.configured = s.dsp.configured /\ e.format = s.dsp.format
      BY <1>1, <2>2, <3>2, CloseFits
    <3> QED
      BY <1>2, <3>1, <3>3
  <2> QED
    BY <2>1, <2>2 DEF Serving
<1> QED
    BY <1>1, <1>3, <1>4

LEMMA OpenServes ==
    ASSUME driver \in Drivers, NEW d \in Devices, NEW users \in SUBSET Ways, NEW way \in Ways \ users,
           PlaysOnly => way = "out", NEW old, Serving(d, users, old), NEW r \in wave_open(d, way)
    PROVE  /\ r.dsp \in Devices /\ r.ok \in BOOLEAN
           /\ ~r.ok => Serving(r.dsp, users, old)
           /\ r.ok => /\ r.dsp.trouble \/ Fits(r.dsp, users \cup {way})
                      /\ driver = "sun" /\ "out" \in users =>
                            r.dsp.trouble \/ (r.dsp.configured /\ r.dsp.format = old)
<1>1. r.dsp \in Devices /\ r.ok \in BOOLEAN /\ (d.trouble => r.dsp.trouble)
    BY OpenTyped DEF Results
<1>2. ASSUME ~r.dsp.trouble
      PROVE  /\ Fits(r.dsp, IF r.ok THEN users \cup {way} ELSE users)
             /\ driver = "sun" /\ "out" \in users => r.dsp.configured /\ r.dsp.format = old
  <2>1. Fits(d, users) /\ (driver = "sun" /\ "out" \in users => d.configured /\ d.format = old)
    BY <1>1, <1>2 DEF Serving
  <2>2. OpenedFor(d, r, users, way)
    BY <1>2, <2>1, OpenFits
  <2>3. /\ Fits(r.dsp, IF r.ok THEN users \cup {way} ELSE users)
        /\ driver = "sun" /\ users # {} => r.dsp.configured = d.configured /\ r.dsp.format = d.format
    BY <2>2 DEF OpenedFor
  <2> QED
    BY <2>1, <2>3
<1> QED
    BY <1>1, <1>2 DEF Serving

\* Those who use a device that is open for these.
UsersOf(out, in) == (IF out THEN {"out"} ELSE {}) \cup (IF in THEN {"in"} ELSE {})

LEMMA UsersOfIs ==
    ASSUME NEW out \in BOOLEAN, NEW in \in BOOLEAN
    PROVE  /\ UsersOf(out, in) \in SUBSET Ways
           /\ "out" \in UsersOf(out, in) <=> out
           /\ "in" \in UsersOf(out, in) <=> in
           /\ UsersOf(TRUE, in) = UsersOf(out, in) \cup {"out"}
           /\ UsersOf(out, TRUE) = UsersOf(out, in) \cup {"in"}
           /\ UsersOf(FALSE, in) = UsersOf(out, in) \ {"out"}
           /\ UsersOf(out, FALSE) = UsersOf(out, in) \ {"in"}
           /\ UsersOf(FALSE, FALSE) = {}
BY DEF UsersOf, Ways

\* A device that was served is served for these users.
Serves(d, e, users, format) ==
    e \in Devices /\ Serving(e, users, format) /\ (d.trouble => e.trouble)

LEMMA ClosedServes ==
    ASSUME driver \in Drivers, NEW d \in Devices, NEW users \in SUBSET Ways, NEW way \in users,
           PlaysOnly => way = "out", NEW format, Serving(d, users, format), NEW e \in wave_close(d, way)
    PROVE  Serves(d, e, users \ {way}, format)
<1>1. e \in Devices /\ Serving(e, users \ {way}, format)
    BY CloseServes
<1>2. d.trouble => e.trouble
    BY TroubleStays
<1> QED
    BY <1>1, <1>2 DEF Serves

LEMMA ProbedServes ==
    ASSUME driver \in Drivers, NEW d \in Devices, NEW users \in SUBSET Ways, NEW way \in Ways \ users,
           PlaysOnly => way = "out", NEW format, Serving(d, users, format), NEW e \in Probe(d, way)
    PROVE  Serves(d, e, users, format)
<1>1. e \in Devices /\ Serving(e, users, format)
    BY ProbeServes
<1>2. PICK r \in wave_open(d, way) : e \in IF r.ok THEN wave_close(r.dsp, way) ELSE {r.dsp}
    BY DEF Probe
<1>3. r.dsp \in Devices /\ (d.trouble => r.dsp.trouble)
    BY <1>2, OpenTyped DEF Results
<1>4. d.trouble => e.trouble
    BY <1>2, <1>3, TroubleStays
<1> QED
    BY <1>1, <1>4 DEF Serves

LEMMA SelectedServes ==
    ASSUME driver \in Drivers, current_driver \in BOOLEAN, NEW d \in Devices,
           NEW users \in SUBSET Ways, NEW way \in Ways \ users, PlaysOnly => way = "out",
           NEW format, Serving(d, users, format), NEW s \in Selected(d, way)
    PROVE  /\ Serves(d, s.dsp, users, format)
           /\ s.driver \in BOOLEAN /\ (current_driver => s.driver)
<1>1. PICK e \in IF ~current_driver /\ d.trouble THEN {d} ELSE Probe(d, way) :
          s = [dsp |-> e, driver |-> current_driver \/ e.trouble = d.trouble]
    BY DEF Selected
<1>2. Serves(d, e, users, format)
    BY <1>1, ProbedServes DEF Serves
<1>3. s.dsp = e /\ s.driver = (current_driver \/ e.trouble = d.trouble)
    BY <1>1
<1>4. s.driver \in BOOLEAN /\ (current_driver => s.driver)
    BY Zenon, <1>3
<1> QED
    BY <1>2, <1>3, <1>4

\* The device is open for who plays and for who records, whoever that is.
DeviceServed ==
    /\ DriverState
    /\ dsp \in Devices
    /\ duplex \in BOOLEAN /\ aborted \in BOOLEAN
    /\ rec_device_open \in BOOLEAN /\ rdpsnd_rec_negotiated \in BOOLEAN
    /\ record_buffer_size \in 0..(RecordBuffer - 1)
    /\ device_open \/ rec_device_open => current_driver
    /\ rec_device_open => CanRecord /\ rdpsnd_rec_negotiated
    /\ ~dsp.trouble => ~aborted /\ (record_buffer_size > 0 => rec_device_open)
    /\ Serving(dsp, UsersOf(device_open, rec_device_open), current_format)

LEMMA ResetServes ==
    ASSUME DeviceServed, NEW e \in AfterReset
    PROVE  Serves(dsp, e, {}, current_format)
<1> DEFINE users == UsersOf(device_open, rec_device_open)
<1>1. /\ driver \in Drivers /\ dsp \in Devices /\ device_open \in BOOLEAN /\ rec_device_open \in BOOLEAN
      /\ Serving(dsp, users, current_format)
    BY DEF DeviceServed, DriverState, RingState
<1>2. /\ users \in SUBSET Ways /\ ("out" \in users <=> device_open) /\ ("in" \in users <=> rec_device_open)
      /\ (users \ {"out"}) \ {"in"} = {}
    BY <1>1, UsersOfIs DEF Ways
<1>3. rec_device_open => ~PlaysOnly
    BY DEF DeviceServed, CanRecord, PlaysOnly
<1> HIDE DEF users
<1>4. PICK d \in IF device_open THEN wave_close(dsp, "out") ELSE {dsp} :
          e \in IF rec_device_open THEN wave_close(d, "in") ELSE {d}
    BY DEF AfterReset
<1>5. Serves(dsp, d, users \ {"out"}, current_format)
  <2>1. CASE device_open
    BY <1>1, <1>2, <1>4, <2>1, ClosedServes
  <2>2. CASE ~device_open
    <3>1. users \ {"out"} = users /\ d = dsp
      BY <1>2, <1>4, <2>2
    <3> QED
      BY <1>1, <3>1 DEF Serves
  <2> QED
    BY <2>1, <2>2
<1>6. d \in Devices /\ Serving(d, users \ {"out"}, current_format) /\ (dsp.trouble => d.trouble)
    BY <1>5 DEF Serves
<1>7. CASE rec_device_open
  <2> DEFINE rest == users \ {"out"}
  <2>1. rest \in SUBSET Ways /\ "in" \in rest /\ rest \ {"in"} = {}
    BY <1>2, <1>7
  <2>2. Serving(d, rest, current_format)
    BY <1>6
  <2> HIDE DEF rest
  <2>3. e \in wave_close(d, "in")
    BY <1>4, <1>7
  <2>4. Serves(d, e, rest \ {"in"}, current_format)
    BY <1>1, <1>3, <1>6, <1>7, <2>1, <2>2, <2>3, ClosedServes
  <2> QED
    BY <1>6, <2>1, <2>4 DEF Serves
<1>8. CASE ~rec_device_open
  <2>1. e = d /\ users \ {"out"} = {}
    BY <1>2, <1>4, <1>8
  <2> QED
    BY <1>6, <2>1 DEF Serves
<1> QED
    BY <1>7, <1>8

\* Sun's device has the format of the packets, if it plays.
StillSet(d, users, format) ==
    driver = "sun" /\ "out" \in users => d.trouble \/ (d.configured /\ d.format = format)

LEMMA OpenedIs ==
    ASSUME driver \in Drivers, NEW d \in Devices, NEW users \in SUBSET Ways, NEW way \in Ways \ users,
           PlaysOnly => way = "out", NEW old, Serving(d, users, old), NEW r \in wave_open(d, way)
    PROVE  /\ r.dsp \in Devices /\ r.ok \in BOOLEAN /\ (d.trouble => r.dsp.trouble)
           /\ ~r.ok => Serves(d, r.dsp, users, old)
           /\ r.ok => r.dsp.trouble \/ Fits(r.dsp, users \cup {way})
           /\ r.ok => StillSet(r.dsp, users, old)
<1>1. d.trouble => r.dsp.trouble
    BY OpenTyped
<1>2. /\ r.dsp \in Devices /\ r.ok \in BOOLEAN
      /\ ~r.ok => Serving(r.dsp, users, old)
      /\ r.ok => /\ r.dsp.trouble \/ Fits(r.dsp, users \cup {way})
                 /\ driver = "sun" /\ "out" \in users =>
                       r.dsp.trouble \/ (r.dsp.configured /\ r.dsp.format = old)
    BY OpenServes
<1> QED
    BY <1>1, <1>2 DEF Serves, StillSet

\* The device gets a format for a user who was just added.
LEMMA AskedServes ==
    ASSUME driver \in Drivers, NEW d \in Devices, NEW users \in SUBSET Ways, NEW way \in users,
           PlaysOnly => way = "out", d.trouble \/ Fits(d, users),
           NEW old, StillSet(d, users \ {way}, old),
           NEW format \in Formats, NEW s \in wave_set_format(d, format)
    PROVE  /\ s.ok \in BOOLEAN
           /\ s.ok /\ way = "out" => Serves(d, s.dsp, users, format)
           /\ s.ok /\ way # "out" => Serves(d, s.dsp, users, old)
           /\ ~s.ok => \A e \in wave_close(s.dsp, way) : Serves(d, e, users \ {way}, old)
<1>1. s \in Results /\ s.dsp \in Devices /\ s.ok \in BOOLEAN /\ (d.trouble => s.dsp.trouble)
    BY SetTyped DEF Results
<1>2. \A e \in wave_close(s.dsp, way) : e \in Devices /\ (s.dsp.trouble => e.trouble)
    BY <1>1, CloseTyped, TroubleStays
<1>3. CASE d.trouble
    BY <1>1, <1>2, <1>3 DEF Serves, Serving
<1>4. CASE ~d.trouble
  <2>1. /\ s.ok => /\ Serving(s.dsp, users, format) \/ way # "out"
                   /\ \A o : (driver = "sun" /\ "out" \in users => d.configured /\ d.format = o)
                                => Serving(s.dsp, users, o)
        /\ ~s.ok => \A e \in wave_close(s.dsp, way) :
                       /\ e \in Devices
                       /\ \A o : (driver = "sun" /\ "out" \in users \ {way} =>
                                     d.configured /\ d.format = o)
                                    => Serving(e, users \ {way}, o)
    BY FormatServes
  <2>2. s.ok /\ way = "out" => Serving(s.dsp, users, format)
    BY <2>1
  <2>3. s.ok /\ way # "out" => Serving(s.dsp, users, old)
    <3>1. way # "out" => (driver = "sun" /\ "out" \in users => d.configured /\ d.format = old)
      BY <1>4 DEF StillSet
    <3> QED
      BY <2>1, <3>1
  <2>4. ~s.ok => \A e \in wave_close(s.dsp, way) : Serving(e, users \ {way}, old)
    <3>1. driver = "sun" /\ "out" \in users \ {way} => d.configured /\ d.format = old
      BY <1>4 DEF StillSet
    <3> QED
      BY <2>1, <3>1
  <2> QED
    BY <1>1, <1>2, <2>2, <2>3, <2>4 DEF Serves
<1> QED
    BY <1>3, <1>4

LEMMA WriteServes ==
    ASSUME DeviceServed, NEW format \in Formats, NEW length \in Lengths, WriteAnew(format, length)
    PROVE  /\ Serves(dsp, dsp', UsersOf(device_open', rec_device_open), current_format')
           /\ device_open' \in BOOLEAN /\ current_format' \in Formats
<1> DEFINE users == UsersOf(device_open, rec_device_open)
           more == users \cup {"out"}
<1>1. /\ driver \in Drivers /\ dsp \in Devices /\ device_open \in BOOLEAN /\ rec_device_open \in BOOLEAN
      /\ current_format \in Formats /\ Serving(dsp, users, current_format)
    BY DEF DeviceServed, DriverState, RingState
<1>2. /\ users \in SUBSET Ways /\ more \in SUBSET Ways /\ ("out" \in users <=> device_open)
      /\ "out" \in more /\ more = UsersOf(TRUE, rec_device_open)
      /\ more \ {"out"} = UsersOf(FALSE, rec_device_open)
      /\ (~device_open => more \ {"out"} = users)
    BY <1>1, UsersOfIs DEF Ways
<1>3. users = UsersOf(device_open, rec_device_open)
    OBVIOUS
<1> HIDE DEF users, more
<1>4. PICK opened \in IF device_open THEN {Result(dsp, TRUE)} ELSE wave_open(dsp, "out") :
          IF ~opened.ok
          THEN /\ dsp' = opened.dsp /\ UNCHANGED <<device_open, current_format>>
          ELSE \E set \in wave_set_format(opened.dsp, format) :
                 \/ /\ set.ok
                    /\ dsp' = set.dsp
                    /\ device_open' = TRUE
                    /\ current_format' = format
                 \/ /\ ~set.ok
                    /\ dsp' \in wave_close(set.dsp, "out")
                    /\ device_open' = FALSE
                    /\ UNCHANGED current_format
    BY DEF WriteAnew
<1>5. /\ opened.dsp \in Devices /\ opened.ok \in BOOLEAN /\ (dsp.trouble => opened.dsp.trouble)
      /\ ~opened.ok => ~device_open /\ Serves(dsp, opened.dsp, users, current_format)
      /\ opened.ok => opened.dsp.trouble \/ Fits(opened.dsp, more)
  <2>1. CASE device_open
    <3>1. opened.dsp = dsp /\ opened.ok = TRUE /\ more = users
      BY <1>2, <1>4, <2>1 DEF Result, more
    <3> QED
      BY <1>1, <3>1 DEF Serving
  <2>2. CASE ~device_open
    <3>1. opened \in wave_open(dsp, "out") /\ "out" \in Ways \ users
      BY <1>2, <1>4, <2>2 DEF Ways
    <3>2. /\ opened.dsp \in Devices /\ opened.ok \in BOOLEAN /\ (dsp.trouble => opened.dsp.trouble)
          /\ ~opened.ok => Serves(dsp, opened.dsp, users, current_format)
          /\ opened.ok => opened.dsp.trouble \/ Fits(opened.dsp, users \cup {"out"})
      BY <1>1, <1>2, <3>1, OpenedIs
    <3> QED
      BY <2>2, <3>2 DEF more
  <2> QED
    BY <2>1, <2>2
<1>6. CASE ~opened.ok
    BY <1>1, <1>3, <1>4, <1>5, <1>6
<1>7. CASE opened.ok
  <2>1. PICK set \in wave_set_format(opened.dsp, format) :
                 \/ /\ set.ok
                    /\ dsp' = set.dsp
                    /\ device_open' = TRUE
                    /\ current_format' = format
                 \/ /\ ~set.ok
                    /\ dsp' \in wave_close(set.dsp, "out")
                    /\ device_open' = FALSE
                    /\ UNCHANGED current_format
    BY <1>4, <1>7
  <2>2. /\ set.ok \in BOOLEAN
        /\ set.ok => Serves(opened.dsp, set.dsp, more, format)
        /\ ~set.ok => \A e \in wave_close(set.dsp, "out") :
                         Serves(opened.dsp, e, more \ {"out"}, current_format)
    <3>1. StillSet(opened.dsp, more \ {"out"}, current_format)
      BY DEF StillSet
    <3> QED
      BY <1>1, <1>2, <1>5, <1>7, <3>1, AskedServes
  <2>3. \/ Serves(opened.dsp, dsp', more, format) /\ device_open' = TRUE /\ current_format' = format
        \/ /\ Serves(opened.dsp, dsp', more \ {"out"}, current_format)
           /\ device_open' = FALSE /\ current_format' = current_format
    BY <2>1, <2>2
  <2> QED
    BY <1>1, <1>2, <1>5, <2>3 DEF Serves
<1> QED
    BY <1>5, <1>6, <1>7

LEMMA DeviceStart == DriverInit => DeviceServed
<1> SUFFICES ASSUME DriverInit PROVE DeviceServed
    OBVIOUS
<1>1. /\ RingState /\ driver \in Drivers /\ duplex \in BOOLEAN /\ current_format \in Formats
      /\ device_open = FALSE /\ rec_device_open = FALSE /\ rdpsnd_rec_negotiated = FALSE
      /\ record_buffer_size = 0 /\ aborted = FALSE
    BY RingStart DEF DriverInit, RingInit, RingState
<1>2. /\ dsp.fd = FALSE /\ dsp.mode = {} /\ dsp.refs = 0 /\ dsp \in Devices
    BY <1>1 DEF DriverInit, Devices
<1>3. UsersOf(device_open, rec_device_open) = {} /\ Cardinality({}) = 0
    BY <1>1, UsersAre, UsersOfIs
<1>4. Serving(dsp, UsersOf(device_open, rec_device_open), current_format)
    BY <1>2, <1>3 DEF Serving, Fits
<1>5. 0 \in 0..(RecordBuffer - 1)
    BY MaxWriteAssumption
<1>6. record_buffer_size \in 0..(RecordBuffer - 1) /\ ~(record_buffer_size > 0)
    BY <1>1, <1>5
<1>7. /\ ~device_open /\ ~rec_device_open /\ ~aborted
      /\ rec_device_open \in BOOLEAN /\ rdpsnd_rec_negotiated \in BOOLEAN /\ aborted \in BOOLEAN
    BY Zenon, <1>1
<1> QED
    BY <1>1, <1>2, <1>4, <1>6, <1>7 DEF DeviceServed, DriverState

\* What a step leaves of it.
DeviceStep ==
    /\ UNCHANGED <<driver, duplex>>
    /\ aborted' \in BOOLEAN
    /\ device_open' \in BOOLEAN /\ rec_device_open' \in BOOLEAN
    /\ current_driver' \in BOOLEAN /\ rdpsnd_negotiated' \in BOOLEAN /\ rdpsnd_rec_negotiated' \in BOOLEAN
    /\ current_format' \in Formats /\ block' \in Indexes
    /\ record_buffer_size' \in 0..(RecordBuffer - 1)
    /\ device_open' \/ rec_device_open' => current_driver'
    /\ rec_device_open' => CanRecord /\ rdpsnd_rec_negotiated'
    /\ ~dsp'.trouble => ~aborted' /\ (record_buffer_size' > 0 => rec_device_open')
    /\ Serves(dsp, dsp', UsersOf(device_open', rec_device_open'), current_format')

LEMMA DeviceStepIs ==
    ASSUME DeviceServed, DeviceStep, RingStep
    PROVE  DeviceServed'
<1>1. UNCHANGED <<driver, duplex>> /\ driver \in Drivers
    BY DEF DeviceStep, DeviceServed, DriverState
<1>2. DriverState'
  <2>1. Ring(queue') /\ answered' \in Seq(Indexes)
    BY RingStepIs DEF DeviceServed, DriverState, RingState
  <2>2. Ring(queue)' <=> Ring(queue')
    BY DEF Ring, Ordered
  <2> QED
    BY <1>1, <2>1, <2>2 DEF DriverState, RingState, DeviceStep
<1>3. /\ dsp' \in Devices
      /\ Serving(dsp', UsersOf(device_open', rec_device_open'), current_format')
    BY DEF DeviceStep, Serves
<1>4. Serving(dsp, UsersOf(device_open, rec_device_open), current_format)' <=>
      Serving(dsp', UsersOf(device_open', rec_device_open'), current_format')
    BY <1>1 DEF Serving, Fits, UsersOf
<1>5. CanRecord' <=> CanRecord
    BY <1>1 DEF CanRecord
<1>6. duplex' \in BOOLEAN
    BY <1>1 DEF DeviceServed
<1> QED
    BY <1>2, <1>3, <1>4, <1>5, <1>6 DEF DeviceServed, DeviceStep

\* Recording: a buffer is filled only for who records, and a read that fails is
\* trouble.
LEMMA HeardIs ==
    ASSUME DeviceServed, NEW q,
           NEW heard \in IF device_open \/ rec_device_open THEN Recorded(q) ELSE {Silence(q)}
    PROVE  /\ heard.size \in 0..(RecordBuffer - 1) /\ heard.failed \in BOOLEAN /\ heard.aborted \in BOOLEAN
           /\ ~dsp.trouble /\ ~heard.failed =>
                 ~heard.aborted /\ (heard.size > 0 => rec_device_open)
<1> DEFINE users == UsersOf(device_open, rec_device_open)
<1>1. /\ driver \in Drivers /\ device_open \in BOOLEAN /\ rec_device_open \in BOOLEAN
      /\ record_buffer_size \in 0..(RecordBuffer - 1) /\ ("in" \in users <=> rec_device_open)
      /\ ~dsp.trouble => Fits(dsp, users) /\ (record_buffer_size > 0 => rec_device_open)
    BY UsersOfIs DEF DeviceServed, DriverState, RingState, Serving
<1>2. CASE heard = Silence(q)
  <2>1. heard.size = record_buffer_size /\ heard.failed = FALSE /\ heard.aborted = FALSE
    BY <1>2 DEF Silence, Heard
  <2> QED
    BY <1>1, <2>1
<1>3. ASSUME NEW bytes \in 1..RecordBuffer, heard = rdpsnd_record(q, bytes),
             ~dsp.trouble => rec_device_open
      PROVE  /\ heard.size \in 0..(RecordBuffer - 1)
             /\ heard.failed = FALSE /\ heard.aborted = ~rec_device_open
  <2>1. (record_buffer_size + bytes) % RecordBuffer \in 0..(RecordBuffer - 1)
    BY <1>1, MaxWriteAssumption
  <2> QED
    BY <1>3, <2>1 DEF rdpsnd_record, Heard
<1>4. CASE driver = "oss" /\ heard = ReadFails(q)
  <2>1. heard.size = record_buffer_size /\ heard.failed = TRUE /\ heard.aborted \in BOOLEAN
    BY <1>4 DEF ReadFails, Heard
  <2> QED
    BY <1>1, <1>4, <2>1
<1> HIDE DEF users
<1>5. \/ heard = Silence(q)
      \/ driver = "oss" /\ heard = ReadFails(q)
      \/ /\ ~dsp.trouble => rec_device_open
         /\ \E bytes \in 1..RecordBuffer : heard = rdpsnd_record(q, bytes)
  <2>1. heard \in Recorded(q) \/ heard = Silence(q)
    OBVIOUS
  <2>2. CASE driver = "oss" /\ dsp.fd /\ "in" \in dsp.mode /\ heard \in Recorded(q)
    <3>1. heard \in Reads(q) \/ heard = ReadFails(q)
      BY <2>2 DEF Recorded, oss_record
    <3>2. ~dsp.trouble => rec_device_open
      BY <1>1, <2>2 DEF Fits
    <3> QED
      BY <2>2, <3>1, <3>2 DEF Reads
  <2>3. CASE driver = "sun" /\ dsp.fd /\ rec_device_open /\ heard \in Recorded(q)
    BY <2>3 DEF Recorded, sun_record, Reads
  <2>4. CASE driver = "alsa" /\ "in" \in dsp.mode /\ heard \in Recorded(q)
    <3>1. ~dsp.trouble => rec_device_open
      BY <1>1, <2>4 DEF Fits
    <3> QED
      BY <2>4, <3>1 DEF Recorded, alsa_record, Reads
  <2>5. heard \in Recorded(q) =>
           \/ driver = "oss" /\ dsp.fd /\ "in" \in dsp.mode
           \/ driver = "sun" /\ dsp.fd /\ rec_device_open
           \/ driver = "alsa" /\ "in" \in dsp.mode
           \/ heard = Silence(q)
    BY DEF Recorded
  <2> QED
    BY <2>1, <2>2, <2>3, <2>4, <2>5
<1>6. CASE /\ ~dsp.trouble => rec_device_open
           /\ \E bytes \in 1..RecordBuffer : heard = rdpsnd_record(q, bytes)
  <2>1. /\ heard.size \in 0..(RecordBuffer - 1)
        /\ heard.failed = FALSE /\ heard.aborted = ~rec_device_open
    BY <1>3, <1>6
  <2> QED
    BY <1>1, <1>6, <2>1
<1> QED
    BY <1>2, <1>4, <1>5, <1>6

\* A step that leaves the device and those who use it alone.
LEMMA NothingServed ==
    ASSUME DeviceServed, UNCHANGED <<dsp, device_open, rec_device_open, current_format>>
    PROVE  Serves(dsp, dsp', UsersOf(device_open', rec_device_open'), current_format')
BY DEF DeviceServed, Serves

\* Negotiating, for the first time or again.
LEMMA NegotiationStep ==
    ASSUME DeviceServed, NEW again \in BOOLEAN, NEW open, NEW way \in Ways,
           way = "out" => open = device_open, way = "in" => open = rec_device_open /\ CanRecord,
           Negotiation(again, open, way)
    PROVE  /\ Serves(dsp, dsp', UsersOf(device_open', rec_device_open'), current_format')
           /\ current_driver' \in BOOLEAN /\ (current_driver => current_driver')
           /\ \/ UNCHANGED <<device_open, rec_device_open, record_buffer_size>> /\ ~again
              \/ device_open' = FALSE /\ rec_device_open' = FALSE /\ record_buffer_size' = 0 /\ again
<1> DEFINE first == IF current_driver THEN way ELSE "out"
           before == IF again THEN {} ELSE UsersOf(device_open, rec_device_open)
<1>1. /\ driver \in Drivers /\ dsp \in Devices /\ current_driver \in BOOLEAN
      /\ device_open \in BOOLEAN /\ rec_device_open \in BOOLEAN
      /\ device_open \/ rec_device_open => current_driver
      /\ Serving(dsp, UsersOf(device_open, rec_device_open), current_format)
    BY DEF DeviceServed, DriverState, RingState
<1>2. /\ UNCHANGED current_format
      /\ \/ UNCHANGED <<device_open, rec_device_open, record_buffer_size>> /\ ~again
         \/ device_open' = FALSE /\ rec_device_open' = FALSE /\ record_buffer_size' = 0 /\ again
    BY DEF Negotiation, ResetSound
<1>3. before = UsersOf(device_open', rec_device_open') /\ before \in SUBSET Ways
    BY <1>1, <1>2, UsersOfIs
<1>4. first \in Ways \ before /\ (PlaysOnly => first = "out")
  <2>1. first \in Ways /\ (PlaysOnly => first = "out")
    BY DEF Ways, CanRecord, PlaysOnly
  <2>2. ASSUME ~again PROVE first \notin before
    <3>1. ~open
      BY <2>2 DEF Negotiation
    <3>2. /\ "out" \in before <=> device_open
          /\ "in" \in before <=> rec_device_open
      BY <1>1, <2>2, UsersOfIs
    <3> QED
      BY <1>1, <3>1, <3>2 DEF Ways
  <2> QED
    BY <2>1, <2>2
<1> HIDE DEF before
<1>5. PICK d \in IF again THEN AfterReset ELSE {dsp} : \E selected \in Selected(d, first) :
          dsp' = selected.dsp /\ current_driver' = selected.driver
    BY DEF Negotiation
<1>6. PICK selected \in Selected(d, first) :
          dsp' = selected.dsp /\ current_driver' = selected.driver
    BY <1>5
<1>7. Serves(dsp, d, before, current_format)
  <2>1. CASE again
    BY <1>5, <2>1, ResetServes DEF before
  <2>2. CASE ~again
    BY <1>1, <1>5, <2>2 DEF before, Serves
  <2> QED
    BY <2>1, <2>2
<1>8. d \in Devices /\ Serving(d, before, current_format) /\ (dsp.trouble => d.trouble)
    BY <1>7 DEF Serves
<1> HIDE DEF first
<1>9. /\ Serves(d, selected.dsp, before, current_format)
      /\ selected.driver \in BOOLEAN /\ (current_driver => selected.driver)
    BY <1>1, <1>3, <1>4, <1>6, <1>8, SelectedServes
<1>10. Serves(dsp, dsp', before, current_format')
    BY <1>2, <1>6, <1>8, <1>9 DEF Serves
<1> QED
    BY <1>2, <1>3, <1>6, <1>9, <1>10

LEMMA RecStartServes ==
    ASSUME DeviceServed, NEW format \in Formats, RecStart(format)
    PROVE  /\ Serves(dsp, dsp', UsersOf(device_open, rec_device_open'), current_format)
           /\ rec_device_open' \in BOOLEAN
<1> DEFINE users == UsersOf(device_open, rec_device_open)
           more == users \cup {"in"}
<1>1. /\ driver \in Drivers /\ dsp \in Devices /\ device_open \in BOOLEAN /\ rec_device_open \in BOOLEAN
      /\ current_format \in Formats /\ Serving(dsp, users, current_format)
      /\ ~PlaysOnly /\ ~rec_device_open
    BY DEF DeviceServed, DriverState, RingState, RecStart, CanRecord, PlaysOnly
<1>2. /\ users \in SUBSET Ways /\ more \in SUBSET Ways /\ "in" \in more /\ "in" \in Ways \ users
      /\ more = UsersOf(device_open, TRUE) /\ users = UsersOf(device_open, rec_device_open)
      /\ users = UsersOf(device_open, FALSE) /\ more \ {"in"} = users
      /\ ("out" \in more \ {"in"} <=> "out" \in users)
    BY <1>1, UsersOfIs DEF Ways
<1> HIDE DEF users
<1>3. PICK opened \in wave_open(dsp, "in") :
          IF ~opened.ok
          THEN dsp' = opened.dsp /\ UNCHANGED rec_device_open
          ELSE \E set \in wave_set_format(opened.dsp, format) :
                 /\ dsp' \in IF set.ok THEN {set.dsp} ELSE wave_close(set.dsp, "in")
                 /\ rec_device_open' = set.ok
    BY DEF RecStart
<1>4. /\ opened.dsp \in Devices /\ opened.ok \in BOOLEAN /\ (dsp.trouble => opened.dsp.trouble)
      /\ ~opened.ok => Serves(dsp, opened.dsp, users, current_format)
      /\ opened.ok => opened.dsp.trouble \/ Fits(opened.dsp, more)
      /\ opened.ok => StillSet(opened.dsp, users, current_format)
  <2>1. opened \in wave_open(dsp, "in")
    BY <1>3
  <2>2. /\ opened.dsp \in Devices /\ opened.ok \in BOOLEAN /\ (dsp.trouble => opened.dsp.trouble)
        /\ ~opened.ok => Serves(dsp, opened.dsp, users, current_format)
        /\ opened.ok => opened.dsp.trouble \/ Fits(opened.dsp, users \cup {"in"})
    BY <1>1, <1>2, <2>1, OpenedIs
  <2>3. opened.ok => StillSet(opened.dsp, users, current_format)
    BY <1>1, <1>2, <2>1, OpenedIs
  <2> QED
    BY <2>2, <2>3
<1> HIDE DEF more
<1>5. CASE ~opened.ok
    BY <1>1, <1>2, <1>3, <1>4, <1>5
<1>6. CASE opened.ok
  <2>1. PICK set \in wave_set_format(opened.dsp, format) :
          /\ dsp' \in IF set.ok THEN {set.dsp} ELSE wave_close(set.dsp, "in")
          /\ rec_device_open' = set.ok
    BY <1>3, <1>6
  <2>2. StillSet(opened.dsp, more \ {"in"}, current_format)
    BY <1>2, <1>4, <1>6
  <2>3. /\ set.ok \in BOOLEAN
        /\ set.ok => Serves(opened.dsp, set.dsp, more, current_format)
        /\ ~set.ok => \A e \in wave_close(set.dsp, "in") :
                         Serves(opened.dsp, e, more \ {"in"}, current_format)
    BY <1>1, <1>2, <1>4, <1>6, <2>1, <2>2, AskedServes
  <2>4. \/ Serves(opened.dsp, dsp', more, current_format) /\ rec_device_open' = TRUE
        \/ Serves(opened.dsp, dsp', users, current_format) /\ rec_device_open' = FALSE
    BY <1>2, <2>1, <2>3
  <2> QED
    BY <1>2, <1>4, <2>4 DEF Serves
<1> QED
    BY <1>4, <1>5, <1>6

LEMMA DriverDevice ==
    ASSUME DeviceServed, DriverNext
    PROVE  DeviceStep
<1>1. /\ driver \in Drivers /\ dsp \in Devices /\ duplex \in BOOLEAN /\ aborted = FALSE
      /\ current_driver \in BOOLEAN /\ rdpsnd_negotiated \in BOOLEAN
      /\ device_open \in BOOLEAN /\ rec_device_open \in BOOLEAN /\ rdpsnd_rec_negotiated \in BOOLEAN
      /\ current_format \in Formats /\ block \in Indexes
      /\ record_buffer_size \in 0..(RecordBuffer - 1)
      /\ Serving(dsp, UsersOf(device_open, rec_device_open), current_format)
    BY DEF DeviceServed, DriverState, RingState, DriverNext
<1>2. /\ device_open \/ rec_device_open => current_driver
      /\ rec_device_open => CanRecord /\ rdpsnd_rec_negotiated
      /\ ~dsp.trouble /\ record_buffer_size > 0 => rec_device_open
    BY DEF DeviceServed
<1>3. 0 \in 0..(RecordBuffer - 1) /\ ~(0 > 0)
    BY MaxWriteAssumption
<1>5. ASSUME NEW format \in Formats, NEW length \in Lengths, DriverWrite(format, length)
      PROVE  DeviceStep
  <2>1. /\ UNCHANGED <<current_driver, rdpsnd_negotiated, driver, duplex, rec_device_open,
                       rdpsnd_rec_negotiated, record_buffer_size>>
        /\ block' \in Indexes
    BY <1>1, <1>5, NextBlock DEF DriverWrite, recordVars
  <2>2. CASE UNCHANGED <<dsp, device_open, current_format, aborted>>
    <3>1. Serves(dsp, dsp', UsersOf(device_open', rec_device_open'), current_format')
      BY <2>1, <2>2, NothingServed
    <3> QED
      BY <1>1, <1>2, <2>1, <2>2, <3>1 DEF DeviceStep
  <2>3. CASE WriteAnew(format, length)
    <3>1. /\ Serves(dsp, dsp', UsersOf(device_open', rec_device_open'), current_format')
          /\ device_open' \in BOOLEAN /\ current_format' \in Formats /\ current_driver
          /\ UNCHANGED aborted
      BY <2>1, <2>3, WriteServes DEF WriteAnew
    <3>2. dsp.trouble => dsp'.trouble
      BY <3>1 DEF Serves
    <3> QED
      BY <1>1, <1>2, <2>1, <3>1, <3>2 DEF DeviceStep
  <2>4. CASE DeviceGone /\ aborted' = TRUE /\ UNCHANGED <<dsp, device_open, current_format>>
    <3>1. Serves(dsp, dsp', UsersOf(device_open', rec_device_open'), current_format')
      BY <2>1, <2>4, NothingServed
    <3>2. dsp.trouble
      <4>1. "out" \in UsersOf(device_open, rec_device_open)
        BY <1>1, <2>4, UsersOfIs DEF DeviceGone
      <4> QED
        BY <1>1, <2>4, <4>1 DEF DeviceGone, Serving, Fits
    <3> QED
      BY <1>1, <1>2, <2>1, <2>4, <3>1, <3>2 DEF DeviceStep
  <2> QED
    BY <1>5, <2>2, <2>3, <2>4 DEF DriverWrite, WriteOn
<1>6. ASSUME DriverClose PROVE DeviceStep
  <2>1. /\ UNCHANGED <<current_driver, rdpsnd_negotiated, current_format, block, driver, duplex,
                       rec_device_open, rdpsnd_rec_negotiated, record_buffer_size, aborted>>
        /\ device_open /\ device_open' = FALSE /\ dsp' \in wave_close(dsp, "out")
    BY <1>6 DEF DriverClose, recordVars
  <2>2. Serves(dsp, dsp', UsersOf(device_open', rec_device_open'), current_format')
    <3> DEFINE users == UsersOf(device_open, rec_device_open)
    <3>1. users \in SUBSET Ways /\ "out" \in users /\ users \ {"out"} = UsersOf(FALSE, rec_device_open)
      BY <1>1, <2>1, UsersOfIs
    <3> HIDE DEF users
    <3>2. Serving(dsp, users, current_format)
      BY <1>1 DEF users
    <3>3. Serves(dsp, dsp', users \ {"out"}, current_format)
      BY <1>1, <2>1, <3>1, <3>2, ClosedServes
    <3> QED
      BY <2>1, <3>1, <3>3
  <2>3. dsp.trouble => dsp'.trouble
    BY <2>2 DEF Serves
  <2> QED
    BY <1>1, <1>2, <2>1, <2>2, <2>3 DEF DeviceStep
<1>7. ASSUME ResetSound, UNCHANGED <<current_driver, current_format, block, driver, duplex, aborted>>,
             rdpsnd_negotiated' \in BOOLEAN, rdpsnd_rec_negotiated' \in BOOLEAN, dsp' \in AfterReset
      PROVE  DeviceStep
  <2>1. device_open' = FALSE /\ rec_device_open' = FALSE /\ record_buffer_size' = 0
    BY <1>7 DEF ResetSound
  <2>2. Serves(dsp, dsp', UsersOf(device_open', rec_device_open'), current_format')
    <3>1. UsersOf(device_open', rec_device_open') = {}
      BY <1>1, <2>1, UsersOfIs
    <3>2. Serves(dsp, dsp', {}, current_format)
      BY <1>7, ResetServes
    <3> QED
      BY <1>7, <3>1, <3>2
  <2> QED
    BY <1>1, <1>3, <1>7, <2>1, <2>2 DEF DeviceStep
<1>8. ASSUME DriverReset PROVE DeviceStep
  <2>1. rdpsnd_negotiated' \in BOOLEAN /\ rdpsnd_rec_negotiated' \in BOOLEAN
    BY <1>8 DEF DriverReset
  <2> QED
    BY <1>7, <1>8, <2>1 DEF DriverReset
<1>9. ASSUME NEW again \in BOOLEAN, NEW open, NEW way \in Ways,
             way = "out" => open = device_open, way = "in" => open = rec_device_open /\ CanRecord,
             Negotiation(again, open, way),
             rdpsnd_negotiated' \in BOOLEAN, rdpsnd_rec_negotiated' \in BOOLEAN,
             again \/ (rdpsnd_rec_negotiated => rdpsnd_rec_negotiated')
      PROVE  DeviceStep
  <2>1. /\ Serves(dsp, dsp', UsersOf(device_open', rec_device_open'), current_format')
        /\ current_driver' \in BOOLEAN /\ (current_driver => current_driver')
        /\ \/ UNCHANGED <<device_open, rec_device_open, record_buffer_size>> /\ ~again
           \/ device_open' = FALSE /\ rec_device_open' = FALSE /\ record_buffer_size' = 0 /\ again
    BY <1>9, NegotiationStep
  <2>2. UNCHANGED <<current_format, block, driver, duplex, aborted>>
    BY <1>9 DEF Negotiation
  <2>3. dsp.trouble => dsp'.trouble
    BY <2>1 DEF Serves
  <2>4. CASE UNCHANGED <<device_open, rec_device_open, record_buffer_size>> /\ ~again
    BY <1>1, <1>2, <1>9, <2>1, <2>2, <2>3, <2>4 DEF DeviceStep
  <2>5. CASE device_open' = FALSE /\ rec_device_open' = FALSE /\ record_buffer_size' = 0 /\ again
    BY <1>1, <1>3, <1>9, <2>1, <2>2, <2>5 DEF DeviceStep
  <2> QED
    BY <2>1, <2>4, <2>5
<1>10. ASSUME DriverNegotiate PROVE DeviceStep
  <2>1. /\ Negotiation(rdpsnd_negotiated, device_open, "out") /\ rdpsnd_negotiated' = TRUE
        /\ rdpsnd_rec_negotiated' = (rdpsnd_rec_negotiated /\ ~rdpsnd_negotiated)
    BY <1>10 DEF DriverNegotiate
  <2>2. /\ rdpsnd_negotiated' \in BOOLEAN /\ rdpsnd_rec_negotiated' \in BOOLEAN
        /\ rdpsnd_negotiated \/ (rdpsnd_rec_negotiated => rdpsnd_rec_negotiated')
    BY Zenon, <1>1, <2>1
  <2> QED
    BY <1>1, <1>9, <2>1, <2>2 DEF Ways
<1>11. ASSUME RecNegotiate PROVE DeviceStep
  <2>1. /\ Negotiation(rdpsnd_rec_negotiated, rec_device_open, "in") /\ rdpsnd_rec_negotiated' = TRUE
        /\ rdpsnd_negotiated' = (rdpsnd_negotiated /\ ~rdpsnd_rec_negotiated) /\ CanRecord
    BY <1>11 DEF RecNegotiate
  <2>2. rdpsnd_negotiated' \in BOOLEAN /\ rdpsnd_rec_negotiated' \in BOOLEAN /\ rdpsnd_rec_negotiated'
    BY Zenon, <1>1, <2>1
  <2> QED
    BY <1>1, <1>9, <2>1, <2>2 DEF Ways
<1>12. ASSUME NEW format \in RecFormats, RecStart(format) PROVE DeviceStep
  <2>1. /\ Serves(dsp, dsp', UsersOf(device_open, rec_device_open'), current_format)
        /\ rec_device_open' \in BOOLEAN
    BY <1>12, RecFormatAssumption, RecStartServes
  <2>2. /\ current_driver /\ CanRecord /\ rdpsnd_rec_negotiated /\ ~rec_device_open
        /\ UNCHANGED <<device_open, current_driver, rdpsnd_negotiated, current_format, block, driver, duplex,
                       rdpsnd_rec_negotiated, record_buffer_size, aborted>>
    BY <1>12 DEF RecStart, deviceVars
  <2>3. dsp.trouble => dsp'.trouble
    BY <2>1 DEF Serves
  <2> QED
    BY <1>1, <1>2, <2>1, <2>2, <2>3 DEF DeviceStep
<1>13. ASSUME RecStop PROVE DeviceStep
  <2>1. /\ UNCHANGED <<device_open, current_driver, rdpsnd_negotiated, current_format, block, driver, duplex,
                       rdpsnd_rec_negotiated, aborted>>
        /\ record_buffer_size' = 0 /\ rec_device_open' = FALSE
        /\ dsp' \in IF rec_device_open THEN wave_close(dsp, "in") ELSE {dsp}
    BY <1>13 DEF RecStop, deviceVars
  <2>2. Serves(dsp, dsp', UsersOf(device_open', rec_device_open'), current_format')
    <3>1. CASE rec_device_open
      <4> DEFINE users == UsersOf(device_open, rec_device_open)
      <4>1. users \in SUBSET Ways /\ "in" \in users /\ users \ {"in"} = UsersOf(device_open, FALSE)
        BY <1>1, <3>1, UsersOfIs
      <4> HIDE DEF users
      <4>2. Serving(dsp, users, current_format) /\ ~PlaysOnly
        BY <1>1, <1>2, <3>1 DEF users, CanRecord, PlaysOnly
      <4>3. Serves(dsp, dsp', users \ {"in"}, current_format)
        BY <1>1, <2>1, <3>1, <4>1, <4>2, ClosedServes
      <4> QED
        BY <2>1, <4>1, <4>3
    <3>2. CASE ~rec_device_open
      BY <1>1, <2>1, <3>2, NothingServed
    <3> QED
      BY <3>1, <3>2
  <2> QED
    BY <1>1, <1>2, <1>3, <2>1, <2>2 DEF DeviceStep
<1>14. ASSUME DriverCheckFds PROVE DeviceStep
  <2>1. PICK q \in Played(rdpsnd_queue_complete_pending(queue)) :
          \E heard \in IF device_open \/ rec_device_open THEN Recorded(q) ELSE {Silence(q)} :
            /\ record_buffer_size' = heard.size /\ aborted' = heard.aborted
            /\ dsp' = [dsp EXCEPT !.trouble = dsp.trouble \/ heard.failed]
    BY <1>14 DEF DriverCheckFds
  <2>2. PICK heard \in IF device_open \/ rec_device_open THEN Recorded(q) ELSE {Silence(q)} :
            /\ record_buffer_size' = heard.size /\ aborted' = heard.aborted
            /\ dsp' = [dsp EXCEPT !.trouble = dsp.trouble \/ heard.failed]
    BY <2>1
  <2>3. /\ heard.size \in 0..(RecordBuffer - 1) /\ heard.failed \in BOOLEAN /\ heard.aborted \in BOOLEAN
        /\ ~dsp.trouble /\ ~heard.failed =>
              ~heard.aborted /\ (heard.size > 0 => rec_device_open)
    BY <2>2, HeardIs
  <2>4. UNCHANGED <<device_open, current_driver, rdpsnd_negotiated, current_format, block, driver, duplex,
                    rec_device_open, rdpsnd_rec_negotiated>>
    BY <1>14 DEF DriverCheckFds, deviceVars
  <2>5. /\ dsp' \in Devices /\ (dsp'.trouble <=> dsp.trouble \/ heard.failed)
        /\ dsp'.fd = dsp.fd /\ dsp'.mode = dsp.mode /\ dsp'.refs = dsp.refs
        /\ dsp'.configured = dsp.configured /\ dsp'.format = dsp.format
    BY <1>1, <2>2, <2>3 DEF Devices
  <2>6. Serves(dsp, dsp', UsersOf(device_open', rec_device_open'), current_format')
    BY <1>1, <2>4, <2>5 DEF Serves, Serving, Fits
  <2> QED
    BY <1>1, <1>2, <2>2, <2>3, <2>4, <2>5, <2>6 DEF DeviceStep
<1>15. ASSUME DriverTick PROVE DeviceStep
  <2>1. UNCHANGED <<device_open, current_driver, rdpsnd_negotiated, current_format, block, driver, duplex, dsp,
                    rec_device_open, rdpsnd_rec_negotiated, record_buffer_size, aborted>>
    BY <1>15 DEF DriverTick, QueueTick, deviceVars, recordVars
  <2>2. Serves(dsp, dsp', UsersOf(device_open', rec_device_open'), current_format')
    BY <2>1, NothingServed
  <2> QED
    BY <1>1, <1>2, <2>1, <2>2 DEF DeviceStep
<1> QED
    BY <1>5, <1>6, <1>8, <1>10, <1>11, <1>12, <1>13, <1>14, <1>15 DEF DriverNext, DriverServer

LEMMA DriverStep ==
    ASSUME DeviceServed, DriverNext
    PROVE  DeviceServed' /\ RingStep
BY DriverRing, DriverDevice, DeviceStepIs DEF DeviceServed

LEMMA DriverInvariance == DriverSpec => []DeviceServed
<1>1. DeviceServed /\ UNCHANGED driverVars => DeviceServed'
  <2> SUFFICES ASSUME DeviceServed, UNCHANGED driverVars PROVE DeviceServed'
      OBVIOUS
  <2>1. UNCHANGED <<queue, current_driver, rdpsnd_negotiated, device_open, current_format, block, answered,
                    driver, duplex, dsp, rec_device_open, rdpsnd_rec_negotiated, record_buffer_size, aborted>>
    BY DEF driverVars, ringVars, deviceVars, recordVars
  <2> QED
    BY <2>1 DEF DeviceServed, DriverState, RingState, Ring, Ordered, CanRecord, Serving, Fits, UsersOf
<1> QED
    BY <1>1, DeviceStart, DriverStep, PTL DEF DriverSpec

LEMMA ServedIs == DeviceServed => DriverTypeOK /\ RingInOrder /\ ServesUsers
<1> SUFFICES ASSUME DeviceServed PROVE DriverTypeOK /\ RingInOrder /\ ServesUsers
    OBVIOUS
<1>1. RingTypeOK /\ RingInOrder
    BY RingStateIs DEF DeviceServed, DriverState
<1>2. {duplex, rec_device_open, rdpsnd_rec_negotiated, aborted} \subseteq BOOLEAN
    BY DEF DeviceServed
<1>3. DriverTypeOK
    BY <1>1, <1>2 DEF DriverTypeOK, DeviceServed, DriverState
<1>4. Users = UsersOf(device_open, rec_device_open)
    BY DEF Users, UsersOf
<1>5. device_open \in BOOLEAN /\ rec_device_open \in BOOLEAN
    BY DEF DeviceServed, DriverState, RingState
<1>6. ~dsp.trouble => /\ Fits(dsp, Users)
                      /\ driver = "sun" /\ device_open => dsp.configured /\ dsp.format = current_format
    BY <1>4, <1>5, UsersOfIs DEF DeviceServed, Serving
<1>7. ~dsp.trouble => ~aborted /\ (record_buffer_size > 0 => rec_device_open)
    BY DEF DeviceServed
<1>8. ServesUsers
    BY <1>6, <1>7 DEF ServesUsers, Fits
<1> QED
    BY <1>1, <1>3, <1>8

-----------------------------------------------------------------------------
(* The formats of their packets *)

AllIn(q, format) == \A slot \in Slots : Waiting(q, slot) => q.packets[slot].format = format

LEMMA NoneIsIn ==
    ASSUME NEW q, Ring(q), q.lo = q.hi, NEW format
    PROVE  AllIn(q, format)
BY EmptyWaitsNot DEF AllIn

LEMMA RestIsIn ==
    ASSUME NEW q, NEW r, Ring(q), GivesBack(q, r)
    PROVE  /\ \A format : AllIn(q, format) => AllIn(r, format)
           /\ q.lo = q.hi => r.lo = r.hi
<1>1. ASSUME NEW format, AllIn(q, format) PROVE AllIn(r, format)
    BY <1>1, WaitsLess DEF AllIn
<1>2. ASSUME q.lo = q.hi PROVE r.lo = r.hi
  <2>1. /\ q.pending \in Slots /\ q.hi \in Slots /\ r.lo \in Slots /\ r.hi = q.hi
        /\ Distance(q.pending, q.hi) <= Distance(q.pending, r.lo)
        /\ Distance(q.pending, r.lo) <= Distance(q.pending, q.hi)
    BY <1>2 DEF Ring, Queues, GivesBack
  <2> DEFINE a == q.pending
             b == q.hi
             c == r.lo
  <2>2. /\ a \in Slots /\ b \in Slots /\ c \in Slots
        /\ Distance(a, b) <= Distance(a, c) /\ Distance(a, c) <= Distance(a, b)
    BY <2>1
  <2> HIDE DEF a, b, c
  <2>3. /\ Distance(a, b) = IF b >= a THEN b - a ELSE b - a + MaxQueue
        /\ Distance(a, c) = IF c >= a THEN c - a ELSE c - a + MaxQueue
    BY <2>2, DistanceIs
  <2>4. a \in 0..(MaxQueue - 1) /\ b \in 0..(MaxQueue - 1) /\ c \in 0..(MaxQueue - 1)
    BY <2>2 DEF Slots
  <2>5. b = c
    BY <2>2, <2>3, <2>4
  <2> QED
    BY <2>1, <2>5 DEF b, c
<1> QED
    BY <1>1, <1>2

LEMMA OneMoreIsIn ==
    ASSUME NEW q, Ring(q), NEW packet \in Packets, AllIn(q, packet.format)
    PROVE  AllIn(rdpsnd_queue_write(q, packet), packet.format)
BY WriteIs DEF AllIn

\* These refuse another format than the one they have.
Refuses == (driver = "sun" /\ ~dsp.trouble) \/ (driver = "oss" /\ ~rdpsnd_rec_negotiated)

\* No packets without a device; OSS's device has the format of the packets while
\* nobody may record; and so do all packets of a device that refuses others.
OwnFormats ==
    /\ ~device_open => queue.lo = queue.hi
    /\ driver = "oss" /\ ~rdpsnd_rec_negotiated /\ device_open /\ dsp.fd =>
          dsp.configured /\ dsp.format = current_format
    /\ Refuses => AllIn(queue, current_format)

LEMMA FormatRefused ==
    ASSUME DeviceServed, OwnFormats, NEW format \in Formats, device_open, format # current_format,
           driver = "oss" => ~rdpsnd_rec_negotiated /\ dsp.fd,
           driver \in {"oss", "sun"}, NEW s \in wave_set_format(dsp, format),
           driver = "sun" => ~s.dsp.trouble
    PROVE  ~s.ok
<1>1. /\ driver \in Drivers /\ dsp \in Devices /\ device_open \in BOOLEAN /\ rec_device_open \in BOOLEAN
      /\ Serving(dsp, UsersOf(device_open, rec_device_open), current_format)
    BY DEF DeviceServed, DriverState, RingState
<1>2. dsp.configured /\ dsp.format = current_format
  <2>1. CASE driver = "oss"
    BY <2>1 DEF OwnFormats
  <2>2. CASE driver = "sun"
    <3>1. dsp.trouble => s.dsp.trouble
      BY <1>1, SetTyped
    <3>2. "out" \in UsersOf(device_open, rec_device_open)
      BY <1>1, UsersOfIs
    <3> QED
      BY <1>1, <2>2, <3>1, <3>2 DEF Serving
  <2> QED
    BY <2>1, <2>2
<1> QED
    BY <1>1, <1>2, FormatTaken

LEMMA OwnFormatWritten ==
    ASSUME DeviceServed, OwnFormats, DeviceStep, NEW format \in Formats, NEW length \in Lengths,
           ~DeviceGone, WriteAnew(format, length), UNCHANGED rdpsnd_rec_negotiated
    PROVE  OwnFormats'
<1> DEFINE packet == Packet(format, length)
<1>1. /\ Ring(queue) /\ driver \in Drivers /\ dsp \in Devices /\ device_open \in BOOLEAN
      /\ UNCHANGED driver /\ (dsp.trouble => dsp'.trouble)
    BY DEF DeviceServed, DriverState, RingState, DeviceStep, Serves
<1>2. packet \in Packets /\ packet.format = format
    BY PacketIs DEF DeviceServed, DriverState, RingState, Packet
<1> HIDE DEF packet
<1>3. Refuses' => Refuses
    BY <1>1 DEF Refuses
<1>4. OwnFormats' <=>
        /\ ~device_open' => queue'.lo = queue'.hi
        /\ driver = "oss" /\ ~rdpsnd_rec_negotiated /\ device_open' /\ dsp'.fd =>
              dsp'.configured /\ dsp'.format = current_format'
        /\ Refuses' => AllIn(queue', current_format')
    BY <1>1 DEF OwnFormats, AllIn, Waiting
<1>5. PICK opened \in IF device_open THEN {Result(dsp, TRUE)} ELSE wave_open(dsp, "out") :
          IF ~opened.ok
          THEN UNCHANGED <<queue, device_open, current_format>>
          ELSE \E set \in wave_set_format(opened.dsp, format) :
                 \/ /\ set.ok /\ dsp' = set.dsp
                    /\ device_open' = TRUE /\ current_format' = format
                    /\ queue' = rdpsnd_queue_write(queue, packet)
                 \/ device_open' = FALSE /\ queue' = AckAll(queue)
    BY DEF WriteAnew, packet
<1>6. CASE ~opened.ok
  <2>1. ~device_open
    BY <1>5, <1>6 DEF Result
  <2>2. queue.lo = queue.hi /\ AllIn(queue, current_format)
    BY <1>1, <2>1, NoneIsIn DEF OwnFormats
  <2> QED
    BY <1>4, <1>5, <1>6, <2>1, <2>2
<1>7. CASE device_open' = FALSE /\ queue' = AckAll(queue)
  <2>1. Ring(queue') /\ queue'.lo = queue'.hi
    BY <1>1, <1>7, AckAllIs DEF GivesBack
  <2> QED
    BY <1>4, <1>7, <2>1, NoneIsIn
<1>8. ASSUME NEW set \in wave_set_format(opened.dsp, format), opened.ok, set.ok, dsp' = set.dsp,
             device_open' = TRUE, current_format' = format, queue' = rdpsnd_queue_write(queue, packet)
      PROVE  OwnFormats'
  <2>1. opened.dsp \in Devices
    <3>1. opened = Result(dsp, TRUE) \/ opened \in wave_open(dsp, "out")
      BY <1>5
    <3> QED
      BY <1>1, <3>1, OpenTyped DEF Result, Results, Ways
  <2>2. driver = "oss" => dsp'.configured /\ dsp'.format = current_format'
    BY <1>8, <2>1, FormatTaken
  <2>3. ASSUME Refuses' PROVE AllIn(queue, format)
    <3>1. CASE ~device_open
      BY <1>1, <3>1, NoneIsIn DEF OwnFormats
    <3>2. CASE device_open /\ format = current_format
      BY <1>3, <2>3, <3>2 DEF OwnFormats
    <3>3. CASE device_open /\ format # current_format
      <4>1. opened.dsp = dsp /\ set \in wave_set_format(dsp, format)
        BY <1>5, <1>8, <3>3 DEF Result
      <4>2. driver \in {"oss", "sun"} /\ (driver = "oss" => ~rdpsnd_rec_negotiated)
        BY <1>3, <2>3 DEF Refuses
      <4>3. driver = "oss" => dsp.fd
        BY <3>3 DEF DeviceGone
      <4>4. driver = "sun" => ~set.dsp.trouble
        BY <1>1, <1>8, <2>3 DEF Refuses
      <4> QED
        BY <1>8, <3>3, <4>1, <4>2, <4>3, <4>4, FormatRefused
    <3> QED
      BY <1>1, <3>1, <3>2, <3>3
  <2>4. Refuses' => AllIn(queue', current_format')
    BY <1>1, <1>2, <1>8, <2>3, OneMoreIsIn
  <2> QED
    BY <1>4, <1>8, <2>2, <2>4
<1> QED
    BY <1>5, <1>6, <1>7, <1>8

LEMMA OwnFormatStep ==
    ASSUME DeviceServed, OwnFormats, DriverNext
    PROVE  OwnFormats'
<1>1. DeviceStep
    BY DriverDevice
<1>2. /\ Ring(queue) /\ DriverState /\ driver \in Drivers /\ dsp \in Devices /\ device_open \in BOOLEAN
      /\ UNCHANGED driver /\ (dsp.trouble => dsp'.trouble)
      /\ rec_device_open => rdpsnd_rec_negotiated
    BY <1>1 DEF DeviceServed, DriverState, RingState, DeviceStep, Serves
<1>3. OwnFormats' <=>
        /\ ~device_open' => queue'.lo = queue'.hi
        /\ driver = "oss" /\ ~rdpsnd_rec_negotiated' /\ device_open' /\ dsp'.fd =>
              dsp'.configured /\ dsp'.format = current_format'
        /\ Refuses' => AllIn(queue', current_format')
    BY <1>2 DEF OwnFormats, AllIn, Waiting
<1>4. ASSUME Ring(queue'), queue'.lo = queue'.hi, device_open' = FALSE PROVE OwnFormats'
    BY <1>3, <1>4, NoneIsIn
<1>5. GivesBack(queue, AckAll(queue)) /\ AckAll(queue).lo = AckAll(queue).hi /\ Ring(AckAll(queue))
    BY <1>2, AckAllIs DEF GivesBack
<1>6. EmptyQueue.lo = EmptyQueue.hi /\ Ring(EmptyQueue)
    BY EmptyIs DEF EmptyQueue
\* The ring shrinks, if anything, and the formats stay.
<1>7. ASSUME GivesBack(queue, queue'), UNCHANGED <<device_open, current_format>>,
             Refuses' => Refuses,
             driver = "oss" /\ ~rdpsnd_rec_negotiated' /\ device_open' /\ dsp'.fd =>
                /\ ~rdpsnd_rec_negotiated
                /\ dsp.fd /\ dsp'.configured = dsp.configured /\ dsp'.format = dsp.format
      PROVE  OwnFormats'
    BY <1>2, <1>3, <1>7, RestIsIn DEF OwnFormats
<1>8. GivesBack(queue, queue)
    BY <1>2, NothingBack
<1>9. ASSUME NEW format \in Formats, NEW length \in Lengths, DriverWrite(format, length)
      PROVE  OwnFormats'
  <2>1. UNCHANGED rdpsnd_rec_negotiated /\ (UNCHANGED dsp => (Refuses' => Refuses))
    BY <1>2, <1>9 DEF DriverWrite, recordVars, Refuses
  <2>2. CASE WriteOn(format, length)
    <3>1. Packet(format, length) \in Packets /\ Packet(format, length).format = current_format
      BY <2>2, PacketIs DEF DeviceServed, DriverState, RingState, Packet, WriteOn
    <3>2. AllIn(queue, current_format) => AllIn(queue', current_format)
      BY <1>2, <2>2, <3>1, OneMoreIsIn DEF WriteOn
    <3> QED
      BY <1>3, <2>1, <2>2, <3>2 DEF WriteOn, OwnFormats
  <2>3. CASE ~DeviceGone /\ WriteAnew(format, length)
    BY <1>1, <2>1, <2>3, OwnFormatWritten
  <2>4. CASE UNCHANGED <<queue, dsp, device_open, current_format>>
    BY <1>2, <1>7, <1>8, <2>1, <2>4
  <2> QED
    BY <1>9, <2>2, <2>3, <2>4 DEF DriverWrite
<1>10. DriverClose => OwnFormats'
    BY <1>4, <1>5 DEF DriverClose
<1>11. ResetSound => OwnFormats'
    BY <1>4, <1>6 DEF ResetSound
<1>12. ASSUME DriverNegotiate PROVE OwnFormats'
  <2>1. CASE ~rdpsnd_negotiated
    <3>1. ~device_open /\ UNCHANGED <<queue, device_open, current_format>>
      BY <1>12, <2>1 DEF DriverNegotiate, Negotiation
    <3>2. queue.lo = queue.hi
      BY <3>1 DEF OwnFormats
    <3> QED
      BY <1>2, <1>3, <3>1, <3>2, NoneIsIn
  <2> QED
    BY <1>11, <1>12, <2>1 DEF DriverNegotiate, Negotiation
<1>13. ASSUME RecNegotiate PROVE OwnFormats'
  <2>1. CASE ~rdpsnd_rec_negotiated
    <3>1. UNCHANGED <<queue, device_open, current_format>> /\ rdpsnd_rec_negotiated'
      BY <1>13, <2>1 DEF RecNegotiate, Negotiation
    <3>2. Refuses' => Refuses
      BY <1>2, <3>1 DEF Refuses
    <3> QED
      BY <1>2, <1>7, <1>8, <3>1, <3>2
  <2> QED
    BY <1>11, <1>13, <2>1 DEF RecNegotiate, Negotiation
<1>14. ASSUME NEW format \in RecFormats, RecStart(format) PROVE OwnFormats'
  <2>1. UNCHANGED <<queue, device_open, current_format, rdpsnd_rec_negotiated>> /\ rdpsnd_rec_negotiated
    BY <1>14 DEF RecStart, deviceVars
  <2>2. Refuses' => Refuses
    BY <1>2, <2>1 DEF Refuses
  <2> QED
    BY <1>2, <1>7, <1>8, <2>1, <2>2
<1>15. ASSUME RecStop PROVE OwnFormats'
  <2>1. /\ UNCHANGED <<queue, device_open, current_format, rdpsnd_rec_negotiated>>
        /\ rec_device_open \/ dsp' = dsp
    BY <1>15 DEF RecStop, deviceVars
  <2>2. Refuses' => Refuses
    BY <1>2, <2>1 DEF Refuses
  <2> QED
    BY <1>2, <1>7, <1>8, <2>1, <2>2
<1>16. ASSUME DriverCheckFds PROVE OwnFormats'
  <2>1. GivesBack(queue, queue')
    BY <1>2, <1>16, DriverChecks
  <2>2. PICK failed : dsp' = [dsp EXCEPT !.trouble = dsp.trouble \/ failed]
    BY <1>16 DEF DriverCheckFds
  <2>3. dsp'.fd = dsp.fd /\ dsp'.configured = dsp.configured /\ dsp'.format = dsp.format
    BY <1>2, <2>2 DEF Devices
  <2>4. UNCHANGED <<device_open, current_format, rdpsnd_rec_negotiated>>
    BY <1>16 DEF DriverCheckFds, deviceVars
  <2>5. Refuses' => Refuses
    BY <1>2, <2>4 DEF Refuses
  <2> QED
    BY <1>2, <1>7, <2>1, <2>3, <2>4, <2>5
<1>17. ASSUME DriverTick PROVE OwnFormats'
  <2>1. GivesBack(queue, queue')
    BY <1>2, <1>17, TickIs DEF DriverTick
  <2>2. UNCHANGED <<device_open, current_format, rdpsnd_rec_negotiated, dsp>>
    BY <1>17 DEF DriverTick, QueueTick, deviceVars, recordVars
  <2>3. Refuses' => Refuses
    BY <1>2, <2>2 DEF Refuses
  <2> QED
    BY <1>2, <1>7, <2>1, <2>2, <2>3
<1>18. DriverReset => OwnFormats'
    BY <1>11 DEF DriverReset
<1> QED
    BY <1>9, <1>10, <1>12, <1>13, <1>14, <1>15, <1>16, <1>17, <1>18 DEF DriverNext, DriverServer

-----------------------------------------------------------------------------
(* The program, with one driver or another *)

\* A build with any of these drivers keeps its types, whatever fails.
THEOREM DriverTypes == DriverSpec => []DriverTypeOK
BY DriverInvariance, ServedIs, PTL

\* The device that playing and recording share is open for exactly those who
\* use it, however they begin, negotiate and end (rdpsnd_oss.c, rdpsnd_sun.c),
\* as long as no call of the operating system fails.
THEOREM DeviceShared == DriverSpec => []ServesUsers
BY DriverInvariance, ServedIs, PTL

SoundState ==
    /\ dart \in BOOLEAN
    /\ dart => DartState /\ OfCurrentFormat
    /\ ~dart => DeviceServed /\ OwnFormats

LEMMA SoundStart == SoundInit => SoundState /\ Promise!Init
<1> SUFFICES ASSUME SoundInit PROVE SoundState /\ Promise!Init
    OBVIOUS
<1>1. dart \in BOOLEAN /\ DartInit /\ DriverInit /\ RingInit
    BY DEF SoundInit, DriverInit
<1>2. RingState /\ Promise!Init
    BY <1>1, RingStart
<1>3. DartState
    BY <1>1, <1>2 DEF DartInit, DartState
<1>4. /\ queue.lo = queue.hi /\ Ring(queue) /\ ~device_open
    BY <1>1, EmptyIs DEF RingInit, EmptyQueue
<1>5. AllIn(queue, current_format)
    BY <1>4, NoneIsIn
<1>6. OfCurrentFormat /\ OwnFormats
    BY <1>4, <1>5 DEF OfCurrentFormat, AllIn, OwnFormats
<1> QED
    BY <1>1, <1>2, <1>3, <1>6, DeviceStart DEF SoundState

LEMMA SoundStep ==
    ASSUME SoundState, [SoundNext]_soundVars
    PROVE  SoundState' /\ [Promise!Next]_(Promise!vars)
<1>1. CASE dart /\ DartNext /\ UNCHANGED dart
    BY <1>1, DartStep, FormatKept DEF SoundState
<1>2. CASE ~dart /\ DriverNext /\ UNCHANGED dart
  <2>1. DeviceServed' /\ RingStep
    BY <1>2, DriverStep DEF SoundState
  <2>2. OwnFormats'
    BY <1>2, OwnFormatStep DEF SoundState
  <2>3. Promise!Next
    BY <1>2, <2>1, RingStepIs DEF SoundState, DeviceServed, DriverState, RingState
  <2> QED
    BY <1>2, <2>1, <2>2, <2>3 DEF SoundState
<1>3. CASE UNCHANGED soundVars
  <2>1. /\ UNCHANGED <<dart, queue, current_driver, rdpsnd_negotiated, device_open, current_format, block,
                       answered, driver, duplex, dsp, rec_device_open, rdpsnd_rec_negotiated,
                       record_buffer_size, aborted, ulMidBufOutWritePos>>
    BY <1>3 DEF soundVars, otherVars, dartVars, ringVars, deviceVars, bufferVars, recordVars
  <2>2. UNCHANGED Promise!vars
    BY <2>1 DEF Promise!vars, waiting
  <2>3. dart => DartState' /\ OfCurrentFormat'
    BY <2>1 DEF SoundState, DartState, RingState, Ring, Ordered, OfCurrentFormat, Waiting
  <2>4. ~dart => DeviceServed'
    BY <2>1 DEF SoundState, DeviceServed, DriverState, RingState, Ring, Ordered, CanRecord, Serving, Fits,
                UsersOf
  <2>5. ~dart => OwnFormats'
    BY <2>1 DEF SoundState, OwnFormats, Refuses, AllIn, Waiting
  <2> QED
    BY <2>1, <2>2, <2>3, <2>4, <2>5 DEF SoundState
<1> QED
    BY <1>1, <1>2, <1>3 DEF SoundNext

LEMMA SoundInvariance == SoundSpec => []SoundState
<1>1. SoundInit => SoundState
    BY SoundStart
<1> QED
    BY <1>1, SoundStep, PTL DEF SoundSpec

\* With any driver the positions of the ring keep their order: what waits to be
\* copied to the device is part of what waits to be acknowledged.
THEOREM RingKept == SoundSpec => []RingInOrder
<1>1. SoundState => RingInOrder
    BY RingStateIs, ServedIs DEF SoundState, DartState
<1> QED
    BY <1>1, SoundInvariance, PTL

\* The device is open for those who use it, and no packet meets a device of
\* another format with the drivers that refuse one.
THEOREM DeviceMatchesUse == SoundSpec => []DeviceAsAskedFor
<1>1. SoundState => DeviceAsAskedFor
  <2> SUFFICES ASSUME SoundState PROVE DeviceAsAskedFor
      OBVIOUS
  <2>1. DeviceServesUsers
    BY ServedIs DEF SoundState, DeviceServesUsers
  <2>2. PlayedInOwnFormat
    BY DEF SoundState, PlayedInOwnFormat, KeepsFormat, OwnFormats, Refuses, OfCurrentFormat, AllIn
  <2> QED
    BY <2>1, <2>2 DEF DeviceAsAskedFor
<1> QED
    BY <1>1, SoundInvariance, PTL

\* With any driver, whatever is opened, closed, reset, negotiated or fails, each
\* packet that was queued is acknowledged at most once, in the order they came:
\* the ring and its drivers implement SoundPromise.
THEOREM SoundKeepsPromise == SoundSpec => CompletionsInOrder
<1>1. SoundInit => Promise!Init
    BY SoundStart
<1>2. SoundState /\ [SoundNext]_soundVars => [Promise!Next]_(Promise!vars)
    BY SoundStep
<1> QED
    BY <1>1, <1>2, SoundInvariance, PTL DEF SoundSpec, CompletionsInOrder, Promise!Spec
=============================================================================
