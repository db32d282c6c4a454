---------------------------- MODULE SoundPromise ----------------------------
(***************************************************************************)
(* What rdpsnd.c promises the server about the sound it sends: a packet    *)
(* that was queued is acknowledged once, and packets are acknowledged in   *)
(* the order in which they came, whatever becomes of the sound device in   *)
(* between.  Only a reset of the sound state forgets packets, and only a   *)
(* packet that no driver or no device takes is answered out of turn; the   *)
(* device is closed then, and those before it follow.                      *)
(***************************************************************************)
EXTENDS Naturals, Sequences

CONSTANT Indexes           \* the numbers the server gives its packets

VARIABLES
    waiting,               \* packets queued and not yet acknowledged, oldest first
    answered               \* the acknowledgements of the last step, in order

vars == <<waiting, answered>>

Init == waiting = <<>> /\ answered = <<>>

\* The oldest packets are acknowledged; what is left.
Oldest(k) == SubSeq(waiting, 1, k)
Rest(k) == SubSeq(waiting, k + 1, Len(waiting))

Acknowledge(k) == answered' = Oldest(k) /\ waiting' = Rest(k)
AcknowledgeAndQueue(k, index) == answered' = Oldest(k) /\ waiting' = Append(Rest(k), index)
AcknowledgeAndForget(k) == answered' = Oldest(k) /\ waiting' = <<>>
RefuseAndAcknowledge(k, index) == answered' = <<index>> \o Oldest(k) /\ waiting' = Rest(k)

Next ==
    \/ \E k \in 0..Len(waiting) :
        \/ Acknowledge(k)
        \/ AcknowledgeAndForget(k)
        \/ \E index \in Indexes : AcknowledgeAndQueue(k, index)
        \/ \E index \in Indexes : RefuseAndAcknowledge(k, index)

Spec == Init /\ [][Next]_vars
=============================================================================
