----------------------------- MODULE BitmapLru ------------------------------
(***************************************************************************)
(* What the doubly linked list of cache.c stands for: the cells with a     *)
(* bitmap in memory, least recently used first.  Storing a bitmap moves    *)
(* its cell to the end and, past the limit, drops the first; using one     *)
(* moves it BumpCount places towards the end.                              *)
(***************************************************************************)
EXTENDS Naturals, Sequences, SequencesExt

CONSTANTS Cells, Limit, BumpCount

VARIABLE list

Init == list = <<>>

Least(a, b) == IF a < b THEN a ELSE b

Store(idx) ==
    LET longer == Append(RemoveFirst(list, idx), idx)
    IN list' = IF Len(longer) > Limit THEN Tail(longer) ELSE longer

\* The list after the bitmap at a place was used.
Used(place) ==
    InsertAt(RemoveAt(list, place), Least(place + BumpCount, Len(list)), list[place])
Use(place) == list' = Used(place)

\* A run of the program begins with the bitmaps loaded in advance, in the order
\* the last run left them, and ends with none.
Start ==
    /\ list = <<>>
    /\ ToSet(list') \subseteq Cells
    /\ IsInjective(list')
    /\ Len(list') <= Limit

Stop == list' = <<>>

Next ==
    \/ \E idx \in Cells : Store(idx)
    \/ \E place \in 1..Len(list) : Use(place)
    \/ Start
    \/ Stop

Spec == Init /\ [][Next]_list
=============================================================================
