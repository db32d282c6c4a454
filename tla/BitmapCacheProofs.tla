------------------------- MODULE BitmapCacheProofs --------------------------
(***************************************************************************)
(* Proofs about BitmapCache, for any number of cells, bitmaps and puts:    *)
(* the linked list is well formed and holds what is in memory, it          *)
(* implements BitmapLru, a run starts in the saved order, and the server   *)
(* draws with what it put.                                                 *)
(*                                                                         *)
(* And about Orders, the drawing orders that use those bitmaps, for any    *)
(* kinds, values and lists of points: why an order is drawn as it was      *)
(* meant.  Client and server remember the same; each part of an order is   *)
(* found where it was written and means what was written there: the bytes  *)
(* of the fields, the edges of the clip rectangle, the fields, and in a    *)
(* field of points the points.                                             *)
(***************************************************************************)
EXTENDS BitmapCache, Orders, ProofLemmas

\* The state of the cells: what the operations of cache.c work on.
Contents == Bitmaps \cup {NULL}
CellStates == [bitmap : Contents, previous : Links, next : Links]
Files == [Cells -> [bitmap : Bitmaps \cup {Blank}, stamp : 0..MemoryCells]]
Caches == [cell : [Cells -> CellStates], lru : Links, mru : Links, count : Int, file : Files]

\* A link is set when it leads to a cell.
LEMMA LinkIs ==
    ASSUME NEW p \in Links
    PROVE  /\ IsSet(p) <=> p \in Cells
           /\ IsSet(p) <=> p # NOT_SET
           /\ NOT_SET \in Links /\ NOT_SET \notin Cells
BY CellAssumption DEF Links, IsSet, Cells, NOT_SET

\* What an operation on links leaves alone.
KeepsBitmaps(c, d) ==
    /\ d \in Caches
    /\ d.file = c.file
    /\ \A i \in Cells : d.cell[i].bitmap = c.cell[i].bitmap

\* SetNext changes one forward link, or the least recently used end.
NextChanged(c, d, p, n) ==
    /\ KeepsBitmaps(c, d)
    /\ d.count = c.count /\ d.mru = c.mru
    /\ d.lru = IF p = NOT_SET THEN n ELSE c.lru
    /\ \A i \in Cells : /\ d.cell[i].previous = c.cell[i].previous
                        /\ d.cell[i].next = IF i = p THEN n ELSE c.cell[i].next

LEMMA SetNextIs ==
    ASSUME NEW c \in Caches, NEW p \in Links, NEW n \in Links
    PROVE  NextChanged(c, SetNext(c, p, n), p, n)
<1> USE DEF NextChanged, KeepsBitmaps, Caches, CellStates
<1>1. CASE IsSet(p)
  <2> DEFINE d == [c EXCEPT !.cell[p].next = n]
  <2>1. SetNext(c, p, n) = d
    BY <1>1 DEF SetNext
  <2>2. p \in Cells /\ p # NOT_SET
    BY <1>1, LinkIs
  <2> QED
    BY <2>1, <2>2
<1>2. CASE ~IsSet(p)
  <2>1. SetNext(c, p, n) = [c EXCEPT !.lru = n]
    BY <1>2 DEF SetNext
  <2>2. p \notin Cells /\ p = NOT_SET
    BY <1>2, LinkIs
  <2> QED
    BY <2>1, <2>2
<1> QED
    BY <1>1, <1>2

\* SetPrevious changes one backward link, or the most recently used end.
PreviousChanged(c, d, n, p) ==
    /\ KeepsBitmaps(c, d)
    /\ d.count = c.count /\ d.lru = c.lru
    /\ d.mru = IF n = NOT_SET THEN p ELSE c.mru
    /\ \A i \in Cells : /\ d.cell[i].next = c.cell[i].next
                        /\ d.cell[i].previous = IF i = n THEN p ELSE c.cell[i].previous

LEMMA SetPreviousIs ==
    ASSUME NEW c \in Caches, NEW n \in Links, NEW p \in Links
    PROVE  PreviousChanged(c, SetPrevious(c, n, p), n, p)
<1> USE DEF PreviousChanged, KeepsBitmaps, Caches, CellStates
<1>1. CASE IsSet(n)
  <2> DEFINE d == [c EXCEPT !.cell[n].previous = p]
  <2>1. SetPrevious(c, n, p) = d
    BY <1>1 DEF SetPrevious
  <2>2. n \in Cells /\ n # NOT_SET
    BY <1>1, LinkIs
  <2> QED
    BY <2>1, <2>2
<1>2. CASE ~IsSet(n)
  <2>1. SetPrevious(c, n, p) = [c EXCEPT !.mru = p]
    BY <1>2 DEF SetPrevious
  <2>2. n \notin Cells /\ n = NOT_SET
    BY <1>2, LinkIs
  <2> QED
    BY <2>1, <2>2
<1> QED
    BY <1>1, <1>2

\* A cell with a successor is unlinked: its neighbours, or an end and a
\* neighbour, are linked with each other.
Unlinked(c, d, p, n) ==
    /\ KeepsBitmaps(c, d)
    /\ d.count = c.count - 1 /\ d.mru = c.mru
    /\ d.lru = IF p = NOT_SET THEN n ELSE c.lru
    /\ \A i \in Cells : /\ d.cell[i].next = IF i = p THEN n ELSE c.cell[i].next
                        /\ d.cell[i].previous = IF i = n THEN p ELSE c.cell[i].previous

LEMMA TakeOutUnlinks ==
    ASSUME NEW c \in Caches, NEW idx \in Cells, c.cell[idx].next \in Cells
    PROVE  Unlinked(c, TakeOut(c, idx), c.cell[idx].previous, c.cell[idx].next)
<1> DEFINE n == c.cell[idx].next
           p == c.cell[idx].previous
           d == SetNext(c, p, n)
           e == SetPrevious(d, n, p)
<1>1. n \in Links /\ p \in Links /\ IsSet(n) /\ n # NOT_SET
    BY LinkIs DEF Caches, CellStates, Links
<1>2. TakeOut(c, idx) = [e EXCEPT !.count = @ - 1]
    BY <1>1 DEF TakeOut
<1> HIDE DEF n, p
<1>3. NextChanged(c, d, p, n)
    BY <1>1, SetNextIs
<1>4. d \in Caches
    BY <1>3 DEF NextChanged, KeepsBitmaps
<1>5. PreviousChanged(d, e, n, p)
    BY <1>1, <1>4, SetPreviousIs
<1> HIDE DEF d, e
<1> DEFINE f == [e EXCEPT !.count = @ - 1]
<1>6. e \in Caches /\ e.count = c.count
    BY <1>3, <1>5 DEF PreviousChanged, NextChanged, KeepsBitmaps
<1>7. f \in Caches /\ f.cell = e.cell /\ f.lru = e.lru /\ f.mru = e.mru /\ f.file = e.file
      /\ f.count = c.count - 1
    BY <1>6 DEF Caches
<1> HIDE DEF f
<1>8. Unlinked(c, f, p, n)
    BY <1>1, <1>3, <1>5, <1>7 DEF Unlinked, PreviousChanged, NextChanged, KeepsBitmaps
<1> QED
    BY <1>2, <1>8 DEF f, n, p

\* A cell is linked between two others, or an end and another.
LinkedIn(c, d, idx, p, n) ==
    /\ KeepsBitmaps(c, d)
    /\ d.count = c.count + 1
    /\ d.lru = IF p = NOT_SET THEN idx ELSE c.lru
    /\ d.mru = IF n = NOT_SET THEN idx ELSE c.mru
    /\ d.cell[idx].previous = p /\ d.cell[idx].next = n
    /\ \A i \in Cells \ {idx} :
          /\ d.cell[i].next = IF i = p THEN idx ELSE c.cell[i].next
          /\ d.cell[i].previous = IF i = n THEN idx ELSE c.cell[i].previous

LEMMA OneNext ==
    ASSUME NEW c \in Caches, NEW idx \in Cells, NEW n \in Links
    PROVE  LET d == [c EXCEPT !.cell[idx].next = n]
           IN /\ d \in Caches
              /\ d.file = c.file /\ d.lru = c.lru /\ d.mru = c.mru /\ d.count = c.count
              /\ d.cell = [c.cell EXCEPT ![idx].next = n]
BY DEF Caches, CellStates

LEMMA InsertLinks ==
    ASSUME NEW c \in Caches, NEW idx \in Cells, NEW p \in Links \ {idx}, NEW n \in Links \ {idx}
    PROVE  LinkedIn(c, InsertBetween(c, idx, p, n), idx, p, n)
<1> DEFINE b == [c EXCEPT !.cell[idx].previous = p, !.cell[idx].next = n, !.count = @ + 1]
           d == SetNext(b, p, idx)
           e == SetPrevious(d, n, idx)
<1>1. InsertBetween(c, idx, p, n) = e
    BY DEF InsertBetween
<1>2. /\ b \in Caches /\ b.file = c.file /\ b.lru = c.lru /\ b.mru = c.mru /\ b.count = c.count + 1
      /\ \A i \in Cells : b.cell[i].bitmap = c.cell[i].bitmap
      /\ b.cell[idx].previous = p /\ b.cell[idx].next = n
      /\ \A i \in Cells \ {idx} : b.cell[i] = c.cell[i]
  <2> DEFINE x == [c EXCEPT !.cell[idx].previous = p]
             y == [x EXCEPT !.cell[idx].next = n]
             z == [y EXCEPT !.count = @ + 1]
  <2>1. b = z
    OBVIOUS
  <2>2. /\ x \in Caches /\ x.file = c.file /\ x.lru = c.lru /\ x.mru = c.mru /\ x.count = c.count
        /\ x.cell = [c.cell EXCEPT ![idx].previous = p]
    BY DEF Caches, CellStates
  <2> HIDE DEF x
  <2>3. /\ y \in Caches /\ y.file = x.file /\ y.lru = x.lru /\ y.mru = x.mru /\ y.count = x.count
        /\ y.cell = [x.cell EXCEPT ![idx].next = n]
    BY <2>2, OneNext
  <2> HIDE DEF y
  <2>4. /\ z \in Caches /\ z.file = y.file /\ z.lru = y.lru /\ z.mru = y.mru /\ z.cell = y.cell
        /\ z.count = y.count + 1
    BY <2>3 DEF Caches
  <2> HIDE DEF z, b
  <2>5. x.cell \in [Cells -> CellStates] /\ c.cell \in [Cells -> CellStates]
    BY <2>2 DEF Caches
  <2>6. \A i \in Cells : b.cell[i].bitmap = c.cell[i].bitmap
    BY <2>1, <2>2, <2>3, <2>4, <2>5 DEF CellStates
  <2>7. b.cell[idx].previous = p /\ b.cell[idx].next = n /\ \A i \in Cells \ {idx} : b.cell[i] = c.cell[i]
    BY <2>1, <2>2, <2>3, <2>4, <2>5 DEF CellStates
  <2> QED
    BY <2>1, <2>2, <2>3, <2>4, <2>6, <2>7
<1>3. idx \in Links
    BY DEF Links
<1> HIDE DEF b
<1>4. NextChanged(b, d, p, idx)
    BY <1>2, <1>3, SetNextIs
<1>5. d \in Caches
    BY <1>4 DEF NextChanged, KeepsBitmaps
<1>6. PreviousChanged(d, e, n, idx)
    BY <1>3, <1>5, SetPreviousIs
<1> HIDE DEF d, e
<1>7. LinkedIn(c, e, idx, p, n)
    BY <1>2, <1>4, <1>6 DEF LinkedIn, PreviousChanged, NextChanged, KeepsBitmaps
<1> QED
    BY <1>1, <1>7
-----------------------------------------------------------------------------
(* The list that the links stand for *)

\* The lists of n cells, each at most once.
Lists(n) == {s \in [1..n -> Cells] : \A j, k \in 1..n : s[j] = s[k] => j = k}
At(s, n, k) == IF k \in 1..n THEN s[k] ELSE NOT_SET

\* Links, ends and count say which list it is.
Linked(c, n, s) ==
    /\ c.count = n
    /\ c.lru = At(s, n, 1) /\ c.mru = At(s, n, n)
    /\ \A k \in 1..n : /\ c.cell[s[k]].previous = At(s, n, k - 1)
                       /\ c.cell[s[k]].next = At(s, n, k + 1)

\* The list without its m-th cell, and with a cell after its g-th.
Dropped(s, n, m) == [k \in 1..(n - 1) |-> IF k < m THEN s[k] ELSE s[k + 1]]
Inserted(s, n, g, idx) ==
    [k \in 1..(n + 1) |-> IF k <= g THEN s[k] ELSE IF k = g + 1 THEN idx ELSE s[k - 1]]

LEMMA AtIs ==
    ASSUME NEW n \in Nat, NEW s \in Lists(n), NEW k \in Int
    PROVE  /\ At(s, n, k) \in Links
           /\ k \in 1..n => At(s, n, k) = s[k] /\ s[k] \in Cells /\ At(s, n, k) # NOT_SET
           /\ k \notin 1..n => At(s, n, k) = NOT_SET
           /\ IsSet(At(s, n, k)) <=> k \in 1..n
<1>1. NOT_SET \in Links /\ NOT_SET \notin Cells
    BY LinkIs DEF Links
<1>2. k \in 1..n => s[k] \in Cells
    BY DEF Lists
<1>3. At(s, n, k) \in Links
    BY <1>1, <1>2 DEF At, Links
<1>4. IsSet(At(s, n, k)) <=> At(s, n, k) \in Cells
    BY <1>3, LinkIs
<1> QED
    BY <1>1, <1>2, <1>3, <1>4 DEF At

LEMMA DroppedIs ==
    ASSUME NEW n \in Nat, NEW s \in Lists(n), NEW m \in 1..n
    PROVE  LET t == Dropped(s, n, m)
           IN /\ t \in Lists(n - 1)
              /\ \A k \in 1..(n - 1) : t[k] = (IF k < m THEN s[k] ELSE s[k + 1]) /\ t[k] # s[m]
              /\ \A k \in Int : At(t, n - 1, k) = IF k < m THEN At(s, n, k) ELSE At(s, n, k + 1)
<1> DEFINE t == Dropped(s, n, m)
<1>1. \A k \in 1..(n - 1) : t[k] = (IF k < m THEN s[k] ELSE s[k + 1])
    BY DEF Dropped
<1>2. \A k \in 1..(n - 1) : k \in 1..n /\ k + 1 \in 1..n
    OBVIOUS
<1>3. t \in [1..(n - 1) -> Cells]
    BY <1>2 DEF Dropped, Lists
<1>4. \A j, k \in 1..n : s[j] = s[k] => j = k
    BY DEF Lists
<1> HIDE DEF t
<1>5. \A k \in 1..(n - 1) : t[k] # s[m]
    BY <1>1, <1>2, <1>4
<1>6. ASSUME NEW j \in 1..(n - 1), NEW k \in 1..(n - 1), t[j] = t[k]
      PROVE  j = k
    BY <1>1, <1>2, <1>4, <1>6
<1>7. \A k \in Int : At(t, n - 1, k) = IF k < m THEN At(s, n, k) ELSE At(s, n, k + 1)
    BY <1>1 DEF At
<1>8. t \in Lists(n - 1)
    BY <1>3, <1>6 DEF Lists
<1> QED
    BY <1>1, <1>5, <1>7, <1>8 DEF t

LEMMA InsertedIs ==
    ASSUME NEW n \in Nat, NEW s \in Lists(n), NEW g \in 0..n, NEW idx \in Cells,
           \A k \in 1..n : s[k] # idx
    PROVE  LET t == Inserted(s, n, g, idx)
           IN /\ t \in Lists(n + 1)
              /\ t[g + 1] = idx
              /\ \A k \in 1..(n + 1) :
                    t[k] = IF k <= g THEN s[k] ELSE IF k = g + 1 THEN idx ELSE s[k - 1]
              /\ \A k \in Int : At(t, n + 1, k) =
                    IF k <= g THEN At(s, n, k) ELSE IF k = g + 1 THEN idx ELSE At(s, n, k - 1)
<1> DEFINE t == Inserted(s, n, g, idx)
<1>1. \A k \in 1..(n + 1) :
         t[k] = IF k <= g THEN s[k] ELSE IF k = g + 1 THEN idx ELSE s[k - 1]
    BY DEF Inserted
<1>2. \A k \in 1..(n + 1) : (k <= g => k \in 1..n) /\ (k > g + 1 => k - 1 \in 1..n)
    OBVIOUS
<1>3. t \in [1..(n + 1) -> Cells]
    BY <1>2 DEF Inserted, Lists
<1>4. \A j, k \in 1..n : s[j] = s[k] => j = k
    BY DEF Lists
<1> HIDE DEF t
<1>5. ASSUME NEW j \in 1..(n + 1), NEW k \in 1..(n + 1), t[j] = t[k]
      PROVE  j = k
    BY <1>1, <1>2, <1>4, <1>5
<1>6. \A k \in Int : At(t, n + 1, k) =
         IF k <= g THEN At(s, n, k) ELSE IF k = g + 1 THEN idx ELSE At(s, n, k - 1)
    BY <1>1 DEF At
<1>7. t \in Lists(n + 1)
    BY <1>3, <1>5 DEF Lists
<1>8. t[g + 1] = idx
    BY <1>1
<1> QED
    BY <1>1, <1>6, <1>7, <1>8 DEF t

\* A cell that is not the last leaves the list.
LEMMA TakeOutIs ==
    ASSUME NEW c \in Caches, NEW n \in Nat, NEW s \in Lists(n), Linked(c, n, s),
           NEW m \in 1..(n - 1)
    PROVE  LET d == TakeOut(c, s[m])
           IN KeepsBitmaps(c, d) /\ Linked(d, n - 1, Dropped(s, n, m))
<1> DEFINE idx == s[m]
           d == TakeOut(c, idx)
           t == Dropped(s, n, m)
           p == At(s, n, m - 1)
           x == At(s, n, m + 1)
<1>1. idx \in Cells /\ c.cell[idx].previous = p /\ c.cell[idx].next = x
    BY DEF Linked, Lists
<1>2. x = s[m + 1] /\ x \in Cells /\ m + 1 \in 1..n
    BY AtIs
<1>3. p \in Links /\ (p = NOT_SET <=> m = 1) /\ (m > 1 => p = s[m - 1] /\ m - 1 \in 1..n)
    BY AtIs
<1>4. Unlinked(c, d, p, x)
    BY <1>1, <1>2, TakeOutUnlinks
<1>5. /\ \A k \in 1..(n - 1) : t[k] = (IF k < m THEN s[k] ELSE s[k + 1])
      /\ \A k \in Int : At(t, n - 1, k) = IF k < m THEN At(s, n, k) ELSE At(s, n, k + 1)
    BY DroppedIs
<1>6. /\ \A j, k \in 1..n : s[j] = s[k] => j = k
      /\ \A k \in 1..n : s[k] \in Cells
    BY DEF Lists
<1> HIDE DEF d, t, p, x, idx
<1>7. d.count = n - 1
    BY <1>4 DEF Unlinked, Linked
<1>8. d.lru = At(t, n - 1, 1)
  <2>1. c.lru = At(s, n, 1)
    BY DEF Linked
  <2>2. At(t, n - 1, 1) = IF 1 < m THEN At(s, n, 1) ELSE At(s, n, 2)
    BY <1>5
  <2> QED
    BY <1>3, <1>4, <2>1, <2>2 DEF Unlinked, x
<1>9. d.mru = At(t, n - 1, n - 1)
  <2>1. At(t, n - 1, n - 1) = At(s, n, n)
    BY <1>5
  <2> QED
    BY <1>4, <2>1 DEF Unlinked, Linked
<1>10. ASSUME NEW k \in 1..(n - 1)
       PROVE  d.cell[t[k]].previous = At(t, n - 1, k - 1) /\ d.cell[t[k]].next = At(t, n - 1, k + 1)
  <2>1. CASE k < m
    <3>1. t[k] = s[k] /\ k \in 1..n
      BY <1>5, <2>1
    <3>2. c.cell[s[k]].previous = At(s, n, k - 1) /\ c.cell[s[k]].next = At(s, n, k + 1)
      BY <3>1 DEF Linked
    <3>3. At(t, n - 1, k - 1) = At(s, n, k - 1)
      BY <1>5, <2>1
    <3>4. At(t, n - 1, k + 1) = IF k = m - 1 THEN x ELSE At(s, n, k + 1)
      BY <1>5, <2>1 DEF x
    <3>5. s[k] # x /\ (s[k] = p <=> k = m - 1)
      BY <1>2, <1>3, <1>6, <2>1, <3>1, LinkIs
    <3> QED
      BY <1>4, <1>6, <3>1, <3>2, <3>3, <3>4, <3>5 DEF Unlinked
  <2>2. CASE k >= m
    <3>1. t[k] = s[k + 1] /\ k + 1 \in 1..n
      BY <1>5, <2>2
    <3>2. c.cell[s[k + 1]].previous = At(s, n, k) /\ c.cell[s[k + 1]].next = At(s, n, k + 2)
      BY <3>1 DEF Linked
    <3>3. At(t, n - 1, k - 1) = IF k = m THEN p ELSE At(s, n, k)
      BY <1>5, <2>2 DEF p
    <3>4. At(t, n - 1, k + 1) = At(s, n, k + 2)
      BY <1>5, <2>2
    <3>5. s[k + 1] # p /\ (s[k + 1] = x <=> k = m)
      BY <1>2, <1>3, <1>6, <2>2, <3>1, LinkIs
    <3> QED
      BY <1>4, <1>6, <3>1, <3>2, <3>3, <3>4, <3>5 DEF Unlinked
  <2> QED
    BY <2>1, <2>2
<1>11. KeepsBitmaps(c, d) /\ Linked(d, n - 1, t)
    BY <1>4, <1>7, <1>8, <1>9, <1>10 DEF Unlinked, Linked
<1> QED
    BY <1>11 DEF d, t, idx

\* A cell that is not in the list enters it after the g-th.
LEMMA InsertIs ==
    ASSUME NEW c \in Caches, NEW n \in Nat, NEW s \in Lists(n), Linked(c, n, s),
           NEW g \in 0..n, NEW idx \in Cells, \A k \in 1..n : s[k] # idx
    PROVE  LET d == InsertBetween(c, idx, At(s, n, g), At(s, n, g + 1))
           IN KeepsBitmaps(c, d) /\ Linked(d, n + 1, Inserted(s, n, g, idx))
<1> DEFINE p == At(s, n, g)
           x == At(s, n, g + 1)
           d == InsertBetween(c, idx, p, x)
           t == Inserted(s, n, g, idx)
<1>1. p \in Links /\ (p = NOT_SET <=> g = 0) /\ (g > 0 => p = s[g] /\ g \in 1..n)
    BY AtIs
<1>2. x \in Links /\ (x = NOT_SET <=> g = n) /\ (g < n => x = s[g + 1] /\ g + 1 \in 1..n)
    BY AtIs
<1>3. idx # p /\ idx # x
    BY <1>1, <1>2, LinkIs
<1>4. LinkedIn(c, d, idx, p, x)
    BY <1>1, <1>2, <1>3, InsertLinks
<1>5. /\ \A k \in 1..(n + 1) : t[k] = IF k <= g THEN s[k] ELSE IF k = g + 1 THEN idx ELSE s[k - 1]
      /\ \A k \in Int : At(t, n + 1, k) =
            IF k <= g THEN At(s, n, k) ELSE IF k = g + 1 THEN idx ELSE At(s, n, k - 1)
    BY InsertedIs
<1>6. /\ \A j, k \in 1..n : s[j] = s[k] => j = k
      /\ \A k \in 1..n : s[k] \in Cells
    BY DEF Lists
<1> HIDE DEF d, t, p, x
<1>7. d.count = n + 1
    BY <1>4 DEF LinkedIn, Linked
<1>8. d.lru = At(t, n + 1, 1)
  <2>1. c.lru = At(s, n, 1)
    BY DEF Linked
  <2>2. At(t, n + 1, 1) = IF g = 0 THEN idx ELSE At(s, n, 1)
    BY <1>5
  <2> QED
    BY <1>1, <1>4, <2>1, <2>2 DEF LinkedIn
<1>9. d.mru = At(t, n + 1, n + 1)
  <2>1. c.mru = At(s, n, n)
    BY DEF Linked
  <2>2. At(t, n + 1, n + 1) = IF g = n THEN idx ELSE At(s, n, n)
    BY <1>5
  <2> QED
    BY <1>2, <1>4, <2>1, <2>2 DEF LinkedIn
<1>10. ASSUME NEW k \in 1..(n + 1)
       PROVE  d.cell[t[k]].previous = At(t, n + 1, k - 1) /\ d.cell[t[k]].next = At(t, n + 1, k + 1)
  <2>1. CASE k <= g
    <3>1. t[k] = s[k] /\ k \in 1..n
      BY <1>5, <2>1
    <3>2. c.cell[s[k]].previous = At(s, n, k - 1) /\ c.cell[s[k]].next = At(s, n, k + 1)
      BY <3>1 DEF Linked
    <3>3. At(t, n + 1, k - 1) = At(s, n, k - 1)
      BY <1>5, <2>1
    <3>4. At(t, n + 1, k + 1) = IF k = g THEN idx ELSE At(s, n, k + 1)
      BY <1>5, <2>1
    <3>5. s[k] # x /\ s[k] # idx /\ (s[k] = p <=> k = g)
      BY <1>1, <1>2, <1>6, <2>1, <3>1, LinkIs
    <3> QED
      BY <1>4, <1>6, <3>1, <3>2, <3>3, <3>4, <3>5 DEF LinkedIn
  <2>2. CASE k = g + 1
    <3>1. t[k] = idx
      BY <1>5, <2>2
    <3>2. At(t, n + 1, k - 1) = p /\ At(t, n + 1, k + 1) = x
      BY <1>5, <2>2 DEF p, x
    <3> QED
      BY <1>4, <3>1, <3>2 DEF LinkedIn
  <2>3. CASE k > g + 1
    <3>1. t[k] = s[k - 1] /\ k - 1 \in 1..n
      BY <1>5, <2>3
    <3>2. c.cell[s[k - 1]].previous = At(s, n, k - 2) /\ c.cell[s[k - 1]].next = At(s, n, k)
      BY <3>1 DEF Linked
    <3>3. At(t, n + 1, k - 1) = IF k = g + 2 THEN idx ELSE At(s, n, k - 2)
      BY <1>5, <2>3
    <3>4. At(t, n + 1, k + 1) = At(s, n, k)
      BY <1>5, <2>3
    <3>5. s[k - 1] # p /\ s[k - 1] # idx /\ (s[k - 1] = x <=> k = g + 2)
      BY <1>1, <1>2, <1>6, <2>3, <3>1, LinkIs
    <3> QED
      BY <1>4, <1>6, <3>1, <3>2, <3>3, <3>4, <3>5 DEF LinkedIn
  <2> QED
    BY <2>1, <2>2, <2>3
<1>11. KeepsBitmaps(c, d) /\ Linked(d, n + 1, t)
    BY <1>4, <1>7, <1>8, <1>9, <1>10 DEF LinkedIn, Linked
<1> QED
    BY <1>11 DEF d, t, p, x
-----------------------------------------------------------------------------
(* Walking along the list *)

\* The place after the g-th cell, and where k steps from it end.
Gap(s, n, g) == <<At(s, n, g), At(s, n, g + 1)>>
Reach(n, k) == IF k <= n THEN k ELSE n

LEMMA NextPlaceIs ==
    ASSUME NEW c \in Caches, NEW n \in Nat, NEW s \in Lists(n), Linked(c, n, s), NEW g \in 0..n
    PROVE  NextPlace(c, Gap(s, n, g)) = Gap(s, n, Reach(n, g + 1))
<1>1. IsSet(At(s, n, g + 1)) <=> g + 1 \in 1..n
    BY AtIs
<1>2. CASE g < n
  <2>1. c.cell[s[g + 1]].next = At(s, n, g + 2) /\ At(s, n, g + 1) = s[g + 1]
    BY <1>2, AtIs DEF Linked
  <2>2. g + 1 + 1 = g + 2 /\ Reach(n, g + 1) = g + 1
    BY <1>2 DEF Reach
  <2> QED
    BY <1>1, <1>2, <2>1, <2>2 DEF NextPlace, Gap
<1>3. CASE g = n
  <2>1. Reach(n, g + 1) = g /\ ~IsSet(At(s, n, g + 1))
    BY <1>1, <1>3 DEF Reach
  <2> QED
    BY <2>1 DEF NextPlace, Gap
<1> QED
    BY <1>2, <1>3

\* The loop of cache_bump_bitmap stops after "bump" cells, or at the end.
LEMMA WalkIs ==
    ASSUME NEW c \in Caches, NEW n \in Nat, NEW s \in Lists(n), Linked(c, n, s),
           NEW g \in 0..n, NEW bump \in Nat
    PROVE  Walk(c, At(s, n, g), At(s, n, g + 1), bump) = Gap(s, n, Reach(n, g + bump))
<1> DEFINE start == Gap(s, n, g)
           Loop(f) == f = [k \in 0..bump |-> IF k = 0 THEN start ELSE NextPlace(c, f[k - 1])]
           place == CHOOSE f : Loop(f)
           h == [k \in 0..bump |-> Gap(s, n, Reach(n, g + k))]
<1>1. Walk(c, At(s, n, g), At(s, n, g + 1), bump) = place[bump]
    BY DEF Walk, Gap
<1>2. \A k \in Nat : Reach(n, g + k) \in 0..n
    BY DEF Reach
<1>3. \A k \in Nat : NextPlace(c, Gap(s, n, Reach(n, g + k))) = Gap(s, n, Reach(n, g + k + 1))
  <2>1. \A k \in Nat : Reach(n, Reach(n, g + k) + 1) = Reach(n, g + k + 1)
    BY DEF Reach
  <2> QED
    BY <1>2, <2>1, NextPlaceIs
<1>4. Reach(n, g + 0) = g
    BY DEF Reach
<1> HIDE DEF start
<1>5. Loop(h)
  <2>1. h[0] = start
    BY <1>4 DEF start
  <2>2. \A k \in 0..bump : k # 0 => k - 1 \in 0..bump /\ g + (k - 1) + 1 = g + k
    OBVIOUS
  <2>3. \A k \in 0..bump : k # 0 => NextPlace(c, h[k - 1]) = Gap(s, n, Reach(n, g + k))
    <3>1. \A k \in 0..bump : k # 0 => k - 1 \in Nat /\ h[k - 1] = Gap(s, n, Reach(n, g + (k - 1)))
      OBVIOUS
    <3> QED
      BY <1>3, <2>2, <3>1
  <2>4. \A k \in 0..bump : (IF k = 0 THEN start ELSE NextPlace(c, h[k - 1])) = h[k]
    BY <2>1, <2>3
  <2> QED
    BY <2>4
<1>6. Loop(place)
    BY <1>5
<1>7. \A k \in 0..bump : place[k] = IF k = 0 THEN start ELSE NextPlace(c, place[k - 1])
    BY <1>6
<1> HIDE DEF place, Loop, h
<1> DEFINE S == {k \in Nat : k <= bump => place[k] = Gap(s, n, Reach(n, g + k))}
<1>8. 0 \in S
    BY <1>4, <1>7 DEF start
<1>9. ASSUME NEW k \in Nat, k \in S
      PROVE  k + 1 \in S
  <2>1. SUFFICES ASSUME k + 1 <= bump PROVE place[k + 1] = Gap(s, n, Reach(n, g + (k + 1)))
    OBVIOUS
  <2>2. place[k] = Gap(s, n, Reach(n, g + k))
    BY <1>9, <2>1
  <2>3. place[k + 1] = NextPlace(c, place[k])
    BY <1>7, <2>1
  <2>4. g + k + 1 = g + (k + 1)
    OBVIOUS
  <2> QED
    BY <1>3, <2>2, <2>3, <2>4
<1>10. bump \in S
    BY <1>8, <1>9, Induction
<1> QED
    BY <1>1, <1>10

\* What a traversal from the least recently used cell finds is the list.
LEMMA TraversalIs ==
    ASSUME NEW c \in Caches, NEW n \in 0..PstCells, NEW s \in Lists(n), Linked(c, n, s)
    PROVE  Traversal(c) = s
<1> DEFINE Follow(b) == IF IsSet(b) THEN c.cell[b].next ELSE NOT_SET
           Loop(f) == f = [k \in 1..(PstCells + 1) |-> IF k = 1 THEN c.lru ELSE Follow(f[k - 1])]
           from == CHOOSE f : Loop(f)
           h == [k \in 1..(PstCells + 1) |-> At(s, n, k)]
           length == Cardinality({k \in DOMAIN from : IsSet(from[k])})
<1>1. Traversal(c) = [k \in 1..length |-> from[k]]
    BY DEF Traversal
<1>2. PstCells \in Nat /\ n \in Nat
    BY CellAssumption
<1>3. \A k \in Nat \ {0} : Follow(At(s, n, k)) = At(s, n, k + 1)
  <2>1. \A k \in 1..n : c.cell[s[k]].next = At(s, n, k + 1)
    BY DEF Linked
  <2>2. \A k \in Nat : /\ IsSet(At(s, n, k)) <=> k \in 1..n
                       /\ k \in 1..n => At(s, n, k) = s[k]
                       /\ k \notin 1..n => At(s, n, k) = NOT_SET
    BY <1>2, AtIs
  <2> QED
    BY <1>2, <2>1, <2>2
<1> HIDE DEF Follow
<1>4. Loop(h)
  <2>1. h[1] = c.lru
    BY <1>2 DEF Linked
  <2>2. \A k \in 1..(PstCells + 1) : k # 1 => k - 1 \in 1..(PstCells + 1) /\ k - 1 \in Nat \ {0} /\ k - 1 + 1 = k
    BY <1>2
  <2>3. \A k \in 1..(PstCells + 1) : k # 1 => Follow(h[k - 1]) = At(s, n, k)
    BY <1>3, <2>2
  <2>4. \A k \in 1..(PstCells + 1) : (IF k = 1 THEN c.lru ELSE Follow(h[k - 1])) = h[k]
    BY <2>1, <2>3
  <2> QED
    BY <2>4
<1>5. Loop(from)
    BY <1>4
<1>6. /\ DOMAIN from = 1..(PstCells + 1)
      /\ \A k \in 1..(PstCells + 1) : from[k] = IF k = 1 THEN c.lru ELSE Follow(from[k - 1])
    BY <1>5
<1> HIDE DEF from, Loop, h
<1> DEFINE S == {k \in Nat : k <= PstCells => from[k + 1] = At(s, n, k + 1)}
<1>7. 0 \in S
    BY <1>2, <1>6 DEF Linked
<1>8. ASSUME NEW k \in Nat, k \in S
      PROVE  k + 1 \in S
  <2>1. SUFFICES ASSUME k + 1 <= PstCells PROVE from[k + 1 + 1] = At(s, n, k + 1 + 1)
    OBVIOUS
  <2>2. from[k + 1] = At(s, n, k + 1)
    BY <1>2, <1>8, <2>1
  <2>3. from[k + 1 + 1] = Follow(from[k + 1])
    BY <1>2, <1>6, <2>1
  <2> QED
    BY <1>3, <2>2, <2>3
<1>9. Nat \subseteq S
    BY <1>7, <1>8, Induction
<1>10. \A k \in 1..(PstCells + 1) : from[k] = At(s, n, k)
  <2>1. \A k \in 1..(PstCells + 1) : k - 1 \in S /\ k - 1 <= PstCells /\ k - 1 + 1 = k
    BY <1>2, <1>9
  <2> QED
    BY <2>1
<1>11. {k \in DOMAIN from : IsSet(from[k])} = 1..n
  <2>1. \A k \in 1..(PstCells + 1) : IsSet(from[k]) <=> k \in 1..n
    BY <1>2, <1>10, AtIs
  <2> QED
    BY <1>2, <1>6, <2>1
<1>12. length = n
  <2>1. Cardinality(1..n) = n
    BY <1>2, FS_Interval
  <2> QED
    BY <1>11, <2>1
<1> HIDE DEF length
<1>13. \A k \in 1..n : from[k] = s[k]
    BY <1>2, <1>10, AtIs
<1>14. s = [k \in 1..n |-> s[k]]
    BY DEF Lists
<1> QED
    BY <1>1, <1>12, <1>13, <1>14
-----------------------------------------------------------------------------
(* The operations of cache.c on the list *)

Members(s, n) == {s[k] : k \in 1..n}

LEMMA MembersDropped ==
    ASSUME NEW n \in Nat, NEW s \in Lists(n), NEW m \in 1..n
    PROVE  Members(Dropped(s, n, m), n - 1) = Members(s, n) \ {s[m]}
<1> DEFINE t == Dropped(s, n, m)
<1>1. \A k \in 1..(n - 1) : t[k] = (IF k < m THEN s[k] ELSE s[k + 1]) /\ t[k] # s[m]
    BY DroppedIs
<1> HIDE DEF t
<1>2. ASSUME NEW i \in Members(s, n) \ {s[m]} PROVE i \in Members(t, n - 1)
  <2>1. PICK k \in 1..n : s[k] = i /\ k # m
    BY <1>2 DEF Members
  <2>2. CASE k < m
    <3>1. k \in 1..(n - 1) /\ t[k] = i
      BY <1>1, <2>1, <2>2
    <3> QED
      BY <3>1 DEF Members
  <2>3. CASE k > m
    <3>1. k - 1 \in 1..(n - 1) /\ t[k - 1] = i
      BY <1>1, <2>1, <2>3
    <3> QED
      BY <3>1 DEF Members
  <2> QED
    BY <2>1, <2>2, <2>3
<1>3. ASSUME NEW k \in 1..(n - 1) PROVE t[k] \in Members(s, n) \ {s[m]}
  <2>1. k \in 1..n /\ k + 1 \in 1..n
    OBVIOUS
  <2> QED
    BY <1>1, <2>1 DEF Members
<1>4. Members(t, n - 1) = Members(s, n) \ {s[m]}
    BY <1>2, <1>3 DEF Members
<1> QED
    BY <1>4 DEF t

LEMMA MembersInserted ==
    ASSUME NEW n \in Nat, NEW s \in Lists(n), NEW g \in 0..n, NEW idx \in Cells,
           idx \notin Members(s, n)
    PROVE  Members(Inserted(s, n, g, idx), n + 1) = Members(s, n) \cup {idx}
<1> DEFINE t == Inserted(s, n, g, idx)
<1>1. \A k \in 1..(n + 1) : t[k] = IF k <= g THEN s[k] ELSE IF k = g + 1 THEN idx ELSE s[k - 1]
    BY DEF Inserted
<1> HIDE DEF t
<1>2. ASSUME NEW k \in 1..n PROVE s[k] \in Members(t, n + 1)
  <2>1. CASE k <= g
    <3>1. k \in 1..(n + 1) /\ t[k] = s[k]
      BY <1>1, <2>1
    <3> QED
      BY <3>1 DEF Members
  <2>2. CASE k > g
    <3>1. k + 1 \in 1..(n + 1) /\ t[k + 1] = s[k]
      BY <1>1, <2>2
    <3> QED
      BY <3>1 DEF Members
  <2> QED
    BY <2>1, <2>2
<1>3. idx \in Members(t, n + 1)
  <2>1. g + 1 \in 1..(n + 1) /\ t[g + 1] = idx
    BY <1>1
  <2> QED
    BY <2>1 DEF Members
<1>4. ASSUME NEW k \in 1..(n + 1) PROVE t[k] \in Members(s, n) \cup {idx}
  <2>1. (k <= g => k \in 1..n) /\ (k > g + 1 => k - 1 \in 1..n)
    OBVIOUS
  <2> QED
    BY <1>1, <2>1 DEF Members
<1>5. Members(t, n + 1) = Members(s, n) \cup {idx}
    BY <1>2, <1>3, <1>4 DEF Members
<1> QED
    BY <1>5 DEF t

\* What is in memory, and a cache whose list holds it.
Loaded(c) == {i \in Cells : c.cell[i].bitmap # NULL}
Listed(c, n, s) ==
    /\ c \in Caches /\ n \in Nat /\ s \in Lists(n)
    /\ Linked(c, n, s)
    /\ Loaded(c) = Members(s, n)

LEMMA LoadedKept ==
    ASSUME NEW c, NEW d, KeepsBitmaps(c, d)
    PROVE  Loaded(d) = Loaded(c)
BY DEF KeepsBitmaps, Loaded

LEMMA LinkedOnly ==
    ASSUME NEW n \in Nat, NEW s \in Lists(n), NEW idx \in Cells
    PROVE  /\ \A k \in 1..n : s[k] \in Cells /\ s[k] \in Members(s, n)
           /\ idx \notin Members(s, n) => \A k \in 1..n : s[k] # idx
           /\ idx \in Members(s, n) => \E m \in 1..n : s[m] = idx
BY DEF Members, Lists

\* cache_bump_bitmap moves a used cell on by BUMP_COUNT places.
Moved(s, n, m) == Inserted(Dropped(s, n, m), n - 1, Reach(n - 1, m - 1 + BumpCount), s[m])

LEMMA BumpUpIs ==
    ASSUME NEW c, NEW n, NEW s, Listed(c, n, s), NEW m \in 1..(n - 1)
    PROVE  KeepsBitmaps(c, BumpUp(c, s[m])) /\ Listed(BumpUp(c, s[m]), n, Moved(s, n, m))
<1> DEFINE idx == s[m]
           t == Dropped(s, n, m)
           d == TakeOut(c, idx)
           g == Reach(n - 1, m - 1 + BumpCount)
           e == InsertBetween(d, idx, At(t, n - 1, g), At(t, n - 1, g + 1))
<1>1. n \in Nat /\ n - 1 \in Nat /\ m \in 1..n /\ s \in Lists(n) /\ c \in Caches /\ Linked(c, n, s)
    BY DEF Listed
<1>2. KeepsBitmaps(c, d) /\ Linked(d, n - 1, t)
    BY <1>1, TakeOutIs
<1>3. d \in Caches
    BY <1>2 DEF KeepsBitmaps
<1>4. /\ t \in Lists(n - 1) /\ \A k \in 1..(n - 1) : t[k] # idx
      /\ \A k \in Int : At(t, n - 1, k) = IF k < m THEN At(s, n, k) ELSE At(s, n, k + 1)
    BY <1>1, DroppedIs
<1>5. idx \in Cells /\ c.cell[idx].previous = At(s, n, m - 1) /\ c.cell[idx].next = At(s, n, m + 1)
    BY <1>1 DEF Linked, Lists
<1>6. At(t, n - 1, m - 1) = At(s, n, m - 1) /\ At(t, n - 1, m - 1 + 1) = At(s, n, m + 1)
    BY <1>1, <1>4
<1>7. m - 1 \in 0..(n - 1) /\ BumpCount \in Nat /\ g \in 0..(n - 1)
    BY <1>1, BumpAssumption DEF Reach
<1> HIDE DEF g, t, d
<1>8. Walk(d, At(t, n - 1, m - 1), At(t, n - 1, m - 1 + 1), BumpCount) = Gap(t, n - 1, g)
    BY <1>1, <1>2, <1>3, <1>4, <1>7, WalkIs DEF g
<1>9. BumpUp(c, idx) = e
    BY <1>5, <1>6, <1>8 DEF BumpUp, Gap, d
<1>10. KeepsBitmaps(d, e) /\ Linked(e, n - 1 + 1, Inserted(t, n - 1, g, idx))
    BY <1>1, <1>2, <1>3, <1>4, <1>5, <1>7, InsertIs
<1>11. Inserted(t, n - 1, g, idx) \in Lists(n - 1 + 1)
    BY <1>1, <1>4, <1>5, <1>7, InsertedIs
<1>12. idx \notin Members(t, n - 1)
    BY <1>4 DEF Members
<1>13. Members(Inserted(t, n - 1, g, idx), n - 1 + 1) = Members(t, n - 1) \cup {idx}
    BY <1>1, <1>4, <1>5, <1>7, <1>12, MembersInserted
<1>14. Members(t, n - 1) \cup {idx} = Members(s, n)
  <2>1. idx \in Members(s, n)
    BY <1>1 DEF Members
  <2> QED
    BY <1>1, <2>1, MembersDropped DEF t
<1>15. n - 1 + 1 = n
    BY <1>1
<1>16. KeepsBitmaps(c, e) /\ e \in Caches
    BY <1>2, <1>10 DEF KeepsBitmaps
<1> HIDE DEF e
<1>17. Loaded(e) = Members(s, n)
    BY <1>16, LoadedKept DEF Listed
<1>18. Moved(s, n, m) = Inserted(t, n - 1, g, idx)
    BY DEF Moved, t, g
<1> QED
    BY <1>1, <1>9, <1>10, <1>11, <1>13, <1>14, <1>15, <1>16, <1>17, <1>18 DEF Listed

\* What remains of the list without a cell that may be in it.
IsRest(s, n, idx, w, r) ==
    \/ idx \notin Members(s, n) /\ r = n /\ w = s
    \/ \E m \in 1..n : s[m] = idx /\ r = n - 1 /\ w = Dropped(s, n, m)

LEMMA RestIs ==
    ASSUME NEW n \in Nat, NEW s \in Lists(n), NEW idx \in Cells, NEW w, NEW r,
           IsRest(s, n, idx, w, r)
    PROVE  /\ r \in 0..n /\ w \in Lists(r)
           /\ \A k \in 1..r : w[k] # idx
           /\ idx \notin Members(w, r)
           /\ Members(Inserted(w, r, r, idx), r + 1) = Members(s, n) \cup {idx}
           /\ Inserted(w, r, r, idx) \in Lists(r + 1)
<1>1. r \in 0..n /\ w \in Lists(r) /\ (\A k \in 1..r : w[k] # idx) /\ Members(w, r) = Members(s, n) \ {idx}
  <2>1. CASE idx \notin Members(s, n) /\ r = n /\ w = s
    BY <2>1 DEF Members
  <2>2. CASE \E m \in 1..n : s[m] = idx /\ r = n - 1 /\ w = Dropped(s, n, m)
    <3>1. PICK m \in 1..n : s[m] = idx /\ r = n - 1 /\ w = Dropped(s, n, m)
      BY <2>2
    <3>2. w \in Lists(r) /\ (\A k \in 1..r : w[k] # idx)
      BY <3>1, DroppedIs
    <3>3. Members(w, r) = Members(s, n) \ {idx}
      BY <3>1, MembersDropped
    <3> QED
      BY <3>1, <3>2, <3>3
  <2> QED
    BY <2>1, <2>2 DEF IsRest
<1>2. Inserted(w, r, r, idx) \in Lists(r + 1)
    BY <1>1, InsertedIs
<1>3. Members(Inserted(w, r, r, idx), r + 1) = Members(w, r) \cup {idx}
    BY <1>1, MembersInserted
<1> QED
    BY <1>1, <1>2, <1>3

\* A cell goes to the end of the list; one that is the last stays there.
LEMMA BumpToTopIs ==
    ASSUME NEW c, NEW n, NEW s, c \in Caches, n \in Nat, s \in Lists(n), Linked(c, n, s),
           NEW idx \in Cells, c.mru # idx,
           idx \notin Members(s, n) => c.cell[idx].next = NOT_SET,
           NEW w, NEW r, IsRest(s, n, idx, w, r)
    PROVE  KeepsBitmaps(c, BumpToTop(c, idx))
           /\ Linked(BumpToTop(c, idx), r + 1, Inserted(w, r, r, idx))
<1> DEFINE d == TakeOut(c, idx)
           e == InsertBetween(d, idx, At(w, r, r), At(w, r, r + 1))
<1>1. KeepsBitmaps(c, d) /\ Linked(d, r, w)
  <2>1. CASE idx \notin Members(s, n) /\ r = n /\ w = s
    <3>1. ~IsSet(c.cell[idx].next)
      BY <2>1 DEF IsSet, NOT_SET
    <3>2. d = c
      BY <3>1 DEF TakeOut
    <3> QED
      BY <2>1, <3>2 DEF KeepsBitmaps
  <2>2. CASE \E m \in 1..n : s[m] = idx /\ r = n - 1 /\ w = Dropped(s, n, m)
    <3>1. PICK m \in 1..n : s[m] = idx /\ r = n - 1 /\ w = Dropped(s, n, m)
      BY <2>2
    <3>2. m # n
      <4>1. At(s, n, n) = s[n]
        BY AtIs
      <4> QED
        BY <3>1, <4>1 DEF Linked
    <3>3. m \in 1..(n - 1)
      BY <3>2
    <3> QED
      BY <3>1, <3>3, TakeOutIs
  <2> QED
    BY <2>1, <2>2 DEF IsRest
<1>2. r \in 0..n /\ r \in Nat /\ w \in Lists(r) /\ \A k \in 1..r : w[k] # idx
    BY RestIs
<1>3. d \in Caches
    BY <1>1 DEF KeepsBitmaps
<1>4. d.mru = At(w, r, r) /\ NOT_SET = At(w, r, r + 1)
    BY <1>1, <1>2 DEF Linked, At
<1>5. BumpToTop(c, idx) = e
    BY <1>4 DEF BumpToTop
<1> HIDE DEF d
<1>6. KeepsBitmaps(d, e) /\ Linked(e, r + 1, Inserted(w, r, r, idx))
    BY <1>1, <1>2, <1>3, InsertIs
<1> QED
    BY <1>1, <1>5, <1>6 DEF KeepsBitmaps

\* The first half of cache_put_bitmap: the bitmap is stored, its cell last.
Stored(c, idx, bitmap) ==
    IF c.cell[idx].bitmap = NULL
    THEN [c EXCEPT !.cell[idx] = [bitmap |-> bitmap, previous |-> NOT_SET, next |-> NOT_SET]]
    ELSE [c EXCEPT !.cell[idx].bitmap = bitmap]

OnTop(c, idx, bitmap) ==
    LET stored == Stored(c, idx, bitmap)
    IN IF c.mru = idx THEN stored ELSE BumpToTop(stored, idx)

\* Only the bitmap of one cell is another one.
ChangedBitmap(c, d, idx, bitmap) ==
    /\ d \in Caches
    /\ d.file = c.file
    /\ d.cell[idx].bitmap = bitmap
    /\ \A i \in Cells \ {idx} : d.cell[i].bitmap = c.cell[i].bitmap

LEMMA StoredIs ==
    ASSUME NEW c, NEW n, NEW s, Listed(c, n, s), NEW idx \in Cells, NEW bitmap \in Bitmaps
    PROVE  LET d == Stored(c, idx, bitmap)
           IN /\ ChangedBitmap(c, d, idx, bitmap)
              /\ d.mru = c.mru
              /\ Linked(d, n, s)
              /\ idx \notin Members(s, n) => d.cell[idx].next = NOT_SET
<1> DEFINE d == Stored(c, idx, bitmap)
<1>1. c \in Caches /\ n \in Nat /\ s \in Lists(n) /\ Linked(c, n, s) /\ Loaded(c) = Members(s, n)
    BY DEF Listed
<1>2. \A k \in 1..n : s[k] \in Cells /\ s[k] \in Members(s, n)
    BY <1>1, LinkedOnly
<1>3. CASE c.cell[idx].bitmap = NULL
  <2> DEFINE x == [bitmap |-> bitmap, previous |-> NOT_SET, next |-> NOT_SET]
             e == [c EXCEPT !.cell[idx] = x]
  <2>1. d = e
    BY <1>3 DEF Stored
  <2>2. x \in CellStates /\ x.bitmap = bitmap /\ x.next = NOT_SET
    BY DEF CellStates, Contents, Links
  <2> HIDE DEF x
  <2>3. /\ e \in Caches /\ e.file = c.file /\ e.lru = c.lru /\ e.mru = c.mru /\ e.count = c.count
        /\ e.cell = [c.cell EXCEPT ![idx] = x]
    BY <1>1, <2>2 DEF Caches
  <2> HIDE DEF e, d
  <2>4. e.cell[idx] = x /\ \A i \in Cells \ {idx} : e.cell[i] = c.cell[i]
    BY <1>1, <2>3 DEF Caches
  <2>5. \A k \in 1..n : s[k] \in Cells \ {idx}
    BY <1>1, <1>2, <1>3 DEF Loaded
  <2>6. Linked(e, n, s)
    BY <1>1, <2>3, <2>4, <2>5 DEF Linked
  <2>7. ChangedBitmap(c, e, idx, bitmap)
    BY <2>2, <2>3, <2>4 DEF ChangedBitmap
  <2>8. e.mru = c.mru /\ e.cell[idx].next = NOT_SET
    BY <2>2, <2>3, <2>4
  <2> QED
    BY <2>1, <2>6, <2>7, <2>8 DEF d
<1>4. CASE c.cell[idx].bitmap # NULL
  <2> DEFINE e == [c EXCEPT !.cell[idx].bitmap = bitmap]
  <2>1. d = e
    BY <1>4 DEF Stored
  <2>2. bitmap \in Contents
    BY DEF Contents
  <2>3. /\ e \in Caches /\ e.file = c.file /\ e.lru = c.lru /\ e.mru = c.mru /\ e.count = c.count
        /\ e.cell = [c.cell EXCEPT ![idx].bitmap = bitmap]
    BY <1>1, <2>2 DEF Caches, CellStates
  <2> HIDE DEF e, d
  <2>4. /\ e.cell[idx].bitmap = bitmap /\ \A i \in Cells \ {idx} : e.cell[i] = c.cell[i]
        /\ \A i \in Cells : e.cell[i].next = c.cell[i].next /\ e.cell[i].previous = c.cell[i].previous
    BY <1>1, <2>2, <2>3 DEF Caches, CellStates
  <2>5. Linked(e, n, s)
    BY <1>1, <1>2, <2>3, <2>4 DEF Linked
  <2>6. ChangedBitmap(c, e, idx, bitmap)
    BY <2>3, <2>4 DEF ChangedBitmap
  <2>7. idx \in Members(s, n)
    BY <1>1, <1>4 DEF Loaded
  <2> QED
    BY <2>1, <2>3, <2>5, <2>6, <2>7 DEF d
<1> QED
    BY <1>3, <1>4

\* A last cell that goes to the end leaves the list as it is.
LEMMA LastStays ==
    ASSUME NEW n \in Nat, NEW s \in Lists(n), n > 0
    PROVE  Inserted(Dropped(s, n, n), n - 1, n - 1, s[n]) = s
<1> DEFINE t == Dropped(s, n, n)
           u == Inserted(t, n - 1, n - 1, s[n])
<1>1. \A k \in 1..(n - 1) : t[k] = s[k]
    BY DEF Dropped
<1> HIDE DEF t
<1>2. n - 1 + 1 = n
    OBVIOUS
<1>3. u = [k \in 1..n |-> IF k <= n - 1 THEN t[k] ELSE IF k = n THEN s[n] ELSE t[k - 1]]
    BY <1>2 DEF Inserted
<1>4. \A k \in 1..n : (IF k <= n - 1 THEN t[k] ELSE IF k = n THEN s[n] ELSE t[k - 1]) = s[k]
    BY <1>1
<1>5. s = [k \in 1..n |-> s[k]]
    BY DEF Lists
<1> HIDE DEF u
<1>6. u = s
    BY <1>3, <1>4, <1>5
<1> QED
    BY <1>6 DEF u, t

LEMMA OnTopIs ==
    ASSUME NEW c, NEW n, NEW s, Listed(c, n, s), NEW idx \in Cells, NEW bitmap \in Bitmaps,
           NEW w, NEW r, IsRest(s, n, idx, w, r)
    PROVE  /\ ChangedBitmap(c, OnTop(c, idx, bitmap), idx, bitmap)
           /\ Listed(OnTop(c, idx, bitmap), r + 1, Inserted(w, r, r, idx))
<1> DEFINE d == Stored(c, idx, bitmap)
           e == OnTop(c, idx, bitmap)
           t == Inserted(w, r, r, idx)
<1>1. c \in Caches /\ n \in Nat /\ s \in Lists(n) /\ Linked(c, n, s) /\ Loaded(c) = Members(s, n)
    BY DEF Listed
<1>2. /\ r \in 0..n /\ w \in Lists(r) /\ idx \notin Members(w, r)
      /\ Members(t, r + 1) = Members(s, n) \cup {idx}
      /\ t \in Lists(r + 1)
    BY <1>1, RestIs
<1>3. /\ ChangedBitmap(c, d, idx, bitmap) /\ d.mru = c.mru /\ Linked(d, n, s)
      /\ idx \notin Members(s, n) => d.cell[idx].next = NOT_SET
    BY StoredIs
<1>4. d \in Caches
    BY <1>3 DEF ChangedBitmap
<1> HIDE DEF d, t
<1>5. KeepsBitmaps(d, e) /\ Linked(e, r + 1, t)
  <2>1. CASE c.mru = idx
    <3>1. e = d
      BY <2>1 DEF OnTop, d
    <3>2. n > 0 /\ s[n] = idx
      <4>1. At(s, n, n) = idx
        BY <1>1, <2>1 DEF Linked
      <4>2. NOT_SET \notin Cells
        BY LinkIs DEF Links
      <4> QED
        BY <1>1, <4>1, <4>2, AtIs
    <3>3. w = Dropped(s, n, n) /\ r = n - 1
      <4>1. idx \in Members(s, n)
        BY <1>1, <3>2 DEF Members
      <4>2. PICK m \in 1..n : s[m] = idx /\ r = n - 1 /\ w = Dropped(s, n, m)
        BY <4>1 DEF IsRest
      <4>3. m = n
        BY <1>1, <3>2, <4>2 DEF Lists
      <4> QED
        BY <4>2, <4>3
    <3>4. t = s /\ r + 1 = n
      BY <1>1, <3>2, <3>3, LastStays DEF t
    <3> QED
      BY <1>3, <1>4, <3>1, <3>4 DEF KeepsBitmaps
  <2>2. CASE c.mru # idx
    <3>1. e = BumpToTop(d, idx)
      BY <2>2 DEF OnTop, d
    <3> QED
      BY <1>1, <1>3, <1>4, <2>2, <3>1, BumpToTopIs DEF t
  <2> QED
    BY <2>1, <2>2
<1>6. ChangedBitmap(c, e, idx, bitmap) /\ e \in Caches
    BY <1>3, <1>5 DEF ChangedBitmap, KeepsBitmaps
<1> HIDE DEF e
<1>7. Loaded(e) = Members(t, r + 1)
  <2>1. bitmap # NULL
    BY BitmapAssumption
  <2> QED
    BY <1>1, <1>2, <1>6, <2>1 DEF Loaded, ChangedBitmap
<1>8. Listed(e, r + 1, t)
    BY <1>1, <1>2, <1>5, <1>6, <1>7 DEF Listed
<1> QED
    BY <1>6, <1>8 DEF e, t

\* cache_evict_bitmap: the first cell leaves the list and is empty.
Evicted(c, d, i, x) ==
    /\ d \in Caches
    /\ d.count = c.count - 1 /\ d.lru = x /\ d.mru = c.mru
    /\ d.cell[i].bitmap = NULL
    /\ d.cell[x].previous = NOT_SET /\ d.cell[x].next = c.cell[x].next
    /\ \A j \in Cells \ {i} : d.cell[j].bitmap = c.cell[j].bitmap
    /\ \A j \in Cells \ {i, x} : d.cell[j] = c.cell[j]
    /\ \A j \in Cells : d.file[j].bitmap = c.file[j].bitmap

LEMMA OnePrevious ==
    ASSUME NEW c \in Caches, NEW idx \in Cells, NEW p \in Links
    PROVE  LET d == [c EXCEPT !.cell[idx].previous = p]
           IN /\ d \in Caches
              /\ d.file = c.file /\ d.lru = c.lru /\ d.mru = c.mru /\ d.count = c.count
              /\ d.cell = [c.cell EXCEPT ![idx].previous = p]
BY DEF Caches, CellStates

LEMMA OneStamp ==
    ASSUME NEW c \in Caches, NEW idx \in Cells, NEW stamp \in 0..MemoryCells
    PROVE  LET d == [c EXCEPT !.file[idx].stamp = stamp]
           IN /\ d \in Caches
              /\ d.cell = c.cell /\ d.lru = c.lru /\ d.mru = c.mru /\ d.count = c.count
              /\ d.file = [c.file EXCEPT ![idx].stamp = stamp]
BY DEF Caches, Files

LEMMA EvictIs ==
    ASSUME NEW c \in Caches, NEW i \in Cells, c.lru = i, NEW x \in Cells, c.cell[i].next = x, x # i
    PROVE  Evicted(c, cache_evict_bitmap(c), i, x)
<1> DEFINE e1 == [c EXCEPT !.cell[i] = Unused]
           e2 == [e1 EXCEPT !.cell[x].previous = NOT_SET]
           e3 == [e2 EXCEPT !.lru = x]
           e4 == [e3 EXCEPT !.count = @ - 1]
           e5 == [e4 EXCEPT !.file[i].stamp = 0]
<1>1. cache_evict_bitmap(c) = e5
    BY DEF cache_evict_bitmap
<1>2. Unused \in CellStates /\ Unused.bitmap = NULL
    BY CellAssumption DEF Unused, CellStates, Contents, Links, Cells
<1>3. 0 \in 0..MemoryCells /\ NOT_SET \in Links /\ x \in Links
    BY CellAssumption DEF Links
<1>4. /\ e1 \in Caches /\ e1.mru = c.mru /\ e1.count = c.count /\ e1.file = c.file
      /\ e1.cell = [c.cell EXCEPT ![i] = Unused]
    BY <1>2 DEF Caches
<1> HIDE DEF e1
<1>5. /\ e2 \in Caches /\ e2.mru = e1.mru /\ e2.count = e1.count /\ e2.file = e1.file
      /\ e2.cell = [e1.cell EXCEPT ![x].previous = NOT_SET]
    BY <1>3, <1>4, OnePrevious
<1> HIDE DEF e2
<1>6. /\ e4 \in Caches /\ e4.mru = e2.mru /\ e4.count = e2.count - 1 /\ e4.file = e2.file
      /\ e4.cell = e2.cell /\ e4.lru = x
  <2>1. /\ e3 \in Caches /\ e3.mru = e2.mru /\ e3.count = e2.count /\ e3.file = e2.file
        /\ e3.cell = e2.cell /\ e3.lru = x
    BY <1>3, <1>5 DEF Caches
  <2> HIDE DEF e3
  <2>2. /\ e4 \in Caches /\ e4.mru = e3.mru /\ e4.count = e3.count - 1 /\ e4.file = e3.file
        /\ e4.cell = e3.cell /\ e4.lru = e3.lru
    BY <2>1 DEF Caches
  <2> HIDE DEF e4
  <2> QED
    BY <2>1, <2>2
<1> HIDE DEF e3, e4
<1>7. /\ e5 \in Caches /\ e5.mru = e4.mru /\ e5.count = e4.count /\ e5.cell = e4.cell /\ e5.lru = e4.lru
      /\ e5.file = [e4.file EXCEPT ![i].stamp = 0]
    BY <1>3, <1>6, OneStamp
<1> HIDE DEF e5
<1>8. e5.cell = [[c.cell EXCEPT ![i] = Unused] EXCEPT ![x].previous = NOT_SET]
    BY <1>4, <1>5, <1>6, <1>7
<1>9. c.cell \in [Cells -> CellStates] /\ c.file \in Files
    BY DEF Caches
<1>10. /\ e5.cell[i] = Unused
       /\ e5.cell[x].previous = NOT_SET /\ e5.cell[x].next = c.cell[x].next
       /\ e5.cell[x].bitmap = c.cell[x].bitmap
       /\ \A j \in Cells \ {i, x} : e5.cell[j] = c.cell[j]
    BY <1>8, <1>9 DEF CellStates
<1>11. e5.file = [c.file EXCEPT ![i].stamp = 0]
    BY <1>4, <1>5, <1>6, <1>7
<1>12. \A j \in Cells : e5.file[j].bitmap = c.file[j].bitmap
    BY <1>9, <1>11 DEF Files
<1>13. e5.count = c.count - 1 /\ e5.lru = x /\ e5.mru = c.mru
    BY <1>4, <1>5, <1>6, <1>7
<1>14. \A j \in Cells \ {i} : e5.cell[j].bitmap = c.cell[j].bitmap
    BY <1>10
<1> QED
    BY <1>1, <1>2, <1>7, <1>10, <1>12, <1>13, <1>14 DEF Evicted

LEMMA EvictionIs ==
    ASSUME NEW c, NEW n \in Nat, NEW s, Listed(c, n, s), n > 1
    PROVE  LET d == cache_evict_bitmap(c)
           IN /\ Listed(d, n - 1, Dropped(s, n, 1))
              /\ d.cell[s[1]].bitmap = NULL
              /\ \A j \in Cells \ {s[1]} : d.cell[j].bitmap = c.cell[j].bitmap
              /\ \A j \in Cells : d.file[j].bitmap = c.file[j].bitmap
<1> DEFINE d == cache_evict_bitmap(c)
           t == Dropped(s, n, 1)
<1>1. c \in Caches /\ n \in Nat /\ s \in Lists(n) /\ Linked(c, n, s) /\ Loaded(c) = Members(s, n)
    BY DEF Listed
<1>2. 1 \in 1..n /\ 2 \in 1..n /\ n - 1 \in Nat
    BY <1>1
<1>3. s[1] \in Cells /\ s[2] \in Cells /\ s[1] # s[2]
    BY <1>1, <1>2 DEF Lists
<1>4. c.lru = s[1] /\ c.cell[s[1]].next = s[2]
    BY <1>1, <1>2 DEF Linked, At
<1>5. Evicted(c, d, s[1], s[2])
    BY <1>1, <1>3, <1>4, EvictIs
<1>6. /\ t \in Lists(n - 1) /\ Members(t, n - 1) = Members(s, n) \ {s[1]}
      /\ \A k \in 1..(n - 1) : t[k] = s[k + 1]
      /\ \A k \in Int : At(t, n - 1, k) = IF k < 1 THEN At(s, n, k) ELSE At(s, n, k + 1)
  <2>1. \A k \in 1..(n - 1) : ~(k < 1)
    OBVIOUS
  <2> QED
    BY <1>1, <1>2, <2>1, DroppedIs, MembersDropped
<1> HIDE DEF d, t
<1>7. d.count = n - 1 /\ d.lru = At(t, n - 1, 1) /\ d.mru = At(t, n - 1, n - 1)
  <2>1. At(t, n - 1, 1) = s[2]
    BY <1>2, <1>6 DEF At
  <2>2. At(t, n - 1, n - 1) = At(s, n, n)
    BY <1>1, <1>2, <1>6
  <2> QED
    BY <1>1, <1>5, <2>1, <2>2 DEF Evicted, Linked
<1>8. ASSUME NEW k \in 1..(n - 1)
      PROVE  d.cell[t[k]].previous = At(t, n - 1, k - 1) /\ d.cell[t[k]].next = At(t, n - 1, k + 1)
  <2>1. t[k] = s[k + 1] /\ k + 1 \in 1..n
    BY <1>1, <1>6
  <2>2. c.cell[s[k + 1]].previous = At(s, n, k) /\ c.cell[s[k + 1]].next = At(s, n, k + 2)
    BY <1>1, <2>1 DEF Linked
  <2>3. At(t, n - 1, k + 1) = At(s, n, k + 2)
    BY <1>6
  <2>4. CASE k = 1
    <3>1. At(t, n - 1, k - 1) = NOT_SET
      BY <2>4 DEF At
    <3> QED
      BY <1>5, <2>1, <2>2, <2>3, <2>4, <3>1 DEF Evicted
  <2>5. CASE k > 1
    <3>1. At(t, n - 1, k - 1) = At(s, n, k)
      BY <1>6, <2>5
    <3>2. s[k + 1] \in Cells \ {s[1], s[2]}
      BY <1>1, <1>2, <2>1, <2>5 DEF Lists
    <3> QED
      BY <1>5, <2>1, <2>2, <2>3, <3>1, <3>2 DEF Evicted
  <2> QED
    BY <2>4, <2>5
<1>9. Linked(d, n - 1, t)
    BY <1>7, <1>8 DEF Linked
<1>10. Loaded(d) = Members(t, n - 1)
  <2>1. Loaded(d) = Loaded(c) \ {s[1]}
    BY <1>3, <1>5 DEF Loaded, Evicted
  <2> QED
    BY <1>1, <1>6, <2>1
<1>11. Listed(d, n - 1, t)
    BY <1>2, <1>5, <1>6, <1>9, <1>10 DEF Listed, Evicted
<1> QED
    BY <1>5, <1>11 DEF Evicted, d, t

\* A cache that keeps to its limit.
Good(c, n, s) == Listed(c, n, s) /\ n <= MemoryCells

\* What a put leaves in memory and in the file.
PutKeeps(c, d, idx, bitmap) ==
    /\ d.cell[idx].bitmap = bitmap
    /\ \A j \in Cells \ {idx} : d.cell[j].bitmap \in {NULL, c.cell[j].bitmap}
    /\ \A j \in Cells : d.file[j].bitmap = c.file[j].bitmap

\* The list after a put.
PutOnTop(d, r, t) ==
    IF r + 1 > MemoryCells THEN Good(d, r, Dropped(t, r + 1, 1)) ELSE Good(d, r + 1, t)

\* cache_put_bitmap: the cell goes to the end, and the first leaves a full list.
LEMMA PutBitmapIs ==
    ASSUME NEW c, NEW n, NEW s, Good(c, n, s), NEW idx \in Cells, NEW bitmap \in Bitmaps,
           NEW w, NEW r, IsRest(s, n, idx, w, r)
    PROVE  /\ PutKeeps(c, PutBitmap(c, idx, bitmap), idx, bitmap)
           /\ PutOnTop(PutBitmap(c, idx, bitmap), r, Inserted(w, r, r, idx))
<1> DEFINE e == OnTop(c, idx, bitmap)
           d == PutBitmap(c, idx, bitmap)
           t == Inserted(w, r, r, idx)
<1>1. n \in Nat /\ s \in Lists(n) /\ MemoryCells \in Nat /\ MemoryCells >= 2 /\ n <= MemoryCells
      /\ Listed(c, n, s)
    BY CellAssumption DEF Good, Listed
<1>2. r \in 0..n /\ w \in Lists(r) /\ \A k \in 1..r : w[k] # idx
    BY <1>1, RestIs
<1>3. ChangedBitmap(c, e, idx, bitmap) /\ Listed(e, r + 1, t)
    BY <1>1, OnTopIs
<1>4. e.count = r + 1
    BY <1>3 DEF Listed, Linked
<1>5. d = IF r + 1 > MemoryCells THEN cache_evict_bitmap(e) ELSE e
    BY <1>4 DEF PutBitmap, OnTop, Stored
<1> HIDE DEF d, e, t
<1>6. CASE r + 1 > MemoryCells
  <2> DEFINE u == Dropped(t, r + 1, 1)
  <2>0. d = cache_evict_bitmap(e) /\ r + 1 > 1 /\ r + 1 \in Nat /\ r \in Nat
    BY <1>1, <1>2, <1>5, <1>6
  <2>1. /\ Listed(d, (r + 1) - 1, u)
        /\ d.cell[t[1]].bitmap = NULL
        /\ \A j \in Cells \ {t[1]} : d.cell[j].bitmap = e.cell[j].bitmap
        /\ \A j \in Cells : d.file[j].bitmap = e.file[j].bitmap
    BY <1>3, <2>0, EvictionIs
  <2> HIDE DEF u
  <2>2. t[1] # idx
    BY <1>1, <1>2, <1>6 DEF Inserted, t
  <2>3. (r + 1) - 1 = r /\ r <= MemoryCells
    BY <1>1, <1>2
  <2>4. Good(d, r, u)
    BY <2>1, <2>3 DEF Good
  <2>5. PutKeeps(c, d, idx, bitmap)
    BY <1>3, <2>1, <2>2 DEF PutKeeps, ChangedBitmap
  <2> QED
    BY <1>6, <2>4, <2>5 DEF PutOnTop, u, t, d
<1>7. CASE ~(r + 1 > MemoryCells)
  <2>1. Good(d, r + 1, t)
    BY <1>1, <1>2, <1>3, <1>5, <1>7 DEF Good
  <2>2. PutKeeps(c, d, idx, bitmap)
    BY <1>3, <1>5, <1>7 DEF PutKeeps, ChangedBitmap
  <2> QED
    BY <1>7, <2>1, <2>2 DEF PutOnTop, t, d
<1> QED
    BY <1>6, <1>7

\* There is always a rest of the list, so that a put leaves a good cache.
LEMMA PutIsGood ==
    ASSUME NEW c, NEW n, NEW s, Good(c, n, s), NEW idx \in Cells, NEW bitmap \in Bitmaps
    PROVE  /\ \E r, w : IsRest(s, n, idx, w, r)
                        /\ PutOnTop(PutBitmap(c, idx, bitmap), r, Inserted(w, r, r, idx))
           /\ \E m, t : Good(PutBitmap(c, idx, bitmap), m, t)
           /\ PutKeeps(c, PutBitmap(c, idx, bitmap), idx, bitmap)
<1>1. \E r, w : IsRest(s, n, idx, w, r)
  <2>1. CASE idx \notin Members(s, n)
    BY <2>1 DEF IsRest
  <2>2. CASE idx \in Members(s, n)
    <3>1. PICK m \in 1..n : s[m] = idx
      BY <2>2 DEF Members
    <3> QED
      BY <3>1 DEF IsRest
  <2> QED
    BY <2>1, <2>2
<1>2. PICK r, w : IsRest(s, n, idx, w, r)
    BY <1>1
<1>3. /\ PutKeeps(c, PutBitmap(c, idx, bitmap), idx, bitmap)
      /\ PutOnTop(PutBitmap(c, idx, bitmap), r, Inserted(w, r, r, idx))
    BY <1>2, PutBitmapIs
<1>4. \E m, t : Good(PutBitmap(c, idx, bitmap), m, t)
    BY <1>3 DEF PutOnTop
<1> QED
    BY <1>2, <1>3, <1>4

\* cache_get_bitmap puts what it had to read, moves a cell on, or does nothing
\* because the cell is the last already.
LEMMA GetBitmapIs ==
    ASSUME NEW c, NEW n, NEW s, Good(c, n, s), NEW idx \in Cells,
           c.cell[idx].bitmap = NULL => c.file[idx].bitmap \in Bitmaps
    PROVE  LET d == GetBitmap(c, idx)
           IN \/ c.cell[idx].bitmap = NULL /\ d = PutBitmap(c, idx, c.file[idx].bitmap)
              \/ c.cell[idx].bitmap # NULL /\ d = c
              \/ /\ c.cell[idx].bitmap # NULL /\ KeepsBitmaps(c, d)
                 /\ \E m \in 1..(n - 1) : Good(d, n, Moved(s, n, m))
<1> DEFINE d == GetBitmap(c, idx)
<1>1. c \in Caches /\ n \in Nat /\ s \in Lists(n) /\ Linked(c, n, s) /\ Loaded(c) = Members(s, n)
      /\ Listed(c, n, s) /\ n <= MemoryCells
    BY DEF Listed, Good
<1>2. CASE c.cell[idx].bitmap = NULL
    BY <1>2 DEF GetBitmap
<1>3. CASE c.cell[idx].bitmap # NULL /\ c.mru = idx
    BY <1>3 DEF GetBitmap
<1>4. CASE c.cell[idx].bitmap # NULL /\ c.mru # idx
  <2>1. d = BumpUp(c, idx)
    BY <1>4 DEF GetBitmap
  <2>2. idx \in Members(s, n)
    BY <1>1, <1>4 DEF Loaded
  <2>3. PICK m \in 1..n : s[m] = idx
    BY <2>2 DEF Members
  <2>4. m # n
    BY <1>1, <1>4, <2>3 DEF Linked, At
  <2>5. m \in 1..(n - 1)
    BY <1>1, <2>4
  <2>6. KeepsBitmaps(c, d) /\ Listed(d, n, Moved(s, n, m))
    BY <1>1, <2>1, <2>3, <2>5, BumpUpIs
  <2> HIDE DEF d
  <2>7. Good(d, n, Moved(s, n, m))
    BY <1>1, <2>6 DEF Good
  <2> QED
    BY <1>4, <2>5, <2>6, <2>7 DEF d
<1> QED
    BY <1>2, <1>3, <1>4
-----------------------------------------------------------------------------
(* The same list as a sequence: the operators of BitmapLru *)

LEMMA SeqIs ==
    ASSUME NEW n \in Nat, NEW s \in Lists(n)
    PROVE  s \in Seq(Cells) /\ Len(s) = n /\ DOMAIN s = 1..n
BY SeqOfLength DEF Lists

\* Functions on the numbers up to n are equal when their values are.
LEMMA SameSeq ==
    ASSUME NEW n \in Nat, NEW a \in Seq(Cells), NEW b \in Seq(Cells), Len(a) = n, Len(b) = n,
           \A k \in 1..n : a[k] = b[k]
    PROVE  a = b
BY SeqEqual

LEMMA ConcatIs ==
    ASSUME NEW S, NEW a \in Seq(S), NEW b \in Seq(S)
    PROVE  /\ a \o b \in Seq(S) /\ Len(a \o b) = Len(a) + Len(b)
           /\ \A i \in 1..(Len(a) + Len(b)) : (a \o b)[i] = IF i <= Len(a) THEN a[i] ELSE b[i - Len(a)]
BY ConcatProperties, LenProperties

LEMMA RemoveAtIs ==
    ASSUME NEW n \in Nat, NEW s \in Lists(n), NEW m \in 1..n
    PROVE  Lru!RemoveAt(s, m) = Dropped(s, n, m)
<1> DEFINE front == SubSeq(s, 1, m - 1)
           rear == SubSeq(s, m + 1, n)
           t == Dropped(s, n, m)
<1>1. s \in Seq(Cells) /\ Len(s) = n
    BY SeqIs
<1>2. /\ front \in Seq(Cells) /\ Len(front) = m - 1
      /\ \A i \in 1..(m - 1) : front[i] = s[i]
  <2>1. m - 1 \in 0..Len(s) /\ 1 \in Nat \ {0} /\ 1 <= m - 1 + 1 /\ m - 1 - 1 + 1 = m - 1
    BY <1>1
  <2>2. /\ front \in Seq(Cells) /\ Len(front) = m - 1 - 1 + 1
        /\ \A i \in 1..(m - 1 - 1 + 1) : front[i] = s[1 + i - 1]
    BY <1>1, <2>1, SubSeqIs
  <2>3. \A i \in 1..(m - 1) : 1 + i - 1 = i
    OBVIOUS
  <2> QED
    BY <2>1, <2>2, <2>3
<1>3. /\ rear \in Seq(Cells) /\ Len(rear) = n - m
      /\ \A i \in 1..(n - m) : rear[i] = s[m + i]
  <2>1. n \in 0..Len(s) /\ m + 1 \in Nat \ {0} /\ m + 1 <= n + 1 /\ n - (m + 1) + 1 = n - m
    BY <1>1
  <2>2. /\ rear \in Seq(Cells) /\ Len(rear) = n - (m + 1) + 1
        /\ \A i \in 1..(n - (m + 1) + 1) : rear[i] = s[m + 1 + i - 1]
    BY <1>1, <2>1, SubSeqIs
  <2>3. \A i \in 1..(n - m) : m + 1 + i - 1 = m + i
    OBVIOUS
  <2> QED
    BY <2>1, <2>2, <2>3
<1>4. t \in Seq(Cells) /\ Len(t) = n - 1
  <2>1. n - 1 \in Nat /\ t \in Lists(n - 1)
    BY DroppedIs
  <2> QED
    BY <2>1, SeqIs
<1>5. \A k \in 1..(n - 1) : t[k] = IF k < m THEN s[k] ELSE s[k + 1]
    BY DEF Dropped
<1> HIDE DEF front, rear, t
<1> DEFINE both == front \o rear
<1>6. /\ both \in Seq(Cells) /\ Len(both) = n - 1
      /\ \A i \in 1..(n - 1) : both[i] = IF i <= m - 1 THEN front[i] ELSE rear[i - (m - 1)]
  <2>1. /\ both \in Seq(Cells) /\ Len(both) = Len(front) + Len(rear)
        /\ \A i \in 1..(Len(front) + Len(rear)) :
              both[i] = IF i <= Len(front) THEN front[i] ELSE rear[i - Len(front)]
    BY <1>2, <1>3, ConcatIs
  <2>2. Len(front) + Len(rear) = n - 1
    BY <1>2, <1>3
  <2> HIDE DEF both
  <2> QED
    BY <1>2, <2>1, <2>2
<1> HIDE DEF both
<1>7. ASSUME NEW k \in 1..(n - 1)
      PROVE  both[k] = t[k]
  <2>1. both[k] = IF k <= m - 1 THEN front[k] ELSE rear[k - (m - 1)]
    BY <1>6
  <2>2. CASE k <= m - 1
    <3>1. k \in 1..(m - 1) /\ k < m
      BY <2>2
    <3> QED
      BY <1>2, <1>5, <2>1, <2>2, <3>1
  <2>3. CASE k > m - 1
    <3>1. k - (m - 1) \in 1..(n - m) /\ m + (k - (m - 1)) = k + 1 /\ ~(k < m) /\ ~(k <= m - 1)
      BY <2>3
    <3>2. rear[k - (m - 1)] = s[k + 1]
      BY <1>3, <3>1
    <3> QED
      BY <1>5, <2>1, <3>1, <3>2
  <2>4. k <= m - 1 \/ k > m - 1
    OBVIOUS
  <2> QED
    BY <2>2, <2>3, <2>4
<1>8. n - 1 \in Nat
    OBVIOUS
<1>9. both = t
    BY <1>4, <1>6, <1>7, <1>8, SameSeq
<1>10. Lru!RemoveAt(s, m) = both
    BY <1>1 DEF Lru!RemoveAt, both, front, rear
<1> QED
    BY <1>9, <1>10 DEF t

LEMMA InsertAtIs ==
    ASSUME NEW n \in Nat, NEW s \in Lists(n), NEW g \in 0..n, NEW idx \in Cells,
           \A k \in 1..n : s[k] # idx
    PROVE  Lru!InsertAt(s, g + 1, idx) = Inserted(s, n, g, idx)
<1> DEFINE front == SubSeq(s, 1, g)
           rear == SubSeq(s, g + 1, n)
           t == Inserted(s, n, g, idx)
<1>1. s \in Seq(Cells) /\ Len(s) = n
    BY SeqIs
<1>2. /\ front \in Seq(Cells) /\ Len(front) = g
      /\ \A i \in 1..g : front[i] = s[i]
  <2>1. g \in 0..Len(s) /\ 1 \in Nat \ {0} /\ 1 <= g + 1 /\ g - 1 + 1 = g
    BY <1>1
  <2>2. /\ front \in Seq(Cells) /\ Len(front) = g - 1 + 1
        /\ \A i \in 1..(g - 1 + 1) : front[i] = s[1 + i - 1]
    BY <1>1, <2>1, SubSeqIs
  <2>3. \A i \in 1..g : 1 + i - 1 = i
    OBVIOUS
  <2> QED
    BY <2>1, <2>2, <2>3
<1>3. /\ rear \in Seq(Cells) /\ Len(rear) = n - g
      /\ \A i \in 1..(n - g) : rear[i] = s[g + i]
  <2>1. n \in 0..Len(s) /\ g + 1 \in Nat \ {0} /\ g + 1 <= n + 1 /\ n - (g + 1) + 1 = n - g
    BY <1>1
  <2>2. /\ rear \in Seq(Cells) /\ Len(rear) = n - (g + 1) + 1
        /\ \A i \in 1..(n - (g + 1) + 1) : rear[i] = s[g + 1 + i - 1]
    BY <1>1, <2>1, SubSeqIs
  <2>3. \A i \in 1..(n - g) : g + 1 + i - 1 = g + i
    OBVIOUS
  <2> QED
    BY <2>1, <2>2, <2>3
<1>4. t \in Seq(Cells) /\ Len(t) = n + 1
  <2>1. n + 1 \in Nat /\ t \in Lists(n + 1)
    BY InsertedIs
  <2> QED
    BY <2>1, SeqIs
<1>5. \A k \in 1..(n + 1) : t[k] = IF k <= g THEN s[k] ELSE IF k = g + 1 THEN idx ELSE s[k - 1]
    BY DEF Inserted
<1> HIDE DEF front, rear, t
<1> DEFINE one == <<idx>>
           head == front \o one
<1>6. one \in Seq(Cells) /\ Len(one) = 1 /\ one[1] = idx
    OBVIOUS
<1> HIDE DEF one
<1>7. /\ head \in Seq(Cells) /\ Len(head) = g + 1
      /\ \A k \in 1..(g + 1) : head[k] = IF k <= g THEN front[k] ELSE idx
  <2>1. /\ head \in Seq(Cells) /\ Len(head) = Len(front) + Len(one)
        /\ \A i \in 1..(Len(front) + Len(one)) :
              head[i] = IF i <= Len(front) THEN front[i] ELSE one[i - Len(front)]
    BY <1>2, <1>6, ConcatIs
  <2>2. Len(front) + Len(one) = g + 1 /\ Len(front) = g
    BY <1>2, <1>6
  <2> HIDE DEF head
  <2>3. \A k \in 1..(g + 1) : ~(k <= g) => k - g = 1
    OBVIOUS
  <2> QED
    BY <1>6, <2>1, <2>2, <2>3
<1> HIDE DEF head
<1> DEFINE both == head \o rear
<1>8. /\ both \in Seq(Cells) /\ Len(both) = n + 1
      /\ \A i \in 1..(n + 1) : both[i] = IF i <= g + 1 THEN head[i] ELSE rear[i - (g + 1)]
  <2>1. /\ both \in Seq(Cells) /\ Len(both) = Len(head) + Len(rear)
        /\ \A i \in 1..(Len(head) + Len(rear)) :
              both[i] = IF i <= Len(head) THEN head[i] ELSE rear[i - Len(head)]
    BY <1>3, <1>7, ConcatIs
  <2>2. Len(head) + Len(rear) = n + 1
    BY <1>3, <1>7
  <2> HIDE DEF both
  <2> QED
    BY <1>7, <2>1, <2>2
<1> HIDE DEF both
<1>9. ASSUME NEW k \in 1..(n + 1)
      PROVE  both[k] = t[k]
  <2>1. both[k] = IF k <= g + 1 THEN head[k] ELSE rear[k - (g + 1)]
    BY <1>8
  <2>2. CASE k <= g + 1
    <3>1. k \in 1..(g + 1) /\ (k <= g => k \in 1..g) /\ (~(k <= g) => k = g + 1)
      BY <2>2
    <3> QED
      BY <1>2, <1>5, <1>7, <2>1, <2>2, <3>1
  <2>3. CASE k > g + 1
    <3>1. k - (g + 1) \in 1..(n - g) /\ g + (k - (g + 1)) = k - 1 /\ ~(k <= g) /\ ~(k <= g + 1) /\ k # g + 1
      BY <2>3
    <3>2. rear[k - (g + 1)] = s[k - 1]
      BY <1>3, <3>1
    <3> QED
      BY <1>5, <2>1, <3>1, <3>2
  <2>4. k <= g + 1 \/ k > g + 1
    OBVIOUS
  <2> QED
    BY <2>2, <2>3, <2>4
<1>10. both = t
    BY <1>4, <1>8, <1>9, SameSeq
<1>11. Lru!InsertAt(s, g + 1, idx) = both
  <2>1. (g + 1) - 1 = g
    OBVIOUS
  <2> QED
    BY <1>1, <2>1 DEF Lru!InsertAt, both, front, rear, head, one
<1> QED
    BY <1>10, <1>11 DEF t

LEMMA RemoveFirstIs ==
    ASSUME NEW n \in Nat, NEW s \in Lists(n), NEW idx \in Cells, NEW w, NEW r,
           IsRest(s, n, idx, w, r)
    PROVE  Lru!RemoveFirst(s, idx) = w
<1>1. Len(s) = n
    BY SeqIs
<1>2. CASE idx \notin Members(s, n) /\ r = n /\ w = s
  <2>1. ~\E i \in 1..Len(s) : s[i] = idx
    BY <1>1, <1>2 DEF Members
  <2> QED
    BY <1>2, <2>1 DEF Lru!RemoveFirst
<1>3. CASE \E m \in 1..n : s[m] = idx /\ r = n - 1 /\ w = Dropped(s, n, m)
  <2>1. PICK m \in 1..n : s[m] = idx /\ r = n - 1 /\ w = Dropped(s, n, m)
    BY <1>3
  <2> DEFINE I == {i \in 1..Len(s) : s[i] = idx}
  <2>2. I = {m}
    BY <1>1, <2>1 DEF Lists
  <2>3. Lru!Min(I) = m
    BY <2>2 DEF Lru!Min
  <2>4. Lru!SelectInSeq(s, LAMBDA v : v = idx) = IF I # {} THEN Lru!Min(I) ELSE 0
    BY DEF Lru!SelectInSeq
  <2>5. Lru!RemoveFirst(s, idx) = Lru!RemoveAt(s, Lru!SelectInSeq(s, LAMBDA v : v = idx))
    BY <1>1, <2>1 DEF Lru!RemoveFirst
  <2> QED
    BY <2>1, <2>2, <2>3, <2>4, <2>5, RemoveAtIs
<1> QED
    BY <1>2, <1>3 DEF IsRest

LEMMA AppendIs ==
    ASSUME NEW r \in Nat, NEW w \in Lists(r), NEW idx \in Cells, \A k \in 1..r : w[k] # idx
    PROVE  Append(w, idx) = Inserted(w, r, r, idx)
<1> DEFINE t == Inserted(w, r, r, idx)
           a == Append(w, idx)
<1>1. w \in Seq(Cells) /\ Len(w) = r
    BY SeqIs
<1>2. r + 1 \in Nat /\ t \in Lists(r + 1) /\ r \in 0..r
    BY InsertedIs
<1>3. t \in Seq(Cells) /\ Len(t) = r + 1
    BY <1>2, SeqIs
<1>4. \A k \in 1..(r + 1) : t[k] = IF k <= r THEN w[k] ELSE idx
    BY DEF Inserted
<1>5. /\ a \in Seq(Cells) /\ Len(a) = r + 1
      /\ \A k \in 1..r : a[k] = w[k]
      /\ a[r + 1] = idx
    BY <1>1, AppendProperties
<1> HIDE DEF a, t
<1>6. \A k \in 1..(r + 1) : a[k] = t[k]
    BY <1>4, <1>5
<1>7. a = t
    BY <1>2, <1>3, <1>5, <1>6, SameSeq
<1> QED
    BY <1>7 DEF a, t

LEMMA TailIs ==
    ASSUME NEW n \in Nat, n > 0, NEW t \in Lists(n)
    PROVE  Tail(t) = Dropped(t, n, 1)
<1> DEFINE d == Dropped(t, n, 1)
           a == Tail(t)
<1>1. t \in Seq(Cells) /\ Len(t) = n /\ t # <<>>
    BY SeqIs, EmptySeq
<1>2. n - 1 \in Nat /\ 1 \in 1..n
    OBVIOUS
<1>3. d \in Lists(n - 1)
    BY <1>2, DroppedIs
<1>4. d \in Seq(Cells) /\ Len(d) = n - 1
    BY <1>2, <1>3, SeqIs
<1>5. \A k \in 1..(n - 1) : d[k] = t[k + 1]
    BY DEF Dropped
<1>6. a \in Seq(Cells) /\ Len(a) = n - 1 /\ \A k \in 1..(n - 1) : a[k] = t[k + 1]
    BY <1>1, HeadTailProperties
<1> HIDE DEF a, d
<1>7. \A k \in 1..(n - 1) : a[k] = d[k]
    BY <1>5, <1>6
<1>8. a = d
    BY <1>2, <1>4, <1>6, <1>7, SameSeq
<1> QED
    BY <1>8 DEF a, d

\* The list after a put is the one that BitmapLru stores.
LEMMA StoreIs ==
    ASSUME NEW n \in Nat, NEW s \in Lists(n), NEW idx \in Cells, NEW w, NEW r,
           IsRest(s, n, idx, w, r), list = s,
           list' = IF r + 1 > MemoryCells THEN Dropped(Inserted(w, r, r, idx), r + 1, 1)
                                          ELSE Inserted(w, r, r, idx)
    PROVE  Lru!Store(idx)
<1> DEFINE t == Inserted(w, r, r, idx)
<1>1. r \in Nat /\ w \in Lists(r) /\ (\A k \in 1..r : w[k] # idx) /\ t \in Lists(r + 1) /\ r + 1 \in Nat
      /\ r + 1 > 0
    BY RestIs
<1>2. Lru!RemoveFirst(s, idx) = w
    BY RemoveFirstIs
<1>3. Append(w, idx) = t
    BY <1>1, AppendIs
<1>4. Len(t) = r + 1
    BY <1>1, SeqIs
<1> HIDE DEF t
<1>5. Tail(t) = Dropped(t, r + 1, 1)
    BY <1>1, TailIs
<1>6. list' = IF r + 1 > MemoryCells THEN Dropped(t, r + 1, 1) ELSE t
    BY DEF t
<1> QED
    BY <1>2, <1>3, <1>4, <1>5, <1>6 DEF Lru!Store

\* The list after a cell was used is the one that BitmapLru has then.
LEMMA UseIs ==
    ASSUME NEW n \in Nat, NEW s \in Lists(n), NEW m \in 1..(n - 1),
           list = s, list' = Moved(s, n, m)
    PROVE  m \in 1..Len(list) /\ Lru!Use(m)
<1> DEFINE t == Dropped(s, n, m)
           g == Reach(n - 1, m - 1 + BumpCount)
<1>1. Len(s) = n
    BY SeqIs
<1>2. m \in 1..n /\ n - 1 \in Nat /\ BumpCount \in Nat
    BY BumpAssumption
<1>3. t \in Lists(n - 1) /\ \A k \in 1..(n - 1) : t[k] # s[m]
    BY <1>2, DroppedIs
<1>4. g \in 0..(n - 1) /\ s[m] \in Cells /\ Lru!Least(m + BumpCount, n) = g + 1
    BY <1>2 DEF Reach, Lru!Least, Lists
<1>5. Lru!RemoveAt(s, m) = t
    BY <1>2, RemoveAtIs
<1> HIDE DEF t, g
<1>6. Lru!InsertAt(t, g + 1, s[m]) = Inserted(t, n - 1, g, s[m])
    BY <1>2, <1>3, <1>4, InsertAtIs
<1>7. Moved(s, n, m) = Inserted(t, n - 1, g, s[m])
    BY DEF Moved, t, g
<1>8. Lru!Used(m) = Moved(s, n, m)
    BY <1>1, <1>4, <1>5, <1>6, <1>7 DEF Lru!Used
<1> QED
    BY <1>1, <1>2, <1>8 DEF Lru!Use
-----------------------------------------------------------------------------
(* The order of the stamps *)

LEMMA CellsFinite == PstCells \in Nat /\ IsFiniteSet(Cells)
BY CellAssumption, FS_Interval DEF Cells

LEMMA EarlierOrders ==
    ASSUME NEW file \in Files
    PROVE  /\ \A a \in Cells : ~Earlier(file, a, a)
           /\ \A a, b \in Cells : a # b => Earlier(file, a, b) \/ Earlier(file, b, a)
           /\ \A a, b, x \in Cells : Earlier(file, a, b) /\ Earlier(file, b, x) => Earlier(file, a, x)
<1>1. \A a \in Cells : a \in Int /\ file[a].stamp \in Int
    BY CellAssumption DEF Cells, Files
<1> QED
    BY <1>1 DEF Earlier

\* A later cell has more cells before it, and as many different numbers of
\* them occur as there are cells.
LEMMA RankIs ==
    ASSUME NEW file \in Files, NEW cells \in SUBSET Cells
    PROVE  /\ Cardinality(cells) \in Nat
           /\ \A a \in cells : Rank(file, cells, a) + 1 \in 1..Cardinality(cells)
           /\ \A a, b \in cells : Earlier(file, a, b) => Rank(file, cells, a) < Rank(file, cells, b)
           /\ \A a, b \in cells : Rank(file, cells, a) = Rank(file, cells, b) => a = b
           /\ \A k \in 1..Cardinality(cells) : \E a \in cells : Rank(file, cells, a) = k - 1
<1> DEFINE N == Cardinality(cells)
           Prior(a) == {other \in cells : Earlier(file, other, a)}
<1>1. IsFiniteSet(cells) /\ N \in Nat
    BY CellsFinite, FS_Subset, FS_CardinalityType
<1>2. \A a : Rank(file, cells, a) = Cardinality(Prior(a))
    BY DEF Rank
<1>3. ASSUME NEW a \in cells
      PROVE  IsFiniteSet(Prior(a)) /\ Cardinality(Prior(a)) \in Nat /\ Cardinality(Prior(a)) < N
  <2>1. Prior(a) \in SUBSET cells /\ a \notin Prior(a)
    BY EarlierOrders
  <2>2. Prior(a) # cells
    BY <2>1
  <2> HIDE DEF Prior
  <2>3. IsFiniteSet(Prior(a)) /\ Cardinality(Prior(a)) <= N /\ Cardinality(Prior(a)) # N
    BY <1>1, <2>1, <2>2, FS_Subset
  <2>4. Cardinality(Prior(a)) \in Nat
    BY <2>3, FS_CardinalityType
  <2> HIDE DEF N
  <2> QED
    BY <1>1, <2>3, <2>4
<1>4. ASSUME NEW a \in cells, NEW b \in cells, Earlier(file, a, b)
      PROVE  Cardinality(Prior(a)) < Cardinality(Prior(b))
  <2>1. Prior(a) \in SUBSET Prior(b) /\ a \in Prior(b) /\ a \notin Prior(a)
    BY <1>4, EarlierOrders
  <2>2. Prior(a) # Prior(b)
    BY <2>1
  <2>3. IsFiniteSet(Prior(b)) /\ Cardinality(Prior(a)) \in Nat /\ Cardinality(Prior(b)) \in Nat
    BY <1>3
  <2> HIDE DEF Prior
  <2>4. Cardinality(Prior(a)) <= Cardinality(Prior(b)) /\ Cardinality(Prior(a)) # Cardinality(Prior(b))
    BY <2>1, <2>2, <2>3, FS_Subset
  <2> QED
    BY <2>3, <2>4
<1>5. ASSUME NEW a \in cells, NEW b \in cells, Cardinality(Prior(a)) = Cardinality(Prior(b))
      PROVE  a = b
  <2>1. Cardinality(Prior(a)) \in Nat
    BY <1>3
  <2>2. ~Earlier(file, a, b) /\ ~Earlier(file, b, a)
    BY <1>4, <1>5, <2>1
  <2> QED
    BY <2>2, EarlierOrders
<1> HIDE DEF Prior, N
<1> DEFINE place == [a \in cells |-> Cardinality(Prior(a)) + 1]
<1>6. \A a \in cells : Cardinality(Prior(a)) + 1 \in 1..N
    BY <1>1, <1>3
<1>7. place \in [cells -> 1..N]
    BY <1>6
<1>8. place \in Injection(cells, 1..N)
    BY <1>3, <1>5, <1>7 DEF Injection, IsInjective
<1>9. IsFiniteSet(1..N) /\ Cardinality(1..N) = N
    BY <1>1, FS_Interval
<1> HIDE DEF place
<1>10. place \in Surjection(cells, 1..N)
    BY <1>8, <1>9, FS_Injection DEF N
<1>11. \A k \in 1..N : \E a \in cells : place[a] = k
    BY <1>10 DEF Surjection
<1>12. \A k \in 1..N : \E a \in cells : Cardinality(Prior(a)) = k - 1
  <2> SUFFICES ASSUME NEW k \in 1..N
               PROVE  \E a \in cells : Cardinality(Prior(a)) = k - 1
    OBVIOUS
  <2>1. PICK a \in cells : place[a] = k
    BY <1>11
  <2>2. Cardinality(Prior(a)) + 1 = k /\ Cardinality(Prior(a)) \in Nat
    BY <1>3, <2>1 DEF place
  <2>3. Cardinality(Prior(a)) = k - 1
    BY <2>2
  <2> QED
    BY <2>3
<1> QED
    BY <1>1, <1>2, <1>4, <1>5, <1>6, <1>12 DEF N

\* The cells in the order of their stamps, each once.
LEMMA ByStampIs ==
    ASSUME NEW file \in Files, NEW cells \in SUBSET Cells
    PROVE  LET n == Cardinality(cells)
               s == ByStamp(file, cells)
           IN /\ n \in Nat /\ s \in Lists(n) /\ Members(s, n) = cells
              /\ \A j, k \in 1..n : j < k => Earlier(file, s[j], s[k])
<1> DEFINE n == Cardinality(cells)
           s == ByStamp(file, cells)
<1>1. /\ n \in Nat
      /\ \A a \in cells : Rank(file, cells, a) + 1 \in 1..n
      /\ \A a, b \in cells : Earlier(file, a, b) => Rank(file, cells, a) < Rank(file, cells, b)
      /\ \A a, b \in cells : Rank(file, cells, a) = Rank(file, cells, b) => a = b
      /\ \A k \in 1..n : \E a \in cells : Rank(file, cells, a) = k - 1
    BY RankIs
<1>2. s = [k \in 1..n |-> CHOOSE a \in cells : Rank(file, cells, a) = k - 1]
    BY DEF ByStamp
<1> HIDE DEF n, s
<1>3. \A k \in 1..n : s[k] \in cells /\ Rank(file, cells, s[k]) = k - 1
    BY <1>1, <1>2
<1>4. s \in [1..n -> Cells]
    BY <1>1, <1>2
<1>5. ASSUME NEW j \in 1..n, NEW k \in 1..n, s[j] = s[k]
      PROVE  j = k
  <2>1. j - 1 = k - 1
    BY <1>3, <1>5
  <2> QED
    BY <2>1
<1>6. s \in Lists(n)
    BY <1>4, <1>5 DEF Lists
<1>7. ASSUME NEW a \in cells PROVE a \in Members(s, n)
  <2>1. Rank(file, cells, a) + 1 \in 1..n
    BY <1>1
  <2> DEFINE k == Rank(file, cells, a) + 1
  <2>2. Rank(file, cells, s[k]) = k - 1
    BY <1>3, <2>1
  <2>3. Rank(file, cells, a) \in Int
    BY CellsFinite, FS_Subset, FS_CardinalityType DEF Rank
  <2>4. Rank(file, cells, s[k]) = Rank(file, cells, a)
    BY <2>2, <2>3
  <2>5. s[k] = a
    BY <1>1, <1>3, <2>1, <2>4
  <2> QED
    BY <2>1, <2>5 DEF Members
<1>8. Members(s, n) = cells
    BY <1>3, <1>7 DEF Members
<1>9. ASSUME NEW j \in 1..n, NEW k \in 1..n, j < k
      PROVE  Earlier(file, s[j], s[k])
  <2>1. s[j] \in cells /\ s[k] \in cells /\ Rank(file, cells, s[j]) = j - 1 /\ Rank(file, cells, s[k]) = k - 1
    BY <1>3
  <2>2. s[j] # s[k]
    BY <1>5, <1>9
  <2>3. ~Earlier(file, s[k], s[j])
    BY <1>1, <1>9, <2>1
  <2> QED
    BY <2>1, <2>2, <2>3, EarlierOrders
<1> QED
    BY <1>1, <1>6, <1>8, <1>9 DEF n, s

LEMMA MembersCounted ==
    ASSUME NEW n \in Nat, NEW s \in Lists(n)
    PROVE  Cardinality(Members(s, n)) = n
<1>1. s \in [1..n -> Members(s, n)]
    BY DEF Lists, Members
<1>2. s \in Bijection(1..n, Members(s, n))
    BY <1>1 DEF Lists, Members, Bijection, Injection, Surjection, IsInjective
<1>3. ExistsBijection(1..n, Members(s, n))
    BY <1>2 DEF ExistsBijection
<1> QED
    BY <1>3, FS_CountingElements
-----------------------------------------------------------------------------
(* The start of a run *)

\* cache_rebuild_bmpcache_linked_list links what is in memory in the order of
\* the stamps, and counts as many cells as the program holds bitmaps.
LEMMA RebuildIs ==
    ASSUME NEW c, NEW n, NEW s, Good(c, n, s), NEW file \in Files, Loaded(c) \subseteq Announced(file)
    PROVE  LET d == cache_rebuild_bmpcache_linked_list(c, file)
               found == Present(c, file)
           IN /\ KeepsBitmaps(c, d) /\ Good(d, n, found)
              /\ \A j, k \in 1..n : j < k => Earlier(file, found[j], found[k])
              /\ ~Miscounted(c, file)
<1> DEFINE d == cache_rebuild_bmpcache_linked_list(c, file)
           found == Present(c, file)
<1>1. c \in Caches /\ n \in Nat /\ s \in Lists(n) /\ Linked(c, n, s) /\ Loaded(c) = Members(s, n)
      /\ n <= MemoryCells
    BY DEF Listed, Good
<1>2. found = ByStamp(file, Loaded(c))
  <2>1. {idx \in Announced(file) : c.cell[idx].bitmap # NULL} = Loaded(c)
    BY DEF Loaded, Announced
  <2> QED
    BY <2>1 DEF Present
<1>3. Loaded(c) \in SUBSET Cells /\ Cardinality(Loaded(c)) = n
    BY <1>1, MembersCounted DEF Loaded
<1>4. /\ found \in Lists(n) /\ Members(found, n) = Loaded(c)
      /\ \A j, k \in 1..n : j < k => Earlier(file, found[j], found[k])
    BY <1>2, <1>3, ByStampIs
<1>5. Len(found) = n /\ DOMAIN found = 1..n /\ ToSet(found) = Members(found, n)
      /\ (found = <<>> <=> n = 0) /\ found \in Seq(Cells)
  <2>1. Len(found) = n /\ DOMAIN found = 1..n /\ found \in Seq(Cells)
    BY <1>1, <1>4, SeqIs
  <2> HIDE DEF found
  <2>2. found = <<>> <=> n = 0
    BY <1>1, <2>1, EmptySeq
  <2> QED
    BY <2>1, <2>2 DEF ToSet, Members
<1>6. ~Miscounted(c, file)
  <2>1. c.count = n
    BY <1>1 DEF Linked
  <2> QED
    BY <1>5, <2>1 DEF Miscounted
<1>7. CASE n = 0
  <2>1. d = [c EXCEPT !.lru = NOT_SET, !.mru = NOT_SET]
    BY <1>5, <1>7 DEF cache_rebuild_bmpcache_linked_list
  <2> HIDE DEF d, found
  <2>2. NOT_SET \in Links
    BY DEF Links
  <2>3. /\ d \in Caches /\ d.cell = c.cell /\ d.file = c.file /\ d.count = c.count
        /\ d.lru = NOT_SET /\ d.mru = NOT_SET
    BY <1>1, <2>1, <2>2 DEF Caches
  <2>4. Linked(d, n, found)
    BY <1>1, <1>7, <2>3 DEF Linked, At
  <2>5. KeepsBitmaps(c, d)
    BY <2>3 DEF KeepsBitmaps
  <2>6. Good(d, n, found)
    BY <1>1, <1>4, <2>3, <2>4, <2>5, LoadedKept DEF Good, Listed
  <2> QED
    BY <1>4, <1>6, <2>5, <2>6 DEF d, found
<1>8. CASE n > 0
  <2> DEFINE link(idx) ==
                 LET k == CHOOSE k \in DOMAIN found : found[k] = idx
                 IN [bitmap |-> c.cell[idx].bitmap,
                     previous |-> IF k = 1 THEN NOT_SET ELSE found[k - 1],
                     next |-> IF k = Len(found) THEN NOT_SET ELSE found[k + 1]]
             cells == [idx \in Cells |-> IF idx \in ToSet(found) THEN link(idx) ELSE c.cell[idx]]
  <2>1. d = [c EXCEPT !.lru = found[1], !.mru = found[Len(found)], !.cell = cells]
    BY <1>1, <1>5, <1>8 DEF cache_rebuild_bmpcache_linked_list
  <2> HIDE DEF d, found
  <2>2. ASSUME NEW k \in 1..n
        PROVE  link(found[k]) = [bitmap |-> c.cell[found[k]].bitmap,
                                 previous |-> At(found, n, k - 1), next |-> At(found, n, k + 1)]
    <3> DEFINE q == CHOOSE j \in DOMAIN found : found[j] = found[k]
    <3>1. q \in 1..n /\ found[q] = found[k]
      BY <1>5
    <3>2. q = k
      BY <1>4, <3>1 DEF Lists
    <3>3. At(found, n, k - 1) = IF k = 1 THEN NOT_SET ELSE found[k - 1]
      BY <1>1 DEF At
    <3>4. At(found, n, k + 1) = IF k = n THEN NOT_SET ELSE found[k + 1]
      BY <1>1 DEF At
    <3>5. link(found[k]) = [bitmap |-> c.cell[found[k]].bitmap,
                            previous |-> IF q = 1 THEN NOT_SET ELSE found[q - 1],
                            next |-> IF q = Len(found) THEN NOT_SET ELSE found[q + 1]]
      OBVIOUS
    <3> HIDE DEF q, link
    <3> QED
      BY <1>5, <3>2, <3>3, <3>4, <3>5
  <2> HIDE DEF link
  <2>3. \A k \in 1..n : found[k] \in Cells /\ found[k] \in ToSet(found)
    BY <1>4, <1>5 DEF Members, Lists
  <2>4. \A k \in 1..n : cells[found[k]] = [bitmap |-> c.cell[found[k]].bitmap,
                                 previous |-> At(found, n, k - 1), next |-> At(found, n, k + 1)]
    BY <2>2, <2>3
  <2>5. \A i \in Cells : cells[i] \in CellStates /\ cells[i].bitmap = c.cell[i].bitmap
    <3> SUFFICES ASSUME NEW i \in Cells
                 PROVE  cells[i] \in CellStates /\ cells[i].bitmap = c.cell[i].bitmap
      OBVIOUS
    <3>1. c.cell[i] \in CellStates
      BY <1>1 DEF Caches
    <3>2. CASE i \notin ToSet(found)
      BY <3>1, <3>2
    <3>3. CASE i \in ToSet(found)
      <4>1. PICK k \in 1..n : found[k] = i
        BY <1>5, <3>3 DEF Members
      <4>2. At(found, n, k - 1) \in Links /\ At(found, n, k + 1) \in Links
        BY <1>1, <1>4, AtIs
      <4>3. cells[i] = [bitmap |-> c.cell[i].bitmap,
                        previous |-> At(found, n, k - 1), next |-> At(found, n, k + 1)]
        BY <2>4, <4>1
      <4> HIDE DEF cells
      <4> QED
        BY <3>1, <4>2, <4>3 DEF CellStates
    <3> QED
      BY <3>2, <3>3
  <2>6. cells \in [Cells -> CellStates]
    BY <2>5
  <2> HIDE DEF cells
  <2>7. found[1] \in Cells /\ found[n] \in Cells
    BY <1>1, <1>8, <2>3
  <2>8. /\ d \in Caches /\ d.cell = cells /\ d.file = c.file /\ d.count = c.count
        /\ d.lru = found[1] /\ d.mru = found[n]
    BY <1>1, <1>5, <2>1, <2>6, <2>7 DEF Caches, Links
  <2>9. Linked(d, n, found)
    <3>1. d.lru = At(found, n, 1) /\ d.mru = At(found, n, n) /\ d.count = n
      BY <1>1, <1>8, <2>8 DEF At, Linked
    <3>2. \A k \in 1..n : d.cell[found[k]].previous = At(found, n, k - 1)
                          /\ d.cell[found[k]].next = At(found, n, k + 1)
      <4> SUFFICES ASSUME NEW k \in 1..n
                   PROVE  d.cell[found[k]].previous = At(found, n, k - 1)
                          /\ d.cell[found[k]].next = At(found, n, k + 1)
        OBVIOUS
      <4>1. d.cell[found[k]] = [bitmap |-> c.cell[found[k]].bitmap,
                                previous |-> At(found, n, k - 1), next |-> At(found, n, k + 1)]
        BY <2>4, <2>8
      <4> QED
        BY <4>1
    <3> QED
      BY <3>1, <3>2 DEF Linked
  <2>10. KeepsBitmaps(c, d)
    BY <2>5, <2>8 DEF KeepsBitmaps
  <2>11. Good(d, n, found)
    BY <1>1, <1>4, <2>8, <2>9, <2>10, LoadedKept DEF Good, Listed
  <2> QED
    BY <1>4, <1>6, <2>10, <2>11 DEF d, found
<1> QED
    BY <1>1, <1>7, <1>8

\* What is in memory came from the file, or nothing is.
FromFile(d, file) ==
    /\ \E n, s : Good(d, n, s)
    /\ \A j \in Cells : d.file[j].bitmap = file[j].bitmap
    /\ \A j \in Loaded(d) : j \in Announced(file) /\ d.cell[j].bitmap = file[j].bitmap

LEMMA LoadInAdvanceIs ==
    ASSUME NEW file \in Files, NEW d, FromFile(d, file), NEW idx
    PROVE  FromFile(LoadInAdvance(d, file, idx), file)
<1>1. CASE ~(idx \in Announced(file) /\ d.file[idx].stamp > 0)
    BY <1>1 DEF LoadInAdvance
<1>2. CASE idx \in Announced(file) /\ d.file[idx].stamp > 0
  <2> DEFINE e == PutBitmap(d, idx, file[idx].bitmap)
  <2>1. idx \in Cells /\ file[idx].bitmap \in Bitmaps
    <3>1. idx \in Cells /\ idx \in 0..idx
      BY <1>2, CellAssumption DEF Announced, Cells
    <3> QED
      BY <1>2, <3>1 DEF Announced, Files
  <2>2. PICK n, s : Good(d, n, s)
    BY DEF FromFile
  <2>3. (\E m, t : Good(e, m, t)) /\ PutKeeps(d, e, idx, file[idx].bitmap)
    BY <2>1, <2>2, PutIsGood
  <2>4. LoadInAdvance(d, file, idx) = e
    BY <1>2 DEF LoadInAdvance
  <2> HIDE DEF e
  <2>5. \A j \in Cells : e.file[j].bitmap = file[j].bitmap
    BY <2>3 DEF FromFile, PutKeeps
  <2>6. ASSUME NEW j \in Loaded(e)
        PROVE  j \in Announced(file) /\ e.cell[j].bitmap = file[j].bitmap
    <3>1. CASE j = idx
      BY <1>2, <2>3, <3>1 DEF PutKeeps
    <3>2. CASE j # idx
      <4>1. e.cell[j].bitmap = d.cell[j].bitmap /\ j \in Loaded(d)
        BY <2>3, <2>6, <3>2 DEF PutKeeps, Loaded
      <4> QED
        BY <4>1 DEF FromFile
    <3> QED
      BY <3>1, <3>2
  <2> QED
    BY <2>3, <2>4, <2>5, <2>6 DEF FromFile
<1> QED
    BY <1>1, <1>2

\* Pre-caching leaves a good cache whose bitmaps are those of the file.
LEMMA PrecachedIs ==
    ASSUME NEW c, c.file \in Files, FromFile(c, c.file)
    PROVE  FromFile(Precached(c), c.file)
<1> DEFINE file == c.file
           X == {d \in Caches : FromFile(d, file)}
           F == [n \in Nat |-> [d \in X |-> LoadInAdvance(d, file, n - 1)]]
           Loop(f) == f = [n \in 0..PstCells |-> IF n = 0 THEN c ELSE LoadInAdvance(f[n - 1], file, n - 1)]
           after == CHOOSE f : Loop(f)
<1>1. PstCells \in Nat
    BY CellAssumption
<1>2. \A d : FromFile(d, file) => d \in X
    BY DEF FromFile, Good, Listed
<1>3. c \in X
    BY <1>2
<1>4. Precached(c) = after[PstCells]
    BY DEF Precached
<1> HIDE DEF file
<1>5. \A d \in X, n \in Nat : LoadInAdvance(d, file, n - 1) \in X
    BY <1>2, LoadInAdvanceIs DEF file
<1>6. \E f : Loop(f)
  <2>1. F \in Steps(X)
    BY <1>5 DEF Steps
  <2>2. \A n \in Nat, d \in X : F[n][d] = LoadInAdvance(d, file, n - 1)
    OBVIOUS
  <2> HIDE DEF F, X
  <2>3. PICK g : Iterates(g, F, c, PstCells) /\ \A n \in 0..PstCells : g[n] \in X
    BY <1>1, <1>3, <2>1, Iteration
  <2>4. \A n \in 1..PstCells : n \in Nat /\ n - 1 \in 0..PstCells /\ g[n - 1] \in X
    BY <1>1, <2>3
  <2>5. \A n \in 0..PstCells : g[n] = IF n = 0 THEN c ELSE LoadInAdvance(g[n - 1], file, n - 1)
    BY <1>1, <2>2, <2>3, <2>4 DEF Iterates
  <2> DEFINE h == [n \in 0..PstCells |-> g[n]]
  <2>6. Loop(h)
    <3>1. \A n \in 0..PstCells : n # 0 => n - 1 \in 0..PstCells
      BY <1>1
    <3>2. \A n \in 0..PstCells : (IF n = 0 THEN c ELSE LoadInAdvance(h[n - 1], file, n - 1)) = g[n]
      BY <2>5, <3>1
    <3> QED
      BY <3>2
  <2> HIDE DEF h, Loop
  <2> QED
    BY <2>6
<1>7. Loop(after)
    BY <1>6
<1>8. \A n \in 0..PstCells : after[n] = IF n = 0 THEN c ELSE LoadInAdvance(after[n - 1], file, n - 1)
    BY <1>7
<1> HIDE DEF after, Loop, F
<1> DEFINE S == {n \in Nat : n <= PstCells => after[n] \in X}
<1>9. 0 \in S
    BY <1>1, <1>3, <1>8
<1>10. ASSUME NEW n \in Nat, n \in S
       PROVE  n + 1 \in S
  <2>1. SUFFICES ASSUME n + 1 <= PstCells PROVE after[n + 1] \in X
    OBVIOUS
  <2>2. after[n] \in X
    BY <1>1, <1>10, <2>1
  <2>3. after[n + 1] = LoadInAdvance(after[n], file, (n + 1) - 1)
    BY <1>1, <1>8, <2>1
  <2> HIDE DEF X
  <2>4. n + 1 \in Nat
    OBVIOUS
  <2>5. LoadInAdvance(after[n], file, (n + 1) - 1) \in X
    BY <1>5, <2>2, <2>4
  <2> QED
    BY <2>3, <2>5
<1>11. PstCells \in S
    BY <1>1, <1>9, <1>10, Induction
<1> QED
    BY <1>1, <1>4, <1>11 DEF file
-----------------------------------------------------------------------------
(* The inductive invariant *)

\* What the server believes is in the file, unless it came without a key, and
\* what is in memory is what the server believes, unless that was lost.
Believed(idx) ==
    told[idx] # NULL =>
        /\ persistent /\ idx \notin unsaved => cache.file[idx].bitmap = told[idx]
        /\ idx \in Loaded(cache) /\ idx \notin lost => cache.cell[idx].bitmap = told[idx]
        /\ ~persistent => cache.cell[idx].bitmap = told[idx]

CacheState ==
    /\ cache \in Caches
    /\ persistent \in BOOLEAN /\ g_pstcache_enumerated = persistent /\ oops = FALSE
    /\ persistent => \E n, s : Good(cache, n, s)
    /\ ~persistent => cache.lru = NOT_SET /\ cache.mru = NOT_SET /\ cache.count = 0

ServerState ==
    /\ told \in [Cells -> Contents]
    /\ unsaved \subseteq Cells /\ lost \subseteq unsaved
    /\ \A idx \in Cells : Believed(idx)
    /\ \A idx \in unsaved \ Loaded(cache) : idx \in lost

IInv == CacheState /\ ServerState

LEMMA NoCellsIs ==
    ASSUME NEW file \in Files
    PROVE  /\ NoCells(file) \in Caches /\ NoCells(file).file = file
           /\ NoCells(file).lru = NOT_SET /\ NoCells(file).mru = NOT_SET /\ NoCells(file).count = 0
           /\ Loaded(NoCells(file)) = {}
<1>1. Unused \in CellStates /\ Unused.bitmap = NULL
    BY CellAssumption DEF Unused, CellStates, Contents, Links, Cells
<1> QED
    BY <1>1 DEF NoCells, Caches, Links, Loaded

\* What the traversal of a good cache finds.
LEMMA GoodTraversal ==
    ASSUME NEW c, NEW n, NEW s, Good(c, n, s)
    PROVE  /\ Traversal(c) = s /\ n \in 0..MemoryCells /\ s \in Lists(n) /\ s \in Seq(Cells)
           /\ Len(s) = n /\ DOMAIN s = 1..n
<1>1. c \in Caches /\ n \in Nat /\ s \in Lists(n) /\ Linked(c, n, s) /\ n <= MemoryCells
    BY DEF Good, Listed
<1>2. n \in 0..PstCells /\ n \in 0..MemoryCells
    BY <1>1, CellAssumption
<1> QED
    BY <1>1, <1>2, TraversalIs, SeqIs

\* The stamps of cache_save_state are places in the list.
LEMMA SaveStateIs ==
    ASSUME NEW c, NEW n, NEW s, Good(c, n, s)
    PROVE  cache_save_state(c) \in Files
<1>1. c \in Caches
    BY DEF Good, Listed
<1>2. Traversal(c) = s /\ n \in 0..MemoryCells /\ DOMAIN s = 1..n
    BY GoodTraversal
<1> DEFINE stamped(idx) == [c.file[idx] EXCEPT !.stamp = CHOOSE k \in DOMAIN s : s[k] = idx]
<1>3. \A idx \in ToSet(s) : (CHOOSE k \in DOMAIN s : s[k] = idx) \in 0..MemoryCells
  <2> SUFFICES ASSUME NEW idx \in ToSet(s)
               PROVE  (CHOOSE k \in DOMAIN s : s[k] = idx) \in 0..MemoryCells
    OBVIOUS
  <2>1. \E k \in DOMAIN s : s[k] = idx
    BY DEF ToSet
  <2>2. (CHOOSE k \in DOMAIN s : s[k] = idx) \in DOMAIN s
    BY <2>1
  <2> QED
    BY <1>2, <2>2, CellAssumption
<1>4. \A idx \in Cells : c.file[idx] \in [bitmap : Bitmaps \cup {Blank}, stamp : 0..MemoryCells]
    BY <1>1 DEF Caches, Files
<1>5. \A idx \in Cells : idx \in ToSet(s) =>
         stamped(idx) \in [bitmap : Bitmaps \cup {Blank}, stamp : 0..MemoryCells]
    BY <1>3, <1>4
<1>6. cache_save_state(c) = [idx \in Cells |-> IF idx \in ToSet(s) THEN stamped(idx) ELSE c.file[idx]]
    BY <1>2 DEF cache_save_state
<1> HIDE DEF stamped
<1> QED
    BY <1>4, <1>5, <1>6 DEF Files

\* pstcache_save_bitmap changes a cell of the file.
LEMMA SaveIs ==
    ASSUME NEW c, NEW n, NEW s, Good(c, n, s), NEW idx \in Cells, NEW bitmap \in Bitmaps
    PROVE  LET d == pstcache_save_bitmap(c, idx, bitmap)
           IN /\ Good(d, n, s) /\ d.cell = c.cell
              /\ d.file[idx].bitmap = bitmap
              /\ \A j \in Cells \ {idx} : d.file[j].bitmap = c.file[j].bitmap
<1> DEFINE d == pstcache_save_bitmap(c, idx, bitmap)
           x == [bitmap |-> bitmap, stamp |-> 0]
<1>1. c \in Caches
    BY DEF Good, Listed
<1>2. x \in [bitmap : Bitmaps \cup {Blank}, stamp : 0..MemoryCells] /\ x.bitmap = bitmap
    BY CellAssumption
<1>3. d = [c EXCEPT !.file[idx] = x]
    BY DEF pstcache_save_bitmap
<1> HIDE DEF d, x
<1>4. /\ d \in Caches /\ d.cell = c.cell /\ d.lru = c.lru /\ d.mru = c.mru /\ d.count = c.count
      /\ d.file = [c.file EXCEPT ![idx] = x]
    BY <1>1, <1>2, <1>3 DEF Caches, Files
<1>5. Good(d, n, s)
    BY <1>4 DEF Good, Listed, Linked, Loaded
<1>6. d.file[idx] = x /\ \A j \in Cells \ {idx} : d.file[j] = c.file[j]
    BY <1>1, <1>4 DEF Caches, Files
<1> QED
    BY <1>2, <1>4, <1>5, <1>6 DEF d

\* The list that the invariant speaks of.
LEMMA ListIs ==
    ASSUME persistent, NEW n, NEW s, Good(cache, n, s)
    PROVE  list = s /\ n \in 0..MemoryCells /\ s \in Lists(n) /\ s \in Seq(Cells)
           /\ Len(s) = n /\ DOMAIN s = 1..n
BY GoodTraversal DEF list

\* What a step of the program does to the list.
ListStep == Lru!Next \/ list' = list

\* After the keys were sent the program knows the list in the saved order.
LEMMA EnumerateStep ==
    ASSUME ~LateLock, IInv, NEW precache \in BOOLEAN, Enumerate(precache)
    PROVE  /\ IInv' /\ ListStep
           /\ \A j, k \in DOMAIN list' : j < k => Earlier(cache.file, list'[j], list'[k])
<1> DEFINE file == cache.file
           loaded == IF precache THEN Precached(cache) ELSE cache
           found == Present(loaded, file)
<1>1. /\ cache \in Caches /\ persistent = FALSE
      /\ cache.lru = NOT_SET /\ cache.mru = NOT_SET /\ cache.count = 0
    BY DEF IInv, CacheState, Enumerate
<1>2. Loaded(cache) = {}
    BY DEF Enumerate, Loaded
<1>3. Good(cache, 0, <<>>)
  <2>1. <<>> \in Lists(0) /\ Members(<<>>, 0) = {}
    BY DEF Lists, Members
  <2>2. Linked(cache, 0, <<>>)
    BY <1>1 DEF Linked, At
  <2> QED
    BY <1>1, <1>2, <2>1, <2>2, CellAssumption DEF Good, Listed
<1>4. file \in Files
    BY <1>1 DEF Caches
<1>5. FromFile(cache, file)
    BY <1>2, <1>3 DEF FromFile
<1>6. FromFile(loaded, file)
    BY <1>4, <1>5, PrecachedIs
<1>7. /\ persistent' = TRUE /\ g_pstcache_enumerated' = TRUE
      /\ cache' = cache_rebuild_bmpcache_linked_list(loaded, file)
      /\ oops' = Miscounted(loaded, file)
      /\ told' = [idx \in Cells |-> IF idx \in Announced(file) THEN file[idx].bitmap ELSE NULL]
      /\ unsaved' = {} /\ lost' = {}
    BY DEF Enumerate
<1> HIDE DEF loaded, file
<1>8. PICK n, s : Good(loaded, n, s)
    BY <1>6 DEF FromFile
<1>9. Loaded(loaded) \subseteq Announced(file)
    BY <1>6 DEF FromFile
<1>10. /\ KeepsBitmaps(loaded, cache') /\ Good(cache', n, found)
       /\ \A j, k \in 1..n : j < k => Earlier(file, found[j], found[k])
       /\ ~Miscounted(loaded, file)
    BY <1>4, <1>7, <1>8, <1>9, RebuildIs
<1> HIDE DEF found
<1>11. /\ list' = found /\ n \in 0..MemoryCells /\ found \in Lists(n)
       /\ Len(found) = n /\ DOMAIN found = 1..n
  <2>1. list' = Traversal(cache')
    BY <1>7 DEF list
  <2> QED
    BY <1>10, <2>1, GoodTraversal
<1>12. CacheState'
    BY <1>7, <1>10 DEF CacheState, KeepsBitmaps
<1>13. ServerState'
  <2>1. \A idx \in Announced(file) : idx \in Cells /\ file[idx].bitmap \in Bitmaps
    <3>1. \A idx \in Announced(file) : idx \in Cells /\ idx \in 0..idx
      BY CellAssumption DEF Announced, Cells
    <3> QED
      BY <1>4, <3>1 DEF Announced, Files
  <2>2. told' \in [Cells -> Contents]
    BY <1>7, <2>1 DEF Contents
  <2>3. \A idx \in Cells : cache'.file[idx].bitmap = file[idx].bitmap
    BY <1>6, <1>10 DEF FromFile, KeepsBitmaps
  <2>4. \A idx \in Loaded(cache') : cache'.cell[idx].bitmap = file[idx].bitmap
    <3>1. Loaded(cache') = Loaded(loaded)
      BY <1>10, LoadedKept
    <3> QED
      BY <1>6, <1>10, <3>1 DEF FromFile, KeepsBitmaps, Loaded
  <2>5. ASSUME NEW idx \in Cells PROVE Believed(idx)'
    BY <1>7, <2>3, <2>4 DEF Believed, Loaded
  <2> QED
    BY <1>7, <2>2, <2>5 DEF ServerState
<1>14. ListStep
  <2>1. list = <<>>
    BY <1>1 DEF list
  <2>2. Lru!ToSet(list') \subseteq Cells
    BY <1>11 DEF Lru!ToSet, Lists
  <2>3. Lru!IsInjective(list')
    BY <1>11 DEF Lru!IsInjective, Lists
  <2>4. Len(list') <= MemoryCells
    BY <1>11, CellAssumption
  <2> QED
    BY <2>1, <2>2, <2>3, <2>4 DEF ListStep, Lru!Next, Lru!Start
<1> QED
    BY <1>10, <1>11, <1>12, <1>13, <1>14 DEF IInv, file

\* A new connection changes only what the server believes.
LEMMA ActivateStep ==
    ASSUME IInv, ActivateWithoutKeys
    PROVE  IInv' /\ ListStep
<1>1. /\ cache' = cache /\ persistent' = persistent /\ oops' = oops
      /\ g_pstcache_enumerated' = g_pstcache_enumerated
      /\ told' = NothingTold /\ unsaved' = {} /\ lost' = {}
    BY DEF ActivateWithoutKeys
<1>2. CacheState'
    BY <1>1 DEF IInv, CacheState
<1>3. ServerState'
    BY <1>1 DEF ServerState, Believed, NothingTold, Contents
<1> QED
    BY <1>1, <1>2, <1>3 DEF IInv, ListStep, list

\* The program ends with empty cells and, maybe, stamps in its file.
LEMMA RestartStep ==
    ASSUME IInv, NEW saved \in BOOLEAN, Restart(saved)
    PROVE  IInv' /\ ListStep
<1> DEFINE file == IF saved /\ persistent THEN cache_save_state(cache) ELSE cache.file
<1>1. file \in Files
    BY SaveStateIs DEF IInv, CacheState, Caches
<1>2. /\ cache' = NoCells(file) /\ persistent' = FALSE /\ g_pstcache_enumerated' = FALSE
      /\ oops' = FALSE /\ told' = NothingTold /\ unsaved' = {} /\ lost' = {}
    BY DEF Restart
<1> HIDE DEF file
<1>3. CacheState'
    BY <1>1, <1>2, NoCellsIs DEF CacheState
<1>4. ServerState'
    BY <1>2 DEF ServerState, Believed, NothingTold, Contents
<1>5. list' = <<>>
    BY <1>2 DEF list
<1> QED
    BY <1>3, <1>4, <1>5 DEF IInv, ListStep, Lru!Next, Lru!Stop

\* What the server believes after a bitmap came, whatever left the memory.
LEMMA BelievedAfterPut ==
    ASSUME IInv, NEW idx \in Cells, NEW bitmap \in Bitmaps, NEW save \in BOOLEAN, Put(idx, bitmap, save),
           cache' \in Caches,
           cache'.cell[idx].bitmap = bitmap,
           \A j \in Cells \ {idx} : cache'.cell[j].bitmap \in {NULL, cache.cell[j].bitmap},
           ~persistent => \A j \in Cells \ {idx} : cache'.cell[j].bitmap = cache.cell[j].bitmap,
           persistent /\ save => cache'.file[idx].bitmap = bitmap,
           \A j \in Cells \ {idx} : cache'.file[j].bitmap = cache.file[j].bitmap
    PROVE  ServerState'
<1>1. /\ persistent' = persistent /\ told' = [told EXCEPT ![idx] = bitmap]
      /\ unsaved' = IF save THEN unsaved \ {idx} ELSE unsaved \cup {idx}
      /\ lost' = (lost \ {idx}) \cup LostNow(cache', unsaved')
    BY DEF Put
<1>2. told \in [Cells -> Contents] /\ unsaved \subseteq Cells /\ lost \subseteq unsaved
    BY DEF IInv, ServerState
<1>3. bitmap \in Contents /\ bitmap # NULL
    BY BitmapAssumption DEF Contents
<1>4. told' \in [Cells -> Contents] /\ told'[idx] = bitmap /\ \A j \in Cells \ {idx} : told'[j] = told[j]
    BY <1>1, <1>2, <1>3
<1>5. unsaved' \subseteq Cells /\ lost' \subseteq unsaved'
    BY <1>1, <1>2 DEF LostNow
<1>6. \A j \in unsaved' \ Loaded(cache)' : j \in lost'
    BY <1>1, <1>5 DEF LostNow, Loaded
<1>7. Believed(idx)'
  <2>1. persistent' /\ idx \notin unsaved' => save
    BY <1>1
  <2> QED
    BY <1>1, <1>4, <2>1 DEF Believed
<1>8. ASSUME NEW j \in Cells \ {idx} PROVE Believed(j)'
  <2>1. Believed(j)
    BY DEF IInv, ServerState
  <2>2. j \notin unsaved' => j \notin unsaved
    BY <1>1
  <2>3. j \notin lost' => j \notin lost
    BY <1>1
  <2>4. j \in Loaded(cache)' => j \in Loaded(cache) /\ cache'.cell[j].bitmap = cache.cell[j].bitmap
    BY DEF Loaded
  <2>5. told'[j] = told[j] /\ cache'.file[j].bitmap = cache.file[j].bitmap
    BY <1>4
  <2> QED
    BY <1>1, <2>1, <2>2, <2>3, <2>4, <2>5 DEF Believed
<1> QED
    BY <1>4, <1>5, <1>6, <1>7, <1>8 DEF ServerState

\* A bitmap that comes goes to the end of the list.
LEMMA PutStep ==
    ASSUME IInv, NEW idx \in Cells, NEW bitmap \in Bitmaps, NEW save \in BOOLEAN, Put(idx, bitmap, save)
    PROVE  IInv' /\ ListStep
<1>1. /\ persistent' = persistent /\ g_pstcache_enumerated' = g_pstcache_enumerated /\ oops' = oops
    BY DEF Put
<1>2. CASE persistent
  <2> DEFINE d == PutBitmap(cache, idx, bitmap)
  <2>1. PICK n, s : Good(cache, n, s)
    BY <1>2 DEF IInv, CacheState
  <2>2. PICK r, w : IsRest(s, n, idx, w, r) /\ PutOnTop(d, r, Inserted(w, r, r, idx))
    BY <2>1, PutIsGood
  <2>3. PutKeeps(cache, d, idx, bitmap)
    BY <2>1, PutIsGood
  <2>4. cache' = IF save THEN pstcache_save_bitmap(d, idx, bitmap) ELSE d
    BY <1>2 DEF Put
  <2> DEFINE t == Inserted(w, r, r, idx)
             u == IF r + 1 > MemoryCells THEN Dropped(t, r + 1, 1) ELSE t
             m == IF r + 1 > MemoryCells THEN r ELSE r + 1
  <2>5. Good(d, m, u)
    BY <2>2 DEF PutOnTop
  <2> HIDE DEF d, u, m
  <2>6. /\ Good(cache', m, u) /\ cache'.cell = d.cell
        /\ save => cache'.file[idx].bitmap = bitmap
        /\ \A j \in Cells \ {idx} : cache'.file[j].bitmap = d.file[j].bitmap
    BY <2>4, <2>5, SaveIs
  <2>7. cache' \in Caches
    BY <2>6 DEF Good, Listed
  <2>8. CacheState'
    BY <1>1, <1>2, <2>6, <2>7 DEF IInv, CacheState
  <2>9. ServerState'
    BY <1>2, <2>3, <2>6, <2>7, BelievedAfterPut DEF PutKeeps
  <2>10. list = s /\ n \in Nat /\ s \in Lists(n)
    BY <1>2, <2>1, ListIs
  <2>11. list' = u
    <3>1. list' = Traversal(cache')
      BY <1>1, <1>2 DEF list
    <3> QED
      BY <2>6, <3>1, GoodTraversal
  <2>12. Lru!Store(idx)
    BY <2>2, <2>10, <2>11, StoreIs DEF u
  <2> QED
    BY <2>8, <2>9, <2>12 DEF IInv, ListStep, Lru!Next
<1>3. CASE ~persistent
  <2>1. cache' = [cache EXCEPT !.cell[idx].bitmap = bitmap]
    BY <1>3 DEF Put
  <2>2. cache \in Caches /\ bitmap \in Contents
    BY DEF IInv, CacheState, Contents
  <2>3. /\ cache' \in Caches /\ cache'.file = cache.file /\ cache'.lru = cache.lru
        /\ cache'.mru = cache.mru /\ cache'.count = cache.count
        /\ cache'.cell = [cache.cell EXCEPT ![idx].bitmap = bitmap]
    BY <2>1, <2>2 DEF Caches, CellStates
  <2>4. cache'.cell[idx].bitmap = bitmap /\ \A j \in Cells \ {idx} : cache'.cell[j] = cache.cell[j]
    BY <2>2, <2>3 DEF Caches, CellStates
  <2>5. CacheState'
    BY <1>1, <1>3, <2>3 DEF IInv, CacheState
  <2>6. ServerState'
    BY <1>3, <2>3, <2>4, BelievedAfterPut
  <2>7. list' = list
    BY <1>1, <1>3 DEF list
  <2> QED
    BY <2>5, <2>6, <2>7 DEF IInv, ListStep
<1> QED
    BY <1>2, <1>3

\* A cell that is drawn with is read from the file, moves on, or stays.
LEMMA DrawStep ==
    ASSUME IInv, NEW idx \in Cells, Draw(idx)
    PROVE  IInv' /\ ListStep
<1>1. /\ persistent /\ cache' = GetBitmap(cache, idx) /\ lost' = lost \cup LostNow(cache', unsaved)
      /\ persistent' = persistent /\ g_pstcache_enumerated' = g_pstcache_enumerated /\ oops' = oops
      /\ told' = told /\ unsaved' = unsaved /\ told[idx] # NULL
    BY DEF Draw
<1>2. PICK n, s : Good(cache, n, s)
    BY <1>1 DEF IInv, CacheState
<1>3. cache \in Caches
    BY DEF IInv, CacheState
<1>4. cache.cell[idx].bitmap = NULL => cache.file[idx].bitmap \in Bitmaps
    BY <1>1, <1>3 DEF Draw, Held, Caches, Files
<1>5. list = s /\ n \in Nat /\ s \in Lists(n)
    BY <1>1, <1>2, ListIs
<1>6. \/ cache.cell[idx].bitmap = NULL /\ cache' = PutBitmap(cache, idx, cache.file[idx].bitmap)
      \/ cache.cell[idx].bitmap # NULL /\ cache' = cache
      \/ /\ cache.cell[idx].bitmap # NULL /\ KeepsBitmaps(cache, cache')
         /\ \E m \in 1..(n - 1) : Good(cache', n, Moved(s, n, m))
    BY <1>1, <1>2, <1>4, GetBitmapIs
<1>7. list' = Traversal(cache')
    BY <1>1 DEF list
<1> DEFINE Fine == /\ cache' \in Caches /\ (\E m, t : Good(cache', m, t)) /\ ListStep
                   /\ \A j \in Cells : /\ cache'.file[j].bitmap = cache.file[j].bitmap
                                       /\ j \in Loaded(cache)' =>
                                             \/ cache'.cell[j].bitmap = cache.cell[j].bitmap
                                             \/ cache'.cell[j].bitmap = cache.file[j].bitmap
                                                /\ j \notin Loaded(cache)
<1>8. Fine
  <2>1. CASE cache.cell[idx].bitmap = NULL /\ cache' = PutBitmap(cache, idx, cache.file[idx].bitmap)
    <3> DEFINE bitmap == cache.file[idx].bitmap
    <3>1. bitmap \in Bitmaps
      BY <1>4, <2>1
    <3>2. PICK r, w : IsRest(s, n, idx, w, r) /\ PutOnTop(cache', r, Inserted(w, r, r, idx))
      BY <1>2, <2>1, <3>1, PutIsGood
    <3>3. PutKeeps(cache, cache', idx, bitmap)
      BY <1>2, <2>1, <3>1, PutIsGood
    <3> DEFINE t == Inserted(w, r, r, idx)
               u == IF r + 1 > MemoryCells THEN Dropped(t, r + 1, 1) ELSE t
               m == IF r + 1 > MemoryCells THEN r ELSE r + 1
    <3>4. Good(cache', m, u)
      BY <3>2 DEF PutOnTop
    <3> HIDE DEF m, u
    <3>5. list' = u /\ cache' \in Caches
      BY <1>7, <3>4, GoodTraversal DEF Good, Listed
    <3>6. Lru!Store(idx)
      BY <1>5, <3>2, <3>5, StoreIs DEF u
    <3>7. ListStep
      BY <3>6 DEF ListStep, Lru!Next
    <3> QED
      BY <2>1, <3>3, <3>4, <3>5, <3>7 DEF PutKeeps, Loaded
  <2>2. CASE cache.cell[idx].bitmap # NULL /\ cache' = cache
    <3>1. list' = list
      BY <1>1, <2>2 DEF list
    <3> QED
      BY <1>2, <1>3, <2>2, <3>1 DEF ListStep
  <2>3. CASE /\ cache.cell[idx].bitmap # NULL /\ KeepsBitmaps(cache, cache')
             /\ \E m \in 1..(n - 1) : Good(cache', n, Moved(s, n, m))
    <3>1. PICK m \in 1..(n - 1) : Good(cache', n, Moved(s, n, m))
      BY <2>3
    <3>2. list' = Moved(s, n, m)
      BY <1>7, <3>1, GoodTraversal
    <3>3. m \in 1..Len(list) /\ Lru!Use(m)
      BY <1>5, <3>2, UseIs
    <3>4. ListStep
      BY <3>3 DEF ListStep, Lru!Next
    <3> QED
      BY <2>3, <3>1, <3>4 DEF KeepsBitmaps, Loaded
  <2> QED
    BY <1>6, <2>1, <2>2, <2>3
<1>9. CacheState'
    BY <1>1, <1>8 DEF IInv, CacheState
<1>10. ServerState'
  <2>1. unsaved \subseteq Cells /\ lost \subseteq unsaved /\ lost' \subseteq unsaved'
    BY <1>1 DEF IInv, ServerState, LostNow
  <2>2. \A j \in unsaved' \ Loaded(cache)' : j \in lost'
    BY <1>1, <2>1 DEF LostNow, Loaded
  <2>3. ASSUME NEW j \in Cells PROVE Believed(j)'
    <3>1. Believed(j) /\ (j \in unsaved /\ j \notin Loaded(cache) => j \in lost)
      BY DEF IInv, ServerState
    <3>2. j \notin lost' => j \notin lost
      BY <1>1
    <3>3. cache'.file[j].bitmap = cache.file[j].bitmap
      BY <1>8
    <3>4. j \in Loaded(cache)' => \/ cache'.cell[j].bitmap = cache.cell[j].bitmap
                                  \/ cache'.cell[j].bitmap = cache.file[j].bitmap /\ j \notin Loaded(cache)
      BY <1>8
    <3>5. j \in Loaded(cache) <=> cache.cell[j].bitmap # NULL
      BY DEF Loaded
    <3>6. j \in Loaded(cache)' <=> cache'.cell[j].bitmap # NULL
      BY DEF Loaded
    <3> QED
      BY <1>1, <3>1, <3>2, <3>3, <3>4, <3>5, <3>6 DEF Believed
  <2> QED
    BY <1>1, <2>1, <2>2, <2>3 DEF IInv, ServerState
<1> QED
    BY <1>8, <1>9, <1>10 DEF IInv
-----------------------------------------------------------------------------
(* The theorems *)

LEMMA InitIsFine ==
    ASSUME Init
    PROVE  IInv /\ Lru!Init
<1> DEFINE file == [idx \in Cells |-> [bitmap |-> Blank, stamp |-> 0]]
<1>1. file \in Files
    BY CellAssumption DEF Files
<1>2. /\ cache = NoCells(file) /\ persistent = FALSE /\ g_pstcache_enumerated = FALSE /\ oops = FALSE
      /\ told = NothingTold /\ unsaved = {} /\ lost = {}
    BY DEF Init
<1> HIDE DEF file
<1>3. CacheState
    BY <1>1, <1>2, NoCellsIs DEF CacheState
<1>4. ServerState
    BY <1>2 DEF ServerState, Believed, NothingTold, Contents
<1> QED
    BY <1>2, <1>3, <1>4 DEF IInv, Lru!Init, list

\* Every step keeps the invariant and is a step of BitmapLru.
LEMMA StepIsFine ==
    ASSUME ~LateLock, IInv, [Next]_vars
    PROVE  IInv' /\ ListStep
<1>1. ASSUME NEW precache \in BOOLEAN, Enumerate(precache) PROVE IInv' /\ ListStep
    BY <1>1, EnumerateStep
<1>2. CASE ActivateWithoutKeys
    BY <1>2, ActivateStep
<1>3. ASSUME NEW put \in Puts, Put(put[1], put[2], put[3]) PROVE IInv' /\ ListStep
  <2>1. put[1] \in Cells /\ put[2] \in Bitmaps /\ put[3] \in BOOLEAN
    BY PutAssumption DEF Cells
  <2> QED
    BY <1>3, <2>1, PutStep
<1>4. ASSUME NEW idx \in Cells, Draw(idx) PROVE IInv' /\ ListStep
    BY <1>4, DrawStep
<1>5. ASSUME NEW saved \in BOOLEAN, Restart(saved) PROVE IInv' /\ ListStep
    BY <1>5, RestartStep
<1>6. CASE UNCHANGED vars
  <2>1. CacheState'
    BY <1>6 DEF vars, IInv, CacheState
  <2>2. ServerState'
    BY <1>6 DEF vars, serverVars, IInv, ServerState, Believed
  <2>3. list' = list
    BY <1>6 DEF vars, list
  <2> QED
    BY <2>1, <2>2, <2>3 DEF IInv, ListStep
<1> QED
    BY <1>1, <1>2, <1>3, <1>4, <1>5, <1>6 DEF Next, Running

\* The variables have their types, through evictions, reloads and restarts.
THEOREM CacheTypes ==
    ASSUME ~LateLock
    PROVE  Spec => []TypeOK
<1>1. IInv => TypeOK
  <2>1. IInv => cache.count \in 0..MemoryCells
    <3>1. ASSUME NEW n, NEW s, Good(cache, n, s) PROVE cache.count \in 0..MemoryCells
      BY <3>1, CellAssumption DEF Good, Listed, Linked
    <3> QED
      BY <3>1, CellAssumption DEF IInv, CacheState
  <2>2. IInv => /\ cache.cell \in [Cells -> [bitmap : Bitmaps \cup {NULL}, previous : Links, next : Links]]
                /\ cache.lru \in Links /\ cache.mru \in Links
                /\ cache.file \in [Cells -> [bitmap : Bitmaps \cup {Blank}, stamp : 0..MemoryCells]]
    BY DEF IInv, CacheState, Caches, CellStates, Contents, Files
  <2> QED
    BY <2>1, <2>2 DEF TypeOK, IInv, CacheState, ServerState, Contents
<1> QED
    BY <1>1, InitIsFine, StepIsFine, PTL DEF Spec

\* cache.c: the doubly linked list holds each cell with a bitmap once, its
\* backward links mirror the forward ones, and the count is its length.
THEOREM ListWellFormed ==
    ASSUME ~LateLock
    PROVE  Spec => []ListMatchesCells
<1>1. IInv => ListMatchesCells
  <2> SUFFICES ASSUME IInv, persistent
               PROVE  ListMatchesCells
    BY DEF ListMatchesCells
  <2>1. PICK n, s : Good(cache, n, s)
    BY DEF IInv, CacheState
  <2>2. /\ n \in Nat /\ s \in Lists(n) /\ Linked(cache, n, s) /\ Loaded(cache) = Members(s, n)
    BY <2>1 DEF Good, Listed
  <2>3. Traversal(cache) = s /\ Len(s) = n /\ DOMAIN s = 1..n
    BY <2>1, GoodTraversal
  <2>4. InMemory = Members(s, n) /\ ToSet(s) = Members(s, n)
    BY <2>2, <2>3 DEF InMemory, Loaded, ToSet, Members
  <2>5. cache.count = n /\ Cardinality(InMemory) = n
    BY <2>2, <2>4, MembersCounted DEF Linked
  <2>6. \A k \in 2..n : cache.cell[s[k]].previous = s[k - 1]
    BY <2>2 DEF Linked, At
  <2>7. n > 0 => cache.cell[s[1]].previous = NOT_SET /\ cache.mru = s[n]
    BY <2>2 DEF Linked, At
  <2> QED
    BY <2>3, <2>4, <2>5, <2>6, <2>7 DEF ListMatchesCells
<1> QED
    BY <1>1, InitIsFine, StepIsFine, PTL DEF Spec

\* pstcache.c: the server draws with the bitmap it put or was told of, except
\* where it came without a key and was evicted.
THEOREM DrawnAsPut ==
    ASSUME ~LateLock
    PROVE  Spec => []DrawsWhatWasPut
<1>1. IInv => DrawsWhatWasPut
  <2> SUFFICES ASSUME IInv, NEW idx \in Cells, told[idx] # NULL
               PROVE  Held(idx) = told[idx] \/ idx \in lost
    BY DEF DrawsWhatWasPut
  <2>1. Believed(idx) /\ (idx \in unsaved /\ idx \notin Loaded(cache) => idx \in lost)
    BY DEF IInv, ServerState
  <2>2. idx \in Loaded(cache) <=> cache.cell[idx].bitmap # NULL
    BY DEF Loaded
  <2>3. persistent \in BOOLEAN
    BY DEF IInv, CacheState
  <2> QED
    BY <2>1, <2>2, <2>3 DEF Believed, Held
<1> QED
    BY <1>1, InitIsFine, StepIsFine, PTL DEF Spec

\* The pointers of cache.c implement the list of BitmapLru: storing moves a
\* cell to the end, using it moves it on, and the first leaves a full list.
THEOREM ListInOrderOfUse ==
    ASSUME ~LateLock
    PROVE  Spec => KeepsOrderOfUse
<1>1. ASSUME IInv, [Next]_vars PROVE [Lru!Next]_list
    BY <1>1, StepIsFine DEF ListStep
<1> QED
    BY <1>1, InitIsFine, StepIsFine, PTL DEF Spec, KeepsOrderOfUse, Lru!Spec

\* pstcache_enumerate: a run begins with the bitmaps in the order of the stamps
\* that the last one left.
THEOREM SavedOrderKept ==
    ASSUME ~LateLock
    PROVE  Spec => StartsInSavedOrder
<1> DEFINE Sorted == (persistent' /\ ~persistent) =>
                        \A j, k \in DOMAIN list' : j < k => Earlier(cache.file, list'[j], list'[k])
<1>1. ASSUME IInv, [Next]_vars PROVE Sorted
  <2>1. SUFFICES ASSUME persistent', ~persistent
                 PROVE  \A j, k \in DOMAIN list' : j < k => Earlier(cache.file, list'[j], list'[k])
    OBVIOUS
  <2>2. \E precache \in BOOLEAN : Enumerate(precache)
    BY <1>1, <2>1 DEF Next, Running, ActivateWithoutKeys, Put, Draw, Restart, vars
  <2> QED
    BY <1>1, <2>2, EnumerateStep
<1> QED
    BY <1>1, InitIsFine, StepIsFine, PTL DEF Spec, StartsInSavedOrder

-----------------------------------------------------------------------------
(* Orders: bytes, and numbers of some bits *)

Digits(b) == b[1] + 2 * b[2] + 4 * b[3] + 8 * b[4] + 16 * b[5] + 32 * b[6] + 64 * b[7] + 128 * b[8]

\* A byte put together from eight digits has those digits as its bits.
LEMMA BitsOf ==
    ASSUME NEW b \in [1..8 -> {0, 1}]
    PROVE  /\ Digits(b) \in 0..255
           /\ \A i \in 0..7 : Bit(Digits(b), i) <=> b[i + 1] = 1
<1> DEFINE B == Digits(b)
<1>1. \A i \in 1..8 : b[i] \in {0, 1}
    OBVIOUS
<1>2. B \in 0..255
    BY <1>1 DEF Digits
<1>3. (B \div 1) % 2 = b[1]
    BY <1>1 DEF Digits
<1>4. (B \div 2) % 2 = b[2]
    BY <1>1 DEF Digits
<1>5. (B \div 4) % 2 = b[3]
    BY <1>1 DEF Digits
<1>6. (B \div 8) % 2 = b[4]
    BY <1>1 DEF Digits
<1>7. (B \div 16) % 2 = b[5]
    BY <1>1 DEF Digits
<1>8. (B \div 32) % 2 = b[6]
    BY <1>1 DEF Digits
<1>9. (B \div 64) % 2 = b[7]
    BY <1>1 DEF Digits
<1>10. (B \div 128) % 2 = b[8]
    BY <1>1 DEF Digits
<1> HIDE DEF B
<1>11. ASSUME NEW i \in 0..7 PROVE Bit(B, i) <=> b[i + 1] = 1
  <2> USE DEF Bit, BitValues
  <2>1. CASE i = 0 BY <1>3, <2>1
  <2>2. CASE i = 1 BY <1>4, <2>2
  <2>3. CASE i = 2 BY <1>5, <2>3
  <2>4. CASE i = 3 BY <1>6, <2>4
  <2>5. CASE i = 4 BY <1>7, <2>5
  <2>6. CASE i = 5 BY <1>8, <2>6
  <2>7. CASE i = 6 BY <1>9, <2>7
  <2>8. CASE i = 7 BY <1>10, <2>8
  <2> QED BY <2>1, <2>2, <2>3, <2>4, <2>5, <2>6, <2>7, <2>8
<1> QED
    BY <1>2, <1>11 DEF B

\* Numbers of two bytes, of one, and of the six bits of a small difference, with sign.
Small == -128..127
Tiny == -64..63

LEMMA RangeIs ==
    ASSUME NEW a \in Int, NEW b \in Int, NEW S, S = a..b
    PROVE  \A n : n \in S <=> n \in Int /\ a <= n /\ n <= b
    OBVIOUS

\* The ranges, by their ends.
LEMMA WholeIs ==
    /\ \A n : n \in Whole <=> n \in Int /\ -32768 <= n /\ n <= 32767
    /\ \A n : n \in Small <=> n \in Int /\ -128 <= n /\ n <= 127
    /\ \A n : n \in Tiny <=> n \in Int /\ -64 <= n /\ n <= 63
    /\ \A n : n \in Differences <=> n \in Int /\ -16384 <= n /\ n <= 16383
<1>1. \A n : n \in Whole <=> n \in Int /\ -32768 <= n /\ n <= 32767
  <2> DEFINE a == -32768
             b == 32767
  <2>1. a \in Int /\ b \in Int /\ Whole = a..b
    BY DEF Whole
  <2>2. \A n : n \in Whole <=> n \in Int /\ a <= n /\ n <= b
    <3> HIDE DEF a, b
    <3> QED
      BY <2>1, RangeIs
  <2> QED
    BY <2>2
<1>2. \A n : n \in Small <=> n \in Int /\ -128 <= n /\ n <= 127
    BY DEF Small
<1>3. \A n : n \in Tiny <=> n \in Int /\ -64 <= n /\ n <= 63
    BY DEF Tiny
<1>4. \A n : n \in Differences <=> n \in Int /\ -16384 <= n /\ n <= 16383
  <2> DEFINE a == -16384
             b == 16383
  <2>1. a \in Int /\ b \in Int /\ Differences = a..b
    BY DEF Differences
  <2>2. \A n : n \in Differences <=> n \in Int /\ a <= n /\ n <= b
    <3> HIDE DEF a, b
    <3> QED
      BY <2>1, RangeIs
  <2> QED
    BY <2>2
<1> QED
    BY <1>1, <1>2, <1>3, <1>4

\* A number of so many bits, read with its sign.
LEMMA SignedIs ==
    /\ \A n \in Whole : n % 65536 \in Nat /\ n % 65536 < 65536 /\ Signed(16, n % 65536) = n
    /\ \A n \in Small : n % 256 \in Nat /\ n % 256 < 256 /\ Signed(8, n % 256) = n
    /\ \A n \in Tiny : n % 128 \in Nat /\ n % 128 < 128 /\ Signed(7, n % 128) = n
<1>1. 2^15 = 32768 /\ 2^16 = 65536 /\ 2^7 = 128 /\ 2^8 = 256 /\ 2^6 = 64
    OBVIOUS
<1>2. /\ \A k \in Int : Signed(16, k) = IF k >= 32768 THEN k - 65536 ELSE k
      /\ \A k \in Int : Signed(8, k) = IF k >= 128 THEN k - 256 ELSE k
      /\ \A k \in Int : Signed(7, k) = IF k >= 64 THEN k - 128 ELSE k
    BY <1>1 DEF Signed
<1>3. ASSUME NEW n \in Whole
      PROVE  n % 65536 \in Nat /\ n % 65536 < 65536 /\ Signed(16, n % 65536) = n
  <2>1. n \in Int /\ -32768 <= n /\ n <= 32767
    BY WholeIs
  <2>2. n % 65536 = IF n < 0 THEN n + 65536 ELSE n
    BY <2>1
  <2> QED
    BY <1>2, <2>1, <2>2
<1>4. ASSUME NEW n \in Small
      PROVE  n % 256 \in Nat /\ n % 256 < 256 /\ Signed(8, n % 256) = n
  <2>1. n \in Int /\ -128 <= n /\ n <= 127
    BY WholeIs
  <2>2. n % 256 = IF n < 0 THEN n + 256 ELSE n
    BY <2>1
  <2> QED
    BY <1>2, <2>1, <2>2
<1>5. ASSUME NEW n \in Tiny
      PROVE  n % 128 \in Nat /\ n % 128 < 128 /\ Signed(7, n % 128) = n
  <2>1. n \in Int /\ -64 <= n /\ n <= 63
    BY WholeIs
  <2>2. n % 128 = IF n < 0 THEN n + 128 ELSE n
    BY <2>1
  <2> QED
    BY <1>2, <2>1, <2>2
<1> QED
    BY <1>3, <1>4, <1>5

\* What stands at place p of a stream.
Written(s, p, l) == \A i \in 1..Len(l) : s[p + i - 1] = l[i]

\* A coordinate, written whole or as a difference.
LEMMA CoordRead ==
    ASSUME NEW s, NEW p \in Nat, NEW delta \in BOOLEAN,
           NEW value \in Whole, NEW old \in Whole, delta => Near(value, old),
           Written(s, p, WriteField("coord", value, old, delta))
    PROVE  rdp_in_coord(s, p, old, delta) = [p |-> p + 1, value |-> value]
<1>1. s[p] = IF delta THEN (value - old) % 256 ELSE value % 65536
  <2>1. 1 \in 1..1 /\ p + 1 - 1 = p
    OBVIOUS
  <2>2. WriteField("coord", value, old, delta) = <<IF delta THEN (value - old) % 256 ELSE value % 65536>>
    BY DEF WriteField, WriteDelta, WriteCoord
  <2> QED
    BY <2>1, <2>2 DEF Written
<1>2. CASE delta
  <2>1. s[p] = (value - old) % 256 /\ value - old \in Small
    BY <1>1, <1>2 DEF Near, Small
  <2>2. Signed(8, s[p]) = value - old
    BY <2>1, SignedIs
  <2>3. old + (value - old) = value
    BY WholeIs
  <2>4. Signed(16, (old + Signed(8, s[p])) % 65536) = value
    BY <2>2, <2>3, SignedIs
  <2> QED
    BY <1>2, <2>4 DEF rdp_in_coord
<1>3. CASE ~delta
  <2>1. s[p] = value % 65536
    BY <1>1, <1>3
  <2>2. Signed(16, s[p]) = value
    BY <2>1, SignedIs
  <2> QED
    BY <1>3, <2>2 DEF rdp_in_coord
<1> QED
    BY <1>2, <1>3

\* A difference of two points.
LEMMA DifferenceRead ==
    ASSUME NEW data, NEW p \in Nat, NEW value \in Differences,
           Written(data, p, WriteDifference(value))
    PROVE  parse_delta(data, p) = [p |-> p + Len(WriteDifference(value)), value |-> value]
<1>1. CASE value \in Tiny
  <2>1. WriteDifference(value) = <<value % 128>>
    BY <1>1 DEF WriteDifference, Tiny
  <2>2. data[p] = value % 128
    <3>1. 1 \in 1..1 /\ p + 1 - 1 = p
      OBVIOUS
    <3> QED
      BY <2>1, <3>1 DEF Written
  <2>3. data[p] \in Nat /\ data[p] < 128 /\ Signed(7, data[p]) = value
    BY <1>1, <2>2, SignedIs
  <2>4. data[p] % 128 = data[p] /\ ~(data[p] >= 128)
    BY <2>3
  <2>5. Len(<<value % 128>>) = 1
    OBVIOUS
  <2> QED
    BY <2>1, <2>3, <2>4, <2>5 DEF parse_delta
<1>2. CASE value \notin Tiny
  <2> DEFINE high == 128 + ((value % 32768) \div 256)
             low == value % 256
             q == value \div 256
  <2>1. WriteDifference(value) = <<high, low>>
    BY <1>2 DEF WriteDifference, Tiny
  <2>2. data[p] = high /\ data[p + 1] = low
    <3>1. 1 \in 1..2 /\ 2 \in 1..2 /\ p + 1 - 1 = p /\ p + 2 - 1 = p + 1
      OBVIOUS
    <3> HIDE DEF high, low
    <3> QED
      BY <2>1, <3>1 DEF Written
  <2>3. value \in Int /\ -16384 <= value /\ value <= 16383
    BY WholeIs
  <2>4. q \in Int /\ -64 <= q /\ q <= 63 /\ q * 256 + low = value
    BY <2>3
  <2>5. high = 128 + (q % 128)
    <3>1. CASE value < 0
      <4>1. value % 32768 = value + 32768 /\ (value + 32768) \div 256 = q + 128
        BY <2>3, <3>1
      <4>2. q % 128 = q + 128
        BY <2>3, <2>4, <3>1
      <4> QED
        BY <4>1, <4>2
    <3>2. CASE value >= 0
      <4>1. value % 32768 = value
        BY <2>3, <3>2
      <4>2. q % 128 = q
        BY <2>3, <2>4, <3>2
      <4> QED
        BY <4>1, <4>2
    <3> QED
      BY <2>3, <3>1, <3>2
  <2>6. q % 128 \in Nat /\ q % 128 < 128 /\ Signed(7, q % 128) = q
    BY <2>4, SignedIs, WholeIs
  <2>7. Len(<<high, low>>) = 2
    OBVIOUS
  <2> HIDE DEF high, low, q
  <2>8. high % 128 = q % 128 /\ high >= 128
    BY <2>5, <2>6
  <2> QED
    BY <2>1, <2>2, <2>4, <2>6, <2>7, <2>8 DEF parse_delta
<1> QED
    BY <1>1, <1>2

-----------------------------------------------------------------------------
(* Orders: which fields are there *)

\* Each bit of the bytes in front says whether a field is there.
LEMMA PresentBits ==
    ASSUME NEW size \in Nat, NEW changed
    PROVE  /\ WritePresent(size, changed) \in Seq(Int) /\ Len(WritePresent(size, changed)) = size
           /\ \A k \in 1..size, i \in 0..7 :
                 Bit(WritePresent(size, changed)[k], i) <=> 8 * (k - 1) + i + 1 \in changed
<1> DEFINE W == WritePresent(size, changed)
           d(k) == [j \in 1..8 |-> IF 8 * (k - 1) + j \in changed THEN 1 ELSE 0]
<1>1. \A k \in 1..size : d(k) \in [1..8 -> {0, 1}]
    OBVIOUS
<1>2. ASSUME NEW k \in 1..size PROVE W[k] = Digits(d(k))
  <2> DEFINE bit(i) == IF i \in changed THEN BitValues[((i - 1) % 8) + 1] ELSE 0
  <2>1. W[k] = bit(8 * k - 7) + bit(8 * k - 6) + bit(8 * k - 5) + bit(8 * k - 4)
               + bit(8 * k - 3) + bit(8 * k - 2) + bit(8 * k - 1) + bit(8 * k)
    BY DEF WritePresent
  <2>2. /\ ((8 * k - 7 - 1) % 8) + 1 = 1 /\ ((8 * k - 6 - 1) % 8) + 1 = 2
        /\ ((8 * k - 5 - 1) % 8) + 1 = 3 /\ ((8 * k - 4 - 1) % 8) + 1 = 4
        /\ ((8 * k - 3 - 1) % 8) + 1 = 5 /\ ((8 * k - 2 - 1) % 8) + 1 = 6
        /\ ((8 * k - 1 - 1) % 8) + 1 = 7 /\ ((8 * k - 1) % 8) + 1 = 8
    OBVIOUS
  <2>3. /\ bit(8 * k - 7) = 1 * d(k)[1] /\ bit(8 * k - 6) = 2 * d(k)[2]
        /\ bit(8 * k - 5) = 4 * d(k)[3] /\ bit(8 * k - 4) = 8 * d(k)[4]
        /\ bit(8 * k - 3) = 16 * d(k)[5] /\ bit(8 * k - 2) = 32 * d(k)[6]
        /\ bit(8 * k - 1) = 64 * d(k)[7] /\ bit(8 * k) = 128 * d(k)[8]
    <3>1. /\ 8 * (k - 1) + 1 = 8 * k - 7 /\ 8 * (k - 1) + 2 = 8 * k - 6
          /\ 8 * (k - 1) + 3 = 8 * k - 5 /\ 8 * (k - 1) + 4 = 8 * k - 4
          /\ 8 * (k - 1) + 5 = 8 * k - 3 /\ 8 * (k - 1) + 6 = 8 * k - 2
          /\ 8 * (k - 1) + 7 = 8 * k - 1 /\ 8 * (k - 1) + 8 = 8 * k
      OBVIOUS
    <3>2. /\ bit(8 * k - 7) = IF 8 * k - 7 \in changed THEN 1 ELSE 0
          /\ bit(8 * k - 6) = IF 8 * k - 6 \in changed THEN 2 ELSE 0
          /\ bit(8 * k - 5) = IF 8 * k - 5 \in changed THEN 4 ELSE 0
          /\ bit(8 * k - 4) = IF 8 * k - 4 \in changed THEN 8 ELSE 0
          /\ bit(8 * k - 3) = IF 8 * k - 3 \in changed THEN 16 ELSE 0
          /\ bit(8 * k - 2) = IF 8 * k - 2 \in changed THEN 32 ELSE 0
          /\ bit(8 * k - 1) = IF 8 * k - 1 \in changed THEN 64 ELSE 0
          /\ bit(8 * k) = IF 8 * k \in changed THEN 128 ELSE 0
      BY <2>2 DEF BitValues
    <3> HIDE DEF bit
    <3> QED
      BY <3>1, <3>2
  <2> HIDE DEF bit
  <2>4. \A j \in 1..8 : d(k)[j] \in {0, 1}
    OBVIOUS
  <2> HIDE DEF d, W
  <2> QED
    BY <2>1, <2>3, <2>4 DEF Digits
<1>3. ASSUME NEW k \in 1..size PROVE W[k] \in Int
  <2>1. d(k) \in [1..8 -> {0, 1}] /\ W[k] = Digits(d(k))
    BY <1>1, <1>2
  <2> HIDE DEF d, W
  <2>2. Digits(d(k)) \in 0..255
    BY <2>1, BitsOf
  <2> QED
    BY <2>1, <2>2
<1>4. W \in [1..size -> Int]
    BY <1>3 DEF WritePresent
<1>5. ASSUME NEW k \in 1..size, NEW i \in 0..7
      PROVE  Bit(W[k], i) <=> 8 * (k - 1) + i + 1 \in changed
  <2>1. Bit(Digits(d(k)), i) <=> d(k)[i + 1] = 1
    <3>1. d(k) \in [1..8 -> {0, 1}]
      BY <1>1
    <3> HIDE DEF d
    <3> QED
      BY <3>1, BitsOf
  <2>2. 8 * (k - 1) + (i + 1) = 8 * (k - 1) + i + 1 /\ i + 1 \in 1..8
    OBVIOUS
  <2>3. d(k)[i + 1] = 1 <=> 8 * (k - 1) + i + 1 \in changed
    BY <2>2
  <2> HIDE DEF d, W
  <2> QED
    BY <1>2, <2>1, <2>3
<1> HIDE DEF W
<1> QED
    BY <1>4, <1>5, SeqOfLength DEF W

\* How many of them the flags leave.
LeftOf(flags, size) ==
    LET small == IF "SMALL" \in flags THEN size - 1 ELSE size
    IN  IF "TINY" \notin flags THEN small ELSE IF small < 2 THEN 0 ELSE small - 2

LEMMA LeftIs ==
    ASSUME NEW flags, NEW size \in 1..3, NEW spare \in 0..size,
           "SMALL" \in flags <=> spare \in {1, 3}, "TINY" \in flags <=> spare \in {2, 3}
    PROVE  LeftOf(flags, size) = size - spare
<1>1. CASE spare = 0 BY <1>1 DEF LeftOf
<1>2. CASE spare = 1 BY <1>2 DEF LeftOf
<1>3. CASE spare = 2 BY <1>3 DEF LeftOf
<1>4. CASE spare = 3 BY <1>4 DEF LeftOf
<1> QED
    BY <1>1, <1>2, <1>3, <1>4

\* The program finds the fields that have changed.
LEMMA PresentRead ==
    ASSUME NEW s, NEW p \in Nat, NEW flags, NEW size \in 1..3, NEW spare \in 0..size,
           "SMALL" \in flags <=> spare \in {1, 3}, "TINY" \in flags <=> spare \in {2, 3},
           NEW changed, \A i \in changed : i \in 1..(8 * (size - spare)),
           Written(s, p, SubSeq(WritePresent(size, changed), 1, size - spare))
    PROVE  /\ rdp_in_present(s, p, flags, size) = [p |-> p + (size - spare), value |-> changed]
           /\ Len(SubSeq(WritePresent(size, changed), 1, size - spare)) = size - spare
           /\ SubSeq(WritePresent(size, changed), 1, size - spare) \in Seq(Int)
<1> DEFINE left == size - spare
           W == WritePresent(size, changed)
           F == SubSeq(W, 1, left)
           there == {i \in 1..(8 * left) : Bit(s[p + (i - 1) \div 8], (i - 1) % 8)}
<1>1. size \in Nat /\ left \in Nat /\ left <= size
    OBVIOUS
<1>2. LeftOf(flags, size) = left
    BY LeftIs
<1>3. rdp_in_present(s, p, flags, size) = [p |-> p + left, value |-> there]
  <2>1. rdp_in_present(s, p, flags, size) =
           [p |-> p + LeftOf(flags, size),
            value |-> {i \in 1..(8 * LeftOf(flags, size)) : Bit(s[p + (i - 1) \div 8], (i - 1) % 8)}]
    BY DEF rdp_in_present, LeftOf
  <2> HIDE DEF left
  <2> QED
    BY <1>2, <2>1
<1>4. /\ W \in Seq(Int) /\ Len(W) = size
      /\ \A k \in 1..size, i \in 0..7 : Bit(W[k], i) <=> 8 * (k - 1) + i + 1 \in changed
    BY <1>1, PresentBits
<1>5. Written(s, p, F) /\ \A i \in changed : i \in 1..(8 * left)
    OBVIOUS
<1> HIDE DEF W, left
<1>6. F \in Seq(Int) /\ Len(F) = left /\ \A k \in 1..left : F[k] = W[k]
    BY <1>1, <1>4, FrontIs
<1> HIDE DEF F
<1>7. ASSUME NEW i \in 1..(8 * left)
      PROVE  Bit(s[p + (i - 1) \div 8], (i - 1) % 8) <=> i \in changed
  <2> DEFINE k == (i - 1) \div 8 + 1
             j == (i - 1) % 8
  <2>1. /\ k \in 1..left /\ k \in 1..size /\ j \in 0..7 /\ 8 * (k - 1) + j + 1 = i
        /\ p + k - 1 = p + (i - 1) \div 8
    <3>1. i \in Int /\ 0 <= i - 1 /\ i - 1 < 8 * left /\ left \in Int
      BY <1>1
    <3>2. (i - 1) \div 8 \in Int /\ j \in Int /\ 8 * ((i - 1) \div 8) + j = i - 1 /\ 0 <= j /\ j < 8
      BY <3>1
    <3> DEFINE q == (i - 1) \div 8
    <3> HIDE DEF q, j
    <3>3. q \in Int /\ j \in Int /\ 8 * q + j = i - 1 /\ 0 <= j /\ j < 8
      BY <3>2 DEF q
    <3>4. 0 <= q /\ q < left
      BY <3>1, <3>3
    <3>5. /\ q + 1 \in 1..left /\ q + 1 \in 1..size /\ j \in 0..7 /\ 8 * (q + 1 - 1) + j + 1 = i
          /\ p + (q + 1) - 1 = p + q
      BY <1>1, <3>1, <3>3, <3>4
    <3> QED
      BY <3>5 DEF q
  <2> HIDE DEF k, j
  <2>2. s[p + k - 1] = F[k] /\ F[k] = W[k]
    BY <1>5, <1>6, <2>1 DEF Written
  <2>3. Bit(s[p + k - 1], j) <=> 8 * (k - 1) + j + 1 \in changed
    BY <1>4, <2>1, <2>2
  <2> QED
    BY <2>1, <2>3 DEF j
<1>8. there = changed
    BY <1>5, <1>7
<1> HIDE DEF there
<1> QED
    BY <1>3, <1>6, <1>8 DEF left, F, W

-----------------------------------------------------------------------------
(* Orders: the kinds *)

\* All fields but those of lists of points and of text.
Plain == {"uint8", "uint8x7", "uint8x2", "uint16", "uint32", "coord", "colour", "rop2", "unused"}
Texty == Plain \cup {"data"}
Fields == Texty \cup {"npoints"}

\* The fields of a kind, and how many.
Has(s, S, n) == s \in Seq(S) /\ Len(s) = n

\* The parts the kinds are made of, and how long they are.
LEMMA PartsAre ==
    /\ Has(Corners, Plain, 4) /\ Has(Brush, Plain, 5) /\ Has(Pen, Plain, 3)
    /\ Has(<<"uint8">>, Plain, 1) /\ Has(<<"uint16">>, Plain, 1)
    /\ Has(<<"uint32">>, Plain, 1) /\ Has(<<"uint8x2">>, Plain, 1)
    /\ Has(<<"uint8", "colour", "colour">>, Plain, 3) /\ Has(<<"uint8", "coord", "coord">>, Plain, 3)
    /\ Has(<<"colour", "rop2">>, Plain, 2) /\ Has(<<"uint8", "uint8", "uint8">>, Plain, 3)
    /\ Has(<<"uint8", "coord", "coord", "uint16">>, Plain, 4)
    /\ Has(<<"uint8", "coord", "coord", "colour", "colour">>, Plain, 5)
    /\ Has(<<"uint16", "uint16">>, Plain, 2) /\ Has(<<"uint8", "uint8", "colour">>, Plain, 3)
    /\ Has(<<"uint8", "uint8", "colour", "colour">>, Plain, 4)
<1> USE DEF Has, Plain
<1>1. Has(Corners, Plain, 4) /\ Has(Brush, Plain, 5) /\ Has(Pen, Plain, 3)
    BY DEF Corners, Brush, Pen
<1>2. /\ Has(<<"uint8">>, Plain, 1) /\ Has(<<"uint16">>, Plain, 1)
      /\ Has(<<"uint32">>, Plain, 1) /\ Has(<<"uint8x2">>, Plain, 1)
    OBVIOUS
<1>3. /\ Has(<<"uint8", "colour", "colour">>, Plain, 3) /\ Has(<<"uint8", "coord", "coord">>, Plain, 3)
      /\ Has(<<"colour", "rop2">>, Plain, 2) /\ Has(<<"uint8", "uint8", "uint8">>, Plain, 3)
    OBVIOUS
<1>4. /\ Has(<<"uint8", "coord", "coord", "uint16">>, Plain, 4)
      /\ Has(<<"uint8", "coord", "coord", "colour", "colour">>, Plain, 5)
    OBVIOUS
<1>5. /\ Has(<<"uint16", "uint16">>, Plain, 2) /\ Has(<<"uint8", "uint8", "colour">>, Plain, 3)
      /\ Has(<<"uint8", "uint8", "colour", "colour">>, Plain, 4)
    OBVIOUS
<1> HIDE DEF Has
<1> QED
    BY <1>1, <1>2, <1>3, <1>4, <1>5

LEMMA HasBoth ==
    ASSUME NEW S, NEW s, NEW t, NEW m \in Nat, NEW n \in Nat, Has(s, S, m), Has(t, S, n)
    PROVE  Has(s \o t, S, m + n)
    BY BehindIs DEF Has

LEMMA LastOfBoth ==
    ASSUME NEW S, NEW s \in Seq(S), NEW t \in Seq(S), NEW m \in Nat, NEW n \in Nat,
           Len(s) = m, Len(t) = n, n > 0
    PROVE  (s \o t)[m + n] = t[n]
<1>1. m + n \in 1..(m + n) /\ ~(m + n <= m) /\ m + n - m = n
    OBVIOUS
<1>2. \A j \in 1..(Len(s) + Len(t)) : (s \o t)[j] = IF j <= Len(s) THEN s[j] ELSE t[j - Len(s)]
    BY ConcatProperties
<1> QED
    BY <1>1, <1>2

\* The kinds without a list of points or a text.
LEMMA KindsAre ==
    /\ Has(Destblt, Plain, 5) /\ Has(Patblt, Plain, 12) /\ Has(Screenblt, Plain, 7)
    /\ Has(Line, Plain, 10) /\ Has(Rect, Plain, 7) /\ Has(Desksave, Plain, 6)
    /\ Has(Memblt, Plain, 9) /\ Has(Triblt, Plain, 17) /\ Has(Ellipse, Plain, 7)
    /\ Has(Ellipse2, Plain, 13)
<1>1. Has(Destblt, Plain, 5)
    BY PartsAre, HasBoth DEF Destblt
<1>2. Has(Patblt, Plain, 12)
  <2>1. Has(Corners \o <<"uint8", "colour", "colour">>, Plain, 4 + 3)
    BY PartsAre, HasBoth
  <2>2. Has(Corners \o <<"uint8", "colour", "colour">> \o Brush, Plain, (4 + 3) + 5)
    BY <2>1, PartsAre, HasBoth
  <2> QED
    BY <2>2 DEF Patblt
<1>3. Has(Screenblt, Plain, 7)
    BY PartsAre, HasBoth DEF Screenblt
<1>4. Has(Line, Plain, 10)
  <2>1. Has(<<"uint16">> \o Corners, Plain, 1 + 4)
    BY PartsAre, HasBoth
  <2>2. Has(<<"uint16">> \o Corners \o <<"colour", "rop2">>, Plain, (1 + 4) + 2)
    BY <2>1, PartsAre, HasBoth
  <2>3. Has(<<"uint16">> \o Corners \o <<"colour", "rop2">> \o Pen, Plain, ((1 + 4) + 2) + 3)
    BY <2>2, PartsAre, HasBoth
  <2> QED
    BY <2>3 DEF Line
<1>5. Has(Rect, Plain, 7)
    BY PartsAre, HasBoth DEF Rect
<1>6. Has(Desksave, Plain, 6)
  <2>1. Has(<<"uint32">> \o Corners, Plain, 1 + 4)
    BY PartsAre, HasBoth
  <2>2. Has(<<"uint32">> \o Corners \o <<"uint8">>, Plain, (1 + 4) + 1)
    BY <2>1, PartsAre, HasBoth
  <2> QED
    BY <2>2 DEF Desksave
<1>7. Has(<<"uint8x2">> \o Corners, Plain, 1 + 4)
    BY PartsAre, HasBoth
<1>8. Has(Memblt, Plain, 9)
  <2>1. Has(<<"uint8x2">> \o Corners \o <<"uint8", "coord", "coord", "uint16">>, Plain, (1 + 4) + 4)
    BY <1>7, PartsAre, HasBoth
  <2> QED
    BY <2>1 DEF Memblt
<1>9. Has(Triblt, Plain, 17)
  <2> DEFINE front == <<"uint8x2">> \o Corners \o <<"uint8", "coord", "coord", "colour", "colour">>
  <2>1. Has(front, Plain, (1 + 4) + 5)
    BY <1>7, PartsAre, HasBoth
  <2> HIDE DEF front
  <2>2. Has(front \o Brush, Plain, ((1 + 4) + 5) + 5)
    BY <2>1, PartsAre, HasBoth
  <2>3. Has(front \o Brush \o <<"uint16", "uint16">>, Plain, (((1 + 4) + 5) + 5) + 2)
    BY <2>2, PartsAre, HasBoth
  <2> QED
    BY <2>3 DEF Triblt, front
<1>10. Has(Ellipse, Plain, 7)
    BY PartsAre, HasBoth DEF Ellipse
<1>11. Has(Ellipse2, Plain, 13)
  <2>1. Has(Corners \o <<"uint8", "uint8", "colour", "colour">>, Plain, 4 + 4)
    BY PartsAre, HasBoth
  <2>2. Has(Corners \o <<"uint8", "uint8", "colour", "colour">> \o Brush, Plain, (4 + 4) + 5)
    BY <2>1, PartsAre, HasBoth
  <2> QED
    BY <2>2 DEF Ellipse2
<1> QED
    BY <1>1, <1>2, <1>3, <1>4, <1>5, <1>6, <1>8, <1>9, <1>10, <1>11

\* A line or polygon has points, and text has data without them.
LEMMA ListsAre ==
    /\ Has(Polygon, Fields, 7) /\ Polygon[7] = "data"
    /\ Has(Polyline, Fields, 7) /\ Polyline[7] = "data"
    /\ Has(Polygon2, Fields, 13) /\ Polygon2[13] = "data"
    /\ Has(Text2, Texty, 22)
<1>1. Has(Polygon, Fields, 7) /\ Polygon[7] = "data"
    BY DEF Has, Polygon, Fields, Texty, Plain
<1>2. Has(Polyline, Fields, 7) /\ Polyline[7] = "data"
    BY DEF Has, Polyline, Fields, Texty, Plain
<1>3. Has(Brush, Fields, 5) /\ Has(Brush, Texty, 5)
    BY DEF Has, Brush, Fields, Texty, Plain
<1>4. Has(Polygon2, Fields, 13) /\ Polygon2[13] = "data"
  <2> DEFINE front == <<"coord", "coord", "rop2", "uint8", "colour", "colour">>
             both == front \o Brush
             last == <<"npoints", "data">>
  <2>1. Has(front, Fields, 6) /\ Has(last, Fields, 2) /\ last[2] = "data"
    BY DEF Has, Fields, Texty, Plain
  <2> HIDE DEF front, last
  <2>2. Has(both, Fields, 6 + 5)
    BY <1>3, <2>1, HasBoth
  <2> HIDE DEF both
  <2>3. Has(both \o last, Fields, (6 + 5) + 2)
    BY <2>1, <2>2, HasBoth
  <2> DEFINE m == 11
             n == 2
             k == 13
  <2>4. /\ m \in Nat /\ n \in Nat /\ k = m + n /\ n > 0
        /\ both \in Seq(Fields) /\ last \in Seq(Fields) /\ Len(both) = m /\ Len(last) = n
    BY <2>1, <2>2 DEF Has
  <2>5. (both \o last)[k] = last[n]
    <3> HIDE DEF m, n, k
    <3> QED
      BY <2>4, LastOfBoth
  <2>6. Has(both \o last, Fields, 13)
    BY <2>3
  <2> QED
    BY <2>1, <2>5, <2>6 DEF Polygon2, front, both, last
<1>5. Has(Text2, Texty, 22)
  <2> DEFINE front == <<"uint8", "uint8", "uint8", "uint8", "colour", "colour">>
             words == [i \in 1..8 |-> "uint16"]
             last == <<"uint16", "uint16", "data">>
  <2>1. Has(front, Texty, 6) /\ Has(last, Texty, 3)
    BY DEF Has, Texty, Plain
  <2>2. Has(words, Texty, 8)
    BY SeqOfLength DEF Has, Texty, Plain
  <2> HIDE DEF front, last, words
  <2>3. Has(front \o words, Texty, 6 + 8)
    BY <2>1, <2>2, HasBoth
  <2>4. Has(front \o words \o Brush, Texty, (6 + 8) + 5)
    BY <1>3, <2>3, HasBoth
  <2>5. Has(front \o words \o Brush \o last, Texty, ((6 + 8) + 5) + 3)
    BY <2>1, <2>4, HasBoth
  <2> QED
    BY <2>5 DEF Text2, front, words, last
<1> QED
    BY <1>1, <1>2, <1>4, <1>5

\* What the proofs need of the kinds: how many fields each has, and that a list
\* of points stands in its data field.
KindTypeOK(t) ==
    /\ FieldsOf[t] \in Seq(Fields) /\ Len(FieldsOf[t]) \in 1..22
    /\ (Len(FieldsOf[t]) + 7) \div 8 = PresentSize(t) /\ PresentSize(t) \in 1..3
    /\ Places(t, "npoints") # {} => Places(t, "data") # {}

\* A kind without a list of points is as the proofs need it.
LEMMA PlainKind ==
    ASSUME NEW t, NEW n \in 1..22, Has(FieldsOf[t], Texty, n), (n + 7) \div 8 = PresentSize(t)
    PROVE  KindTypeOK(t)
<1>1. FieldsOf[t] \in Seq(Texty) /\ Len(FieldsOf[t]) = n
    BY DEF Has
<1>2. FieldsOf[t] \in Seq(Fields)
    BY <1>1, SeqMonotonic DEF Fields
<1>3. \A i \in DOMAIN FieldsOf[t] : FieldsOf[t][i] \in Texty
    BY <1>1, LenProperties
<1>4. Places(t, "npoints") = {}
  <2>1. "npoints" \notin Texty
    BY DEF Texty, Plain
  <2> QED
    BY <1>3, <2>1 DEF Places
<1>5. (n + 7) \div 8 \in 1..3
    OBVIOUS
<1> QED
    BY <1>1, <1>2, <1>4, <1>5 DEF KindTypeOK

\* A kind whose last field is a list of points is, too.
LEMMA PointsKind ==
    ASSUME NEW t, NEW n \in 1..22, Has(FieldsOf[t], Fields, n), FieldsOf[t][n] = "data",
           (n + 7) \div 8 = PresentSize(t)
    PROVE  KindTypeOK(t)
<1>1. FieldsOf[t] \in Seq(Fields) /\ Len(FieldsOf[t]) = n
    BY DEF Has
<1>2. n \in DOMAIN FieldsOf[t]
    BY <1>1, LenProperties
<1>3. n \in Places(t, "data")
    BY <1>2 DEF Places
<1>4. (n + 7) \div 8 \in 1..3
    OBVIOUS
<1> QED
    BY <1>1, <1>3, <1>4 DEF KindTypeOK

\* All kinds are.
LEMMA KindsOK == \A t \in DOMAIN FieldsOf : KindTypeOK(t)
<1>1. DOMAIN FieldsOf = {"DESTBLT", "PATBLT", "SCREENBLT", "LINE", "RECT", "DESKSAVE", "MEMBLT",
                         "TRIBLT", "POLYGON", "POLYGON2", "POLYLINE", "ELLIPSE", "ELLIPSE2", "TEXT2"}
    BY DEF FieldsOf
<1>2. /\ FieldsOf["DESTBLT"] = Destblt /\ FieldsOf["PATBLT"] = Patblt
      /\ FieldsOf["SCREENBLT"] = Screenblt /\ FieldsOf["LINE"] = Line
      /\ FieldsOf["RECT"] = Rect /\ FieldsOf["DESKSAVE"] = Desksave
      /\ FieldsOf["MEMBLT"] = Memblt /\ FieldsOf["TRIBLT"] = Triblt
      /\ FieldsOf["POLYGON"] = Polygon /\ FieldsOf["POLYGON2"] = Polygon2
      /\ FieldsOf["POLYLINE"] = Polyline /\ FieldsOf["ELLIPSE"] = Ellipse
      /\ FieldsOf["ELLIPSE2"] = Ellipse2 /\ FieldsOf["TEXT2"] = Text2
    BY DEF FieldsOf
<1>3. \A s, n : Has(s, Plain, n) => Has(s, Texty, n)
    BY SeqMonotonic DEF Has, Texty
<1>4. KindTypeOK("DESTBLT")
  <2>1. PresentSize("DESTBLT") = 1 /\ (5 + 7) \div 8 = 1
    BY DEF PresentSize
  <2> QED
    BY <1>2, <1>3, <2>1, KindsAre, PlainKind
<1>5. KindTypeOK("PATBLT")
  <2>1. PresentSize("PATBLT") = 2 /\ (12 + 7) \div 8 = 2
    BY DEF PresentSize
  <2> QED
    BY <1>2, <1>3, <2>1, KindsAre, PlainKind
<1>6. KindTypeOK("SCREENBLT")
  <2>1. PresentSize("SCREENBLT") = 1 /\ (7 + 7) \div 8 = 1
    BY DEF PresentSize
  <2> QED
    BY <1>2, <1>3, <2>1, KindsAre, PlainKind
<1>7. KindTypeOK("LINE")
  <2>1. PresentSize("LINE") = 2 /\ (10 + 7) \div 8 = 2
    BY DEF PresentSize
  <2> QED
    BY <1>2, <1>3, <2>1, KindsAre, PlainKind
<1>8. KindTypeOK("RECT")
  <2>1. PresentSize("RECT") = 1 /\ (7 + 7) \div 8 = 1
    BY DEF PresentSize
  <2> QED
    BY <1>2, <1>3, <2>1, KindsAre, PlainKind
<1>9. KindTypeOK("DESKSAVE")
  <2>1. PresentSize("DESKSAVE") = 1 /\ (6 + 7) \div 8 = 1
    BY DEF PresentSize
  <2> QED
    BY <1>2, <1>3, <2>1, KindsAre, PlainKind
<1>10. KindTypeOK("MEMBLT")
  <2>1. PresentSize("MEMBLT") = 2 /\ (9 + 7) \div 8 = 2
    BY DEF PresentSize
  <2> QED
    BY <1>2, <1>3, <2>1, KindsAre, PlainKind
<1>11. KindTypeOK("TRIBLT")
  <2>1. PresentSize("TRIBLT") = 3 /\ (17 + 7) \div 8 = 3
    BY DEF PresentSize
  <2> QED
    BY <1>2, <1>3, <2>1, KindsAre, PlainKind
<1>12. KindTypeOK("POLYGON")
  <2>1. PresentSize("POLYGON") = 1 /\ (7 + 7) \div 8 = 1
    BY DEF PresentSize
  <2> QED
    BY <1>2, <2>1, ListsAre, PointsKind
<1>13. KindTypeOK("POLYGON2")
  <2>1. PresentSize("POLYGON2") = 2 /\ (13 + 7) \div 8 = 2
    BY DEF PresentSize
  <2> QED
    BY <1>2, <2>1, ListsAre, PointsKind
<1>14. KindTypeOK("POLYLINE")
  <2>1. PresentSize("POLYLINE") = 1 /\ (7 + 7) \div 8 = 1
    BY DEF PresentSize
  <2> QED
    BY <1>2, <2>1, ListsAre, PointsKind
<1>15. KindTypeOK("ELLIPSE")
  <2>1. PresentSize("ELLIPSE") = 1 /\ (7 + 7) \div 8 = 1
    BY DEF PresentSize
  <2> QED
    BY <1>2, <1>3, <2>1, KindsAre, PlainKind
<1>16. KindTypeOK("ELLIPSE2")
  <2>1. PresentSize("ELLIPSE2") = 2 /\ (13 + 7) \div 8 = 2
    BY DEF PresentSize
  <2> QED
    BY <1>2, <1>3, <2>1, KindsAre, PlainKind
<1>17. KindTypeOK("TEXT2")
  <2>1. PresentSize("TEXT2") = 3 /\ (22 + 7) \div 8 = 3
    BY DEF PresentSize
  <2> QED
    BY <1>2, <2>1, ListsAre, PlainKind
<1> QED
    BY <1>1, <1>4, <1>5, <1>6, <1>7, <1>8, <1>9, <1>10, <1>11, <1>12, <1>13, <1>14, <1>15, <1>16,
       <1>17

\* Where Index says a field is, it is.
LEMMA IndexIs ==
    ASSUME NEW t \in DOMAIN FieldsOf, NEW field \in {"rop2", "npoints", "data"}
    PROVE  /\ Index(t, field) # 0 => /\ Index(t, field) \in 1..Len(FieldsOf[t])
                                     /\ FieldsOf[t][Index(t, field)] = field
           /\ Places(t, field) # {} => Index(t, field) # 0
<1>1. Index(t, field) = IF Places(t, field) = {} THEN 0 ELSE CHOOSE i \in Places(t, field) : TRUE
    BY DEF Index, IndexOf
<1>2. DOMAIN FieldsOf[t] = 1..Len(FieldsOf[t]) /\ Len(FieldsOf[t]) \in Nat
    BY KindsOK, LenProperties DEF KindTypeOK
<1>3. CASE Places(t, field) = {}
    BY <1>1, <1>3
<1>4. CASE Places(t, field) # {}
  <2>1. Index(t, field) \in Places(t, field)
    BY <1>1, <1>4
  <2> QED
    BY <1>2, <2>1 DEF Places
<1> QED
    BY <1>3, <1>4

\* A kind with a number of points has a field for them.
LEMMA PointsInData ==
    ASSUME NEW t \in DOMAIN FieldsOf, Index(t, "npoints") # 0
    PROVE  Index(t, "data") # 0
<1>1. Places(t, "npoints") # {}
    BY DEF Index, IndexOf
<1>2. Places(t, "data") # {}
    BY <1>1, KindsOK DEF KindTypeOK
<1> QED
    BY <1>2, IndexIs

-----------------------------------------------------------------------------
(* Orders: lists behind one another *)

\* u[n] is what the first n lists make.
Joins(u, lists, L) ==
    /\ u \in [0..L -> Seq(Int)] /\ u[0] = <<>>
    /\ \A n \in 1..L : u[n] = u[n - 1] \o lists[n]

\* Joining lists goes through one sequence after the other.
LEMMA JoinedIs ==
    ASSUME NEW L \in Nat, NEW lists \in [1..L -> Seq(Int)]
    PROVE  \E u : Joins(u, lists, L) /\ Joined(lists) = u[L]
<1> DEFINE X == Seq(Int)
           F == [n \in Nat |-> [q \in X |-> IF n \in 1..L THEN q \o lists[n] ELSE q]]
           Loop(f) == f = [n \in 0..L |-> IF n = 0 THEN <<>> ELSE f[n - 1] \o lists[n]]
           upTo == CHOOSE f : Loop(f)
<1>1. Len(lists) = L /\ \A n \in 1..L : lists[n] \in X
    BY SeqOfLength
<1>2. Joined(lists) = upTo[L]
    BY <1>1 DEF Joined
<1>3. <<>> \in X
    OBVIOUS
<1>4. \A q \in X, n \in 1..L : q \o lists[n] \in X
    BY <1>1, ConcatProperties
<1>5. \E f : Loop(f)
  <2>1. \A q \in X, n \in Nat : (IF n \in 1..L THEN q \o lists[n] ELSE q) \in X
    BY <1>4
  <2> HIDE DEF X
  <2>2. F \in Steps(X)
    BY <2>1 DEF Steps
  <2>3. \A n \in 1..L, q \in X : F[n][q] = q \o lists[n]
    OBVIOUS
  <2> HIDE DEF F
  <2>4. PICK g : Iterates(g, F, <<>>, L) /\ \A n \in 0..L : g[n] \in X
    BY <1>3, <2>2, Iteration
  <2>5. \A n \in 1..L : n \in Nat /\ n - 1 \in 0..L /\ g[n - 1] \in X
    BY <2>4
  <2>6. \A n \in 0..L : g[n] = IF n = 0 THEN <<>> ELSE g[n - 1] \o lists[n]
    <3>1. g[0] = <<>>
      BY <2>4 DEF Iterates
    <3>2. ASSUME NEW n \in 1..L PROVE g[n] = g[n - 1] \o lists[n]
      <4>1. g[n] = F[n][g[n - 1]]
        BY <2>4 DEF Iterates
      <4> QED
        BY <2>3, <2>5, <4>1
    <3>3. \A n \in 0..L : n # 0 => n \in 1..L
      OBVIOUS
    <3> QED
      BY <3>1, <3>2, <3>3
  <2> DEFINE h == [n \in 0..L |-> g[n]]
  <2>7. Loop(h)
    <3>1. \A n \in 0..L : n # 0 => n - 1 \in 0..L
      OBVIOUS
    <3>2. \A n \in 0..L : (IF n = 0 THEN <<>> ELSE h[n - 1] \o lists[n]) = g[n]
      BY <2>6, <3>1
    <3> QED
      BY <3>2
  <2> HIDE DEF h, Loop
  <2> QED
    BY <2>7
<1>6. Loop(upTo)
    BY <1>5
<1>7. /\ \A n \in 0..L : upTo[n] = IF n = 0 THEN <<>> ELSE upTo[n - 1] \o lists[n]
      /\ DOMAIN upTo = 0..L /\ upTo = [n \in 0..L |-> upTo[n]]
    BY <1>6
<1> HIDE DEF upTo, Loop, F
<1> DEFINE S == {n \in Nat : n <= L => upTo[n] \in X}
<1> HIDE DEF X
<1>8. 0 \in S
  <2>1. 0 \in 0..L
    OBVIOUS
  <2>2. upTo[0] = <<>>
    BY <1>7, <2>1
  <2> QED
    BY <1>3, <2>2
<1>9. ASSUME NEW n \in Nat, n \in S PROVE n + 1 \in S
  <2>1. CASE n + 1 <= L
    <3>1. n + 1 \in 0..L /\ n + 1 \in 1..L /\ n + 1 # 0 /\ (n + 1) - 1 = n /\ n <= L
      BY <2>1
    <3>2. upTo[n + 1] = upTo[n] \o lists[n + 1] /\ upTo[n] \in X
      <4>1. upTo[n + 1] = upTo[(n + 1) - 1] \o lists[n + 1]
        BY <1>7, <3>1
      <4> QED
        BY <1>9, <3>1, <4>1
    <3>3. upTo[n + 1] \in X
      BY <1>4, <3>1, <3>2
    <3> QED
      BY <3>3
  <2>2. CASE ~(n + 1 <= L)
    BY <2>2
  <2> QED
    BY <2>1, <2>2
<1>10. \A n \in 0..L : upTo[n] \in X
  <2>1. Nat \subseteq S
    <3> HIDE DEF S
    <3> QED
      BY <1>8, <1>9, Induction
  <2> QED
    BY <2>1
<1>11. Joins(upTo, lists, L)
  <2>1. upTo \in [0..L -> X]
    BY <1>7, <1>10
  <2>2. \A n \in 1..L : n \in 0..L /\ n # 0
    OBVIOUS
  <2>3. upTo[0] = <<>> /\ \A n \in 1..L : upTo[n] = upTo[n - 1] \o lists[n]
    BY <1>7, <2>2
  <2> QED
    BY <2>1, <2>3 DEF Joins, X
<1> QED
    BY <1>2, <1>11

\* Each list stands where those before it end.
Placed(u, lists, L) ==
    /\ \A n \in 0..L : u[n] \in Seq(Int) /\ Len(u[n]) \in Nat
    /\ \A n \in 1..L : Len(u[n]) = Len(u[n - 1]) + Len(lists[n])
    /\ \A n \in 1..L : Len(lists[n]) \in Nat
    /\ \A m \in 0..L : \A n \in 0..m : Len(u[n]) <= Len(u[m])
    /\ \A n \in 1..L : \A j \in 1..Len(lists[n]) : u[L][Len(u[n - 1]) + j] = lists[n][j]

\* Each list stands behind the ones before it.
LEMMA PieceAt ==
    ASSUME NEW L \in Nat, NEW lists \in [1..L -> Seq(Int)], NEW u, Joins(u, lists, L)
    PROVE  Placed(u, lists, L)
<1>1. \A n \in 0..L : u[n] \in Seq(Int) /\ Len(u[n]) \in Nat
    BY LenProperties DEF Joins
<1>2. \A n \in 1..L : n \in 0..L /\ n - 1 \in 0..L /\ lists[n] \in Seq(Int) /\ Len(lists[n]) \in Nat
    BY LenProperties
<1>3. ASSUME NEW n \in 1..L
      PROVE  /\ Len(u[n]) = Len(u[n - 1]) + Len(lists[n])
             /\ \A j \in 1..Len(u[n - 1]) : u[n][j] = u[n - 1][j]
             /\ \A j \in 1..Len(lists[n]) : u[n][Len(u[n - 1]) + j] = lists[n][j]
  <2>1. u[n] = u[n - 1] \o lists[n] /\ u[n - 1] \in Seq(Int) /\ lists[n] \in Seq(Int)
    BY <1>1, <1>2 DEF Joins
  <2> QED
    BY <2>1, BehindIs
<1> DEFINE Keeps(m, n) == Len(u[n]) <= Len(u[m]) /\ \A j \in 1..Len(u[n]) : u[m][j] = u[n][j]
           S == {m \in Nat : m <= L => \A n \in 0..m : Keeps(m, n)}
<1>4. 0 \in S
  <2>1. \A n \in 0..0 : n = 0 /\ 0 \in 0..L
    OBVIOUS
  <2>2. Keeps(0, 0)
    BY <1>1, <2>1
  <2> HIDE DEF Keeps
  <2> QED
    BY <2>1, <2>2
<1>5. ASSUME NEW m \in Nat, m \in S PROVE m + 1 \in S
  <2> SUFFICES ASSUME m + 1 <= L, NEW n \in 0..(m + 1) PROVE Keeps(m + 1, n)
    OBVIOUS
  <2>1. m + 1 \in 1..L /\ m + 1 - 1 = m /\ m <= L /\ m \in 0..L /\ m + 1 \in 0..L /\ n \in 0..L
    OBVIOUS
  <2>2. CASE n = m + 1
    BY <1>1, <2>1, <2>2
  <2>3. CASE n # m + 1
    <3>1. n \in 0..m
      BY <2>3
    <3>2. Keeps(m, n)
      BY <1>5, <2>1, <3>1
    <3>3. /\ Len(u[m + 1]) = Len(u[m]) + Len(lists[m + 1])
          /\ \A j \in 1..Len(u[m]) : u[m + 1][j] = u[m][j]
      <4> DEFINE k == m + 1
      <4>1. k \in 1..L /\ k - 1 = m
        BY <2>1
      <4> HIDE DEF k
      <4>2. /\ Len(u[k]) = Len(u[k - 1]) + Len(lists[k])
            /\ \A j \in 1..Len(u[k - 1]) : u[k][j] = u[k - 1][j]
        BY <1>3, <4>1
      <4> QED
        BY <4>1, <4>2 DEF k
    <3>4. Len(u[m]) \in Nat /\ Len(u[n]) \in Nat /\ Len(lists[m + 1]) \in Nat
      BY <1>1, <1>2, <2>1
    <3>5. Len(u[n]) <= Len(u[m + 1])
      <4>1. Len(u[n]) <= Len(u[m])
        BY <3>2
      <4> DEFINE a == Len(u[n])
                 b == Len(u[m])
                 c == Len(u[m + 1])
                 d == Len(lists[m + 1])
      <4>2. a \in Nat /\ b \in Nat /\ d \in Nat /\ c = b + d /\ a <= b
        BY <3>3, <3>4, <4>1
      <4>3. a <= c
        <5> HIDE DEF a, b, c, d
        <5> QED
          BY <4>2
      <4> QED
        BY <4>3
    <3>6. ASSUME NEW j \in 1..Len(u[n]) PROVE u[m + 1][j] = u[n][j]
      <4>1. j \in 1..Len(u[m])
        BY <3>2, <3>4
      <4> QED
        BY <3>2, <3>3, <4>1
    <3> QED
      BY <3>5, <3>6
  <2> QED
    BY <2>2, <2>3
<1>6. \A m \in 0..L : \A n \in 0..m : Keeps(m, n)
  <2>1. Nat \subseteq S
    <3> HIDE DEF S
    <3> QED
      BY <1>4, <1>5, Induction
  <2>2. \A m \in 0..L : m \in S /\ m <= L
    BY <2>1
  <2> HIDE DEF Keeps
  <2> QED
    BY <2>2
<1>7. ASSUME NEW n \in 1..L, NEW j \in 1..Len(lists[n])
      PROVE  u[L][Len(u[n - 1]) + j] = lists[n][j]
  <2>1. Keeps(L, n) /\ n \in 0..L
    <3>1. L \in 0..L /\ n \in 0..L
      OBVIOUS
    <3> HIDE DEF Keeps
    <3> QED
      BY <1>6, <3>1
  <2>2. Len(u[n - 1]) + j \in 1..Len(u[n])
    <3> DEFINE a == Len(u[n - 1])
               b == Len(lists[n])
               c == Len(u[n])
    <3>1. a \in Nat /\ b \in Nat
      BY <1>1, <1>2
    <3>2. c = a + b /\ j \in 1..b
      BY <1>3
    <3> HIDE DEF a, b, c
    <3>3. a + j \in 1..c
      BY <3>1, <3>2
    <3> QED
      BY <3>3 DEF a, c
  <2> QED
    BY <1>3, <2>1, <2>2
<1> QED
    BY <1>1, <1>2, <1>3, <1>6, <1>7 DEF Placed

\* What is read where the joined lists are is, further on, each of them.
LEMMA PieceThere ==
    ASSUME NEW L \in Nat, NEW lists \in [1..L -> Seq(Int)], NEW u, Joins(u, lists, L),
           NEW s, NEW p \in Nat, Written(s, p, u[L]), NEW n \in 1..L
    PROVE  Written(s, p + Len(u[n - 1]), lists[n])
<1> DEFINE a == Len(u[n - 1])
           b == Len(lists[n])
           all == Len(u[L])
<1>1. /\ a \in Nat /\ b \in Nat /\ all \in Nat /\ a + b <= all
      /\ \A j \in 1..b : u[L][a + j] = lists[n][j]
  <2>1. n \in 0..L /\ n - 1 \in 0..L /\ L \in 0..L
    OBVIOUS
  <2>2. Placed(u, lists, L)
    BY PieceAt
  <2>3. /\ a \in Nat /\ b \in Nat /\ all \in Nat /\ Len(u[n]) = a + b /\ Len(u[n]) <= all
        /\ \A j \in 1..b : u[L][a + j] = lists[n][j]
    BY <2>1, <2>2 DEF Placed
  <2> HIDE DEF a, b, all
  <2> QED
    BY <2>3
<1>2. \A i \in 1..all : s[p + i - 1] = u[L][i]
    BY DEF Written
<1> HIDE DEF a, b, all
<1>3. ASSUME NEW j \in 1..b PROVE s[(p + a) + j - 1] = lists[n][j]
  <2>1. a + j \in 1..all /\ p + (a + j) - 1 = (p + a) + j - 1
    BY <1>1
  <2> QED
    BY <1>1, <1>2, <2>1
<1> QED
    BY <1>3 DEF Written, a, b

\* Two functions that go from each number to the next in the same way are the same.
Alike(f, h, L) == f[0] = h[0] /\ \A n \in 1..L : f[n - 1] = h[n - 1] => f[n] = h[n]

\* Two loops that begin alike and step alike are alike.
LEMMA SameLoop ==
    ASSUME NEW L \in Nat, NEW f, NEW h, Alike(f, h, L)
    PROVE  \A n \in 0..L : f[n] = h[n]
<1> DEFINE S == {n \in Nat : n <= L => f[n] = h[n]}
<1>1. 0 \in S
    BY DEF Alike
<1>2. ASSUME NEW n \in Nat, n \in S PROVE n + 1 \in S
  <2>1. CASE n + 1 <= L
    <3>1. n + 1 \in 1..L /\ (n + 1) - 1 = n /\ n <= L
      BY <2>1
    <3>2. f[(n + 1) - 1] = h[(n + 1) - 1] => f[n + 1] = h[n + 1]
      BY <3>1 DEF Alike
    <3> QED
      BY <1>2, <3>1, <3>2
  <2>2. CASE ~(n + 1 <= L)
    BY <2>2
  <2> QED
    BY <2>1, <2>2
<1>3. Nat \subseteq S
  <2> HIDE DEF S
  <2> QED
    BY <1>1, <1>2, Induction
<1> QED
    BY <1>3

-----------------------------------------------------------------------------
(* Orders: the fields *)

\* What a field can hold.
Allowed(field) ==
    CASE field = "coord" -> Whole
      [] field = "data" -> Seq(Int)
      [] field = "rop2" -> {0, 13}
      [] OTHER -> Int

LEMMA AllowedIs ==
    /\ Allowed("coord") = Whole /\ Allowed("data") = Seq(Int) /\ Allowed("rop2") = {0, 13}
    /\ \A f : f \notin {"coord", "data"} => Allowed(f) \subseteq Int
    BY DEF Allowed

\* A field is written as numbers.
LEMMA WrittenIs ==
    ASSUME NEW field, NEW value \in Allowed(field), NEW old \in Allowed(field), NEW delta \in BOOLEAN
    PROVE  WriteField(field, value, old, delta) \in Seq(Int)
<1>1. CASE field = "coord"
  <2>1. value \in Int /\ old \in Int
    BY <1>1, AllowedIs, WholeIs
  <2>2. (IF delta THEN WriteDelta(value - old) ELSE WriteCoord(value)) \in Int
    BY <2>1 DEF WriteDelta, WriteCoord
  <2>3. WriteField(field, value, old, delta) = <<IF delta THEN WriteDelta(value - old) ELSE WriteCoord(value)>>
    BY <1>1 DEF WriteField
  <2> HIDE DEF WriteDelta, WriteCoord
  <2> QED
    BY <2>2, <2>3
<1>2. CASE field = "data"
  <2>1. value \in Seq(Int) /\ <<Len(value)>> \in Seq(Int)
    BY <1>2, AllowedIs, LenProperties
  <2>2. WriteField(field, value, old, delta) = <<Len(value)>> \o value
    BY <1>2 DEF WriteField
  <2> QED
    BY <2>1, <2>2, ConcatProperties
<1>3. CASE field \notin {"coord", "data"}
  <2>1. value \in Int /\ WriteField(field, value, old, delta) = <<value>>
    BY <1>3, AllowedIs DEF WriteField
  <2> QED
    BY <2>1
<1> QED
    BY <1>1, <1>2, <1>3

\* A field is read as it was written.
LEMMA FieldRead ==
    ASSUME NEW field, field # "unused", NEW value \in Allowed(field), NEW old \in Allowed(field),
           NEW delta \in BOOLEAN, field = "coord" => (delta => Near(value, old)),
           NEW s, NEW p \in Nat, Written(s, p, WriteField(field, value, old, delta))
    PROVE  ReadField(field, s, p, old, delta)
              = [p |-> p + Len(WriteField(field, value, old, delta)), value |-> value]
<1>1. CASE field = "coord"
  <2>1. value \in Whole /\ old \in Whole /\ (delta => Near(value, old))
    BY <1>1, AllowedIs
  <2>2. Written(s, p, WriteField("coord", value, old, delta))
    BY <1>1
  <2>3. rdp_in_coord(s, p, old, delta) = [p |-> p + 1, value |-> value]
    BY <2>1, <2>2, CoordRead
  <2>4. Len(WriteField(field, value, old, delta)) = 1
    BY <1>1 DEF WriteField
  <2>5. ReadField(field, s, p, old, delta) = rdp_in_coord(s, p, old, delta)
    BY <1>1 DEF ReadField
  <2> QED
    BY <2>3, <2>4, <2>5
<1>2. CASE field = "data"
  <2> DEFINE n == Len(value)
             W == <<n>> \o value
  <2>1. value \in Seq(Int) /\ n \in Nat /\ <<n>> \in Seq(Int) /\ Len(<<n>>) = 1
    BY <1>2, AllowedIs, LenProperties
  <2>2. WriteField(field, value, old, delta) = W
    BY <1>2 DEF WriteField
  <2>3. Len(W) = 1 + n /\ W[1] = n /\ \A i \in 1..n : W[1 + i] = value[i]
    <3>1. /\ W \in Seq(Int) /\ Len(W) = Len(<<n>>) + Len(value)
          /\ \A i \in 1..Len(<<n>>) : W[i] = <<n>>[i]
          /\ \A i \in 1..Len(value) : W[Len(<<n>>) + i] = value[i]
      BY <2>1, BehindIs
    <3>2. 1 \in 1..1 /\ <<n>>[1] = n
      OBVIOUS
    <3> HIDE DEF W
    <3> QED
      BY <2>1, <3>1, <3>2
  <2>4. Written(s, p, W)
    BY <2>2
  <2> HIDE DEF W
  <2>5. \A i \in 1..(1 + n) : s[p + i - 1] = W[i]
    BY <2>3, <2>4 DEF Written
  <2> HIDE DEF n
  <2>6. s[p] = n
    <3>1. 1 \in 1..(1 + n) /\ p + 1 - 1 = p
      BY <2>1
    <3> QED
      BY <2>3, <2>5, <3>1
  <2>7. ASSUME NEW i \in 1..n PROVE s[p + i] = value[i]
    <3>1. 1 + i \in 1..(1 + n) /\ p + (1 + i) - 1 = p + i
      BY <2>1
    <3> QED
      BY <2>3, <2>5, <3>1
  <2> DEFINE m == p + 1
             e == p + n
             part == SubSeq(s, m, e)
  <2>8. /\ m \in Int /\ e \in Int /\ e - m + 1 = n /\ (m <= e <=> n > 0)
        /\ \A i \in 1..n : m + i - 1 = p + i
    BY <2>1
  <2>9. \A i \in m..e : s[i] \in Int
    <3>1. ASSUME NEW i \in m..e PROVE s[i] \in Int
      <4>1. i - p \in 1..n /\ p + (i - p) = i
        BY <2>1
      <4>2. s[i] = value[i - p]
        BY <2>7, <4>1
      <4>3. value[i - p] \in Int
        BY <2>1, <4>1, ElementOfSeq DEF n
      <4> QED
        BY <4>2, <4>3
    <3> QED
      BY <3>1
  <2> HIDE DEF m, e
  <2>10. /\ part \in Seq(Int) /\ Len(part) = (IF m <= e THEN e - m + 1 ELSE 0)
         /\ \A i \in 1..(e - m + 1) : part[i] = s[m + i - 1]
    BY <2>8, <2>9, SubSeqProperties
  <2> HIDE DEF part
  <2>11. Len(part) = n /\ \A i \in 1..n : part[i] = value[i]
    <3>1. Len(part) = n
      BY <2>1, <2>8, <2>10
    <3>2. ASSUME NEW i \in 1..n PROVE part[i] = value[i]
      <4>1. part[i] = s[m + i - 1]
        BY <2>8, <2>10
      <4>2. m + i - 1 = p + i
        BY <2>8
      <4> QED
        BY <2>7, <4>1, <4>2
    <3> QED
      BY <3>1, <3>2
  <2>12. part = value
    BY <2>1, <2>10, <2>11, SeqEqual DEF n
  <2>13. ReadField(field, s, p, old, delta) = [p |-> p + 1 + s[p], value |-> SubSeq(s, p + 1, p + s[p])]
    BY <1>2 DEF ReadField
  <2>14. SubSeq(s, p + 1, p + s[p]) = value
    BY <2>6, <2>12 DEF part, m, e
  <2>15. p + 1 + s[p] = p + Len(W)
    BY <2>1, <2>3, <2>6
  <2> QED
    BY <2>2, <2>13, <2>14, <2>15
<1>3. CASE field \notin {"coord", "data"}
  <2>1. WriteField(field, value, old, delta) = <<value>>
    BY <1>3 DEF WriteField
  <2>2. s[p] = value
    <3>1. 1 \in 1..1 /\ p + 1 - 1 = p
      OBVIOUS
    <3> QED
      BY <2>1, <3>1 DEF Written
  <2>3. ReadField(field, s, p, old, delta) = [p |-> p + 1, value |-> s[p]]
    BY <1>3 DEF ReadField
  <2>4. Len(<<value>>) = 1
    OBVIOUS
  <2> QED
    BY <2>1, <2>2, <2>3, <2>4
<1> QED
    BY <1>1, <1>2, <1>3

\* The values of the fields of a kind.
Typed(t, v) ==
    /\ v = [i \in 1..Len(FieldsOf[t]) |-> v[i]]
    /\ \A i \in 1..Len(FieldsOf[t]) : v[i] \in Allowed(FieldsOf[t][i])

\* The numbers of the fields that have changed.
Pieces(t, new, old, changed, delta) ==
    [i \in 1..Len(FieldsOf[t]) |->
        IF i \in changed THEN WriteField(FieldsOf[t][i], new[i], old[i], delta) ELSE <<>>]

\* So are all of them.
LEMMA PiecesAre ==
    ASSUME NEW t \in DOMAIN FieldsOf, NEW old, Typed(t, old), NEW new, Typed(t, new), NEW changed,
           NEW delta \in BOOLEAN
    PROVE  /\ Len(FieldsOf[t]) \in Nat
           /\ Pieces(t, new, old, changed, delta) \in [1..Len(FieldsOf[t]) -> Seq(Int)]
<1>1. Len(FieldsOf[t]) \in Nat
    BY KindsOK DEF KindTypeOK
<1>2. ASSUME NEW i \in 1..Len(FieldsOf[t])
      PROVE  WriteField(FieldsOf[t][i], new[i], old[i], delta) \in Seq(Int)
    BY WrittenIs DEF Typed
<1>3. <<>> \in Seq(Int)
    OBVIOUS
<1> QED
    BY <1>1, <1>2, <1>3 DEF Pieces

\* The program reads the fields that have changed, and keeps the others.
LEMMA FieldsRead ==
    ASSUME NEW t \in DOMAIN FieldsOf, NEW old, Typed(t, old), NEW new, Typed(t, new),
           NEW changed, changed = {i \in 1..Len(FieldsOf[t]) : new[i] # old[i]},
           \A i \in changed : FieldsOf[t][i] # "unused",
           NEW delta \in BOOLEAN,
           \A i \in changed : FieldsOf[t][i] = "coord" => (delta => Near(new[i], old[i])),
           NEW s, NEW p \in Nat, Written(s, p, Joined(Pieces(t, new, old, changed, delta)))
    PROVE  ReadFields(t, s, p, old, changed, delta).fields = new
<1> DEFINE L == Len(FieldsOf[t])
           lists == Pieces(t, new, old, changed, delta)
           fields == FieldsOf[t]
           B(n, before) ==
               IF n \notin changed THEN before
               ELSE LET one == ReadField(fields[n], s, before.p, old[n], delta)
                    IN  [p |-> one.p, fields |-> [before.fields EXCEPT ![n] = one.value]]
           Loop(f) ==
               f = [n \in 0..Len(fields) |->
                      IF n = 0 THEN [p |-> p, fields |-> old]
                      ELSE IF n \notin changed THEN f[n - 1]
                      ELSE LET before == f[n - 1]
                               one == ReadField(fields[n], s, before.p, old[n], delta)
                           IN  [p |-> one.p, fields |-> [before.fields EXCEPT ![n] = one.value]]]
           at == CHOOSE f : Loop(f)
<1>1. L \in Nat /\ lists \in [1..L -> Seq(Int)]
    BY PiecesAre
<1>2. ReadFields(t, s, p, old, changed, delta) = at[L]
    BY DEF ReadFields
<1>3. PICK u : Joins(u, lists, L) /\ Joined(lists) = u[L]
  <2> HIDE DEF L, lists
  <2> QED
    BY <1>1, JoinedIs
<1>4. Placed(u, lists, L)
  <2> HIDE DEF L, lists
  <2> QED
    BY <1>1, <1>3, PieceAt
<1> DEFINE c(n) == [p |-> p + Len(u[n]),
                    fields |-> [i \in 1..L |-> IF i <= n THEN new[i] ELSE old[i]]]
<1>5. c(0) = [p |-> p, fields |-> old]
  <2>1. Len(u[0]) = 0
    BY <1>3 DEF Joins
  <2>2. [i \in 1..L |-> IF i <= 0 THEN new[i] ELSE old[i]] = [i \in 1..L |-> old[i]]
    <3>1. \A i \in 1..L : ~(i <= 0)
      OBVIOUS
    <3> QED
      BY <3>1
  <2>3. old = [i \in 1..L |-> old[i]]
    BY DEF Typed
  <2>4. p + 0 = p
    OBVIOUS
  <2> QED
    BY <2>1, <2>2, <2>3, <2>4
<1>6. ASSUME NEW n \in 1..L PROVE B(n, c(n - 1)) = c(n)
  <2>1. /\ n \in 0..L /\ n - 1 \in 0..L /\ Len(u[n - 1]) \in Nat /\ Len(lists[n]) \in Nat
        /\ Len(u[n]) = Len(u[n - 1]) + Len(lists[n])
    <3>1. n \in 0..L /\ n - 1 \in 0..L
      BY <1>1
    <3> QED
      BY <1>4, <3>1 DEF Placed
  <2>2. \A i \in 1..L : i <= n <=> (i <= n - 1 \/ i = n)
    BY <1>1
  <2>3. CASE n \notin changed
    <3>1. new[n] = old[n] /\ lists[n] = <<>>
      BY <2>3 DEF Pieces
    <3>2. Len(u[n]) = Len(u[n - 1])
      <4>1. Len(lists[n]) = 0
        BY <3>1
      <4> HIDE DEF lists
      <4> QED
        BY <2>1, <4>1
    <3>3. ASSUME NEW i \in 1..L
          PROVE  (IF i <= n - 1 THEN new[i] ELSE old[i]) = (IF i <= n THEN new[i] ELSE old[i])
      BY <2>2, <3>1
    <3>4. c(n - 1) = c(n)
      BY <3>2, <3>3
    <3> HIDE DEF c
    <3> QED
      BY <2>3, <3>4
  <2>4. CASE n \in changed
    <3> DEFINE q == p + Len(u[n - 1])
               W == WriteField(fields[n], new[n], old[n], delta)
               one == ReadField(fields[n], s, q, old[n], delta)
               b == [i \in 1..L |-> IF i <= n - 1 THEN new[i] ELSE old[i]]
    <3>1. q \in Nat /\ lists[n] = W
      BY <2>1, <2>4 DEF Pieces
    <3>2. Written(s, q, W)
      <4>1. Written(s, p, u[L])
        BY <1>3
      <4> HIDE DEF lists, L
      <4>2. Written(s, q, lists[n])
        BY <1>1, <1>3, <4>1, PieceThere
      <4> QED
        BY <3>1, <4>2
    <3>3. /\ fields[n] # "unused" /\ new[n] \in Allowed(fields[n]) /\ old[n] \in Allowed(fields[n])
          /\ (fields[n] = "coord" => (delta => Near(new[n], old[n])))
      BY <2>4 DEF Typed
    <3>4. one = [p |-> q + Len(W), value |-> new[n]]
      <4> HIDE DEF q, fields
      <4> QED
        BY <3>1, <3>2, <3>3, FieldRead
    <3>5. q + Len(W) = p + Len(u[n])
      <4> HIDE DEF lists, W
      <4> QED
        BY <2>1, <3>1
    <3>6. [b EXCEPT ![n] = new[n]] = [i \in 1..L |-> IF i <= n THEN new[i] ELSE old[i]]
      BY <2>2
    <3>7. c(n - 1) = [p |-> q, fields |-> b]
      OBVIOUS
    <3> HIDE DEF q, W, b, fields, one
    <3>8. c(n) = [p |-> q + Len(W), fields |-> [b EXCEPT ![n] = new[n]]]
      BY <3>5, <3>6
    <3>9. c(n - 1).p = q /\ c(n - 1).fields = b
      BY <3>7
    <3> HIDE DEF c
    <3>10. ReadField(fields[n], s, c(n - 1).p, old[n], delta) = one
      BY <3>9 DEF one
    <3>11. B(n, c(n - 1)) = [p |-> one.p, fields |-> [b EXCEPT ![n] = one.value]]
      BY <2>4, <3>9, <3>10
    <3>12. one.p = q + Len(W) /\ one.value = new[n]
      BY <3>4
    <3> QED
      BY <3>8, <3>11, <3>12
  <2> QED
    BY <2>3, <2>4
<1> DEFINE h == [n \in 0..L |-> c(n)]
<1>7. Loop(h)
  <2>1. h[0] = c(0) /\ \A n \in 1..L : n \in 0..L /\ n - 1 \in 0..L /\ h[n] = c(n) /\ h[n - 1] = c(n - 1)
    BY <1>1
  <2>2. ASSUME NEW n \in 0..L
        PROVE  (IF n = 0 THEN [p |-> p, fields |-> old] ELSE B(n, h[n - 1])) = c(n)
    <3>1. CASE n = 0
      BY <1>5, <3>1
    <3>2. CASE n # 0
      <4>1. n \in 1..L
        BY <3>2
      <4> HIDE DEF c, B, h
      <4> QED
        BY <1>6, <2>1, <3>2, <4>1
    <3> QED
      BY <3>1, <3>2
  <2> HIDE DEF c
  <2>3. h = [n \in 0..L |-> IF n = 0 THEN [p |-> p, fields |-> old] ELSE B(n, h[n - 1])]
    <3> HIDE DEF B
    <3> QED
      BY <2>2
  <2> HIDE DEF h
  <2> QED
    BY <2>3
<1>8. Loop(at)
  <2> HIDE DEF Loop, h
  <2> QED
    BY <1>7
<1>9. Alike(at, h, L)
  <2>1. at[0] = [p |-> p, fields |-> old] /\ \A n \in 1..L : at[n] = B(n, at[n - 1])
    <3> HIDE DEF at
    <3>1. 0 \in 0..L /\ \A n \in 1..L : n \in 0..L /\ n # 0
      BY <1>1
    <3> QED
      BY <1>8, <3>1
  <2>2. h[0] = c(0) /\ \A n \in 1..L : n \in 0..L /\ n - 1 \in 0..L /\ h[n] = c(n) /\ h[n - 1] = c(n - 1)
    BY <1>1
  <2> HIDE DEF at, h, c, B
  <2> QED
    BY <1>5, <1>6, <2>1, <2>2 DEF Alike
<1>10. at[L] = h[L]
  <2>1. L \in 0..L
    BY <1>1
  <2> HIDE DEF at, h, L
  <2>2. \A n \in 0..L : at[n] = h[n]
    BY <1>1, <1>9, SameLoop
  <2> QED
    BY <2>1, <2>2
<1>11. h[L].fields = new
  <2>1. L \in 0..L /\ h[L] = c(L)
    BY <1>1
  <2>2. [i \in 1..L |-> IF i <= L THEN new[i] ELSE old[i]] = [i \in 1..L |-> new[i]]
    BY <1>1
  <2>3. new = [i \in 1..L |-> new[i]]
    BY DEF Typed
  <2> HIDE DEF h
  <2> QED
    BY <2>1, <2>2, <2>3
<1> HIDE DEF at, h, L
<1> QED
    BY <1>2, <1>10, <1>11

-----------------------------------------------------------------------------
(* Orders: the clip rectangle *)

\* What stands behind one another stands there one by one.
LEMMA AtBoth ==
    ASSUME NEW a \in Seq(Int), NEW b \in Seq(Int), NEW s, NEW p \in Nat, Written(s, p, a \o b)
    PROVE  Written(s, p, a) /\ Written(s, p + Len(a), b)
<1> DEFINE m == Len(a)
           n == Len(b)
           all == a \o b
<1>1. m \in Nat /\ n \in Nat
    BY LenProperties
<1>2. /\ Len(all) = m + n /\ \A i \in 1..m : all[i] = a[i]
      /\ \A i \in 1..n : all[m + i] = b[i]
    BY BehindIs
<1>3. \A i \in 1..Len(all) : s[p + i - 1] = all[i]
    BY DEF Written
<1> HIDE DEF m, n, all
<1>4. ASSUME NEW i \in 1..m PROVE s[p + i - 1] = a[i]
  <2>1. i \in 1..Len(all)
    BY <1>1, <1>2
  <2> QED
    BY <1>2, <1>3, <2>1
<1>5. ASSUME NEW i \in 1..n PROVE s[(p + m) + i - 1] = b[i]
  <2>1. m + i \in 1..Len(all) /\ p + (m + i) - 1 = (p + m) + i - 1
    BY <1>1, <1>2
  <2> QED
    BY <1>2, <1>3, <2>1
<1> QED
    BY <1>4, <1>5 DEF Written, m, n

Edges(clip, old, near) ==
    [i \in 1..4 |-> IF clip[i] = old[i] THEN <<>> ELSE WriteField("coord", clip[i], old[i], near[i])]

EdgeDigits(clip, old, near) ==
    [j \in 1..8 |-> IF j <= 4 THEN IF clip[j] # old[j] /\ ~near[j] THEN 1 ELSE 0
                    ELSE IF clip[j - 4] # old[j - 4] /\ near[j - 4] THEN 1 ELSE 0]

\* A clip rectangle is written as a byte of eight digits and its edges.
LEMMA BoundsWritten ==
    ASSUME NEW clip \in [1..4 -> Whole], NEW old \in [1..4 -> Whole], NEW near \in [1..4 -> BOOLEAN]
    PROVE  /\ WriteBounds(clip, old, near)
                 = <<Digits(EdgeDigits(clip, old, near))>> \o Joined(Edges(clip, old, near))
           /\ Edges(clip, old, near) \in [1..4 -> Seq(Int)]
           /\ EdgeDigits(clip, old, near) \in [1..8 -> {0, 1}]
<1> DEFINE bit == [i \in 1..4 |-> IF clip[i] = old[i] THEN 0
                                  ELSE IF near[i] THEN BitValues[i + 4] ELSE BitValues[i]]
           d == EdgeDigits(clip, old, near)
<1>1. d \in [1..8 -> {0, 1}]
  <2>1. \A j \in 1..8 : d[j] \in {0, 1}
    BY DEF EdgeDigits
  <2> QED
    BY <2>1 DEF EdgeDigits
<1>2. /\ bit[1] = d[1] + 16 * d[5] /\ bit[2] = 2 * d[2] + 32 * d[6]
      /\ bit[3] = 4 * d[3] + 64 * d[7] /\ bit[4] = 8 * d[4] + 128 * d[8]
  <2>1. /\ d[1] = (IF clip[1] # old[1] /\ ~near[1] THEN 1 ELSE 0)
        /\ d[5] = (IF clip[1] # old[1] /\ near[1] THEN 1 ELSE 0)
        /\ d[2] = (IF clip[2] # old[2] /\ ~near[2] THEN 1 ELSE 0)
        /\ d[6] = (IF clip[2] # old[2] /\ near[2] THEN 1 ELSE 0)
        /\ d[3] = (IF clip[3] # old[3] /\ ~near[3] THEN 1 ELSE 0)
        /\ d[7] = (IF clip[3] # old[3] /\ near[3] THEN 1 ELSE 0)
        /\ d[4] = (IF clip[4] # old[4] /\ ~near[4] THEN 1 ELSE 0)
        /\ d[8] = (IF clip[4] # old[4] /\ near[4] THEN 1 ELSE 0)
    BY DEF EdgeDigits
  <2>2. /\ bit[1] = (IF clip[1] = old[1] THEN 0 ELSE IF near[1] THEN 16 ELSE 1)
        /\ bit[2] = (IF clip[2] = old[2] THEN 0 ELSE IF near[2] THEN 32 ELSE 2)
        /\ bit[3] = (IF clip[3] = old[3] THEN 0 ELSE IF near[3] THEN 64 ELSE 4)
        /\ bit[4] = (IF clip[4] = old[4] THEN 0 ELSE IF near[4] THEN 128 ELSE 8)
    BY DEF BitValues
  <2> HIDE DEF bit, d
  <2> QED
    BY <2>1, <2>2
<1>3. bit[1] + bit[2] + bit[3] + bit[4] = Digits(d)
  <2>1. \A j \in 1..8 : d[j] \in {0, 1}
    BY <1>1
  <2>2. /\ d[1] \in {0, 1} /\ d[2] \in {0, 1} /\ d[3] \in {0, 1} /\ d[4] \in {0, 1}
        /\ d[5] \in {0, 1} /\ d[6] \in {0, 1} /\ d[7] \in {0, 1} /\ d[8] \in {0, 1}
    BY <2>1
  <2> HIDE DEF bit, d
  <2> QED
    BY <1>2, <2>2 DEF Digits
<1>4. Edges(clip, old, near) \in [1..4 -> Seq(Int)]
  <2>1. ASSUME NEW i \in 1..4
        PROVE  WriteField("coord", clip[i], old[i], near[i]) \in Seq(Int)
    <3>1. clip[i] \in Allowed("coord") /\ old[i] \in Allowed("coord") /\ near[i] \in BOOLEAN
      BY AllowedIs
    <3> QED
      BY <3>1, WrittenIs
  <2>2. <<>> \in Seq(Int)
    OBVIOUS
  <2> QED
    BY <2>1, <2>2 DEF Edges
<1>5. WriteBounds(clip, old, near) = <<bit[1] + bit[2] + bit[3] + bit[4]>> \o Joined(Edges(clip, old, near))
    BY DEF WriteBounds, Edges
<1> HIDE DEF bit, d
<1> QED
    BY <1>1, <1>3, <1>4, <1>5 DEF d

\* The program reads the edges that have changed.
LEMMA BoundsRead ==
    ASSUME NEW clip \in [1..4 -> Whole], NEW old \in [1..4 -> Whole], NEW near \in [1..4 -> BOOLEAN],
           \A i \in 1..4 : near[i] => Near(clip[i], old[i]),
           NEW s, NEW p \in Nat, Written(s, p, WriteBounds(clip, old, near))
    PROVE  /\ WriteBounds(clip, old, near) \in Seq(Int)
           /\ rdp_parse_bounds(s, p, old) = [p |-> p + Len(WriteBounds(clip, old, near)), bounds |-> clip]
<1> DEFINE L == 4
           lists == Edges(clip, old, near)
           d == EdgeDigits(clip, old, near)
           byte == Digits(d)
           J == Joined(lists)
           W == WriteBounds(clip, old, near)
           there(n) == Bit(s[p], n - 1) \/ Bit(s[p], n + 3)
           B(n, before) ==
               IF there(n)
               THEN LET edge == rdp_in_coord(s, before.p, old[n], ~Bit(s[p], n - 1))
                    IN  [p |-> edge.p, bounds |-> [before.bounds EXCEPT ![n] = edge.value]]
               ELSE before
           Loop(f) ==
               f = [n \in 0..4 |->
                      IF n = 0 THEN [p |-> p + 1, bounds |-> old]
                      ELSE IF Bit(s[p], n - 1) \/ Bit(s[p], n + 3)
                      THEN LET before == f[n - 1]
                               edge == rdp_in_coord(s, before.p, old[n], ~Bit(s[p], n - 1))
                           IN  [p |-> edge.p, bounds |-> [before.bounds EXCEPT ![n] = edge.value]]
                      ELSE f[n - 1]]
           at == CHOOSE f : Loop(f)
<1>1. L \in Nat /\ lists \in [1..L -> Seq(Int)] /\ W = <<byte>> \o J /\ d \in [1..8 -> {0, 1}]
    BY BoundsWritten
<1>2. rdp_parse_bounds(s, p, old) = at[4]
    BY DEF rdp_parse_bounds
<1>3. PICK u : Joins(u, lists, L) /\ J = u[L]
  <2> HIDE DEF L, lists
  <2> QED
    BY <1>1, JoinedIs
<1>4. Placed(u, lists, L) /\ J \in Seq(Int)
  <2>1. Placed(u, lists, L)
    <3> HIDE DEF L, lists
    <3> QED
      BY <1>1, <1>3, PieceAt
  <2>2. L \in 0..L
    OBVIOUS
  <2> QED
    BY <1>3, <2>1, <2>2 DEF Placed
<1>5. byte \in Int /\ \A i \in 0..7 : Bit(byte, i) <=> d[i + 1] = 1
  <2> HIDE DEF d
  <2>1. Digits(d) \in 0..255 /\ \A i \in 0..7 : Bit(Digits(d), i) <=> d[i + 1] = 1
    BY <1>1, BitsOf
  <2> QED
    BY <2>1
<1>6. <<byte>> \in Seq(Int) /\ Len(<<byte>>) = 1
  <2> HIDE DEF byte
  <2> QED
    BY <1>5
<1>7. Written(s, p, <<byte>>) /\ Written(s, p + 1, J) /\ W \in Seq(Int) /\ Len(W) = 1 + Len(J)
  <2>1. Written(s, p, <<byte>> \o J)
    BY <1>1
  <2> HIDE DEF byte, J, W
  <2>2. Written(s, p, <<byte>>) /\ Written(s, p + Len(<<byte>>), J)
    BY <1>4, <1>6, <2>1, AtBoth
  <2>3. <<byte>> \o J \in Seq(Int) /\ Len(<<byte>> \o J) = Len(<<byte>>) + Len(J)
    BY <1>4, <1>6, ConcatProperties
  <2> QED
    BY <1>1, <1>6, <2>2, <2>3
<1>8. s[p] = byte
  <2>1. 1 \in 1..1 /\ p + 1 - 1 = p /\ <<byte>>[1] = byte
    OBVIOUS
  <2> HIDE DEF byte
  <2> QED
    BY <1>6, <1>7, <2>1 DEF Written
<1>9. ASSUME NEW n \in 1..4
      PROVE  /\ there(n) <=> clip[n] # old[n]
             /\ clip[n] # old[n] => (~Bit(s[p], n - 1) <=> near[n])
  <2>1. n - 1 \in 0..7 /\ n + 3 \in 0..7 /\ (n - 1) + 1 = n /\ (n + 3) + 1 = n + 4
    OBVIOUS
  <2>2. /\ Bit(s[p], n - 1) <=> d[n] = 1
        /\ Bit(s[p], n + 3) <=> d[n + 4] = 1
    <3> HIDE DEF byte, d
    <3> QED
      BY <1>5, <1>8, <2>1
  <2>3. /\ d[n] = (IF clip[n] # old[n] /\ ~near[n] THEN 1 ELSE 0)
        /\ d[n + 4] = (IF clip[n] # old[n] /\ near[n] THEN 1 ELSE 0)
    <3>1. n \in 1..8 /\ n <= 4 /\ n + 4 \in 1..8 /\ ~(n + 4 <= 4) /\ (n + 4) - 4 = n
      OBVIOUS
    <3> QED
      BY <3>1 DEF EdgeDigits
  <2> HIDE DEF d
  <2> QED
    BY <2>2, <2>3
<1> DEFINE c(n) == [p |-> (p + 1) + Len(u[n]),
                    bounds |-> [i \in 1..4 |-> IF i <= n THEN clip[i] ELSE old[i]]]
<1>10. c(0) = [p |-> p + 1, bounds |-> old]
  <2>1. Len(u[0]) = 0
    BY <1>3 DEF Joins
  <2>2. [i \in 1..4 |-> IF i <= 0 THEN clip[i] ELSE old[i]] = old
    OBVIOUS
  <2>3. (p + 1) + 0 = p + 1
    OBVIOUS
  <2> QED
    BY <2>1, <2>2, <2>3
<1>11. ASSUME NEW n \in 1..4 PROVE B(n, c(n - 1)) = c(n)
  <2>1. /\ n \in 0..4 /\ n - 1 \in 0..4 /\ Len(u[n - 1]) \in Nat /\ Len(lists[n]) \in Nat
        /\ Len(u[n]) = Len(u[n - 1]) + Len(lists[n])
    <3>1. n \in 0..4 /\ n - 1 \in 0..4
      OBVIOUS
    <3> QED
      BY <1>4, <3>1 DEF Placed
  <2>2. \A i \in 1..4 : i <= n <=> (i <= n - 1 \/ i = n)
    OBVIOUS
  <2>3. CASE clip[n] = old[n]
    <3>1. lists[n] = <<>>
      BY <2>3 DEF Edges
    <3>2. Len(u[n]) = Len(u[n - 1])
      <4>1. Len(lists[n]) = 0
        BY <3>1
      <4> HIDE DEF lists
      <4> QED
        BY <2>1, <4>1
    <3>3. ASSUME NEW i \in 1..4
          PROVE  (IF i <= n - 1 THEN clip[i] ELSE old[i]) = (IF i <= n THEN clip[i] ELSE old[i])
      BY <2>2, <2>3
    <3>4. c(n - 1) = c(n)
      BY <3>2, <3>3
    <3>5. ~there(n)
      <4> HIDE DEF there
      <4> QED
        BY <1>9, <2>3
    <3> HIDE DEF c, there
    <3> QED
      BY <3>4, <3>5
  <2>4. CASE clip[n] # old[n]
    <3> DEFINE q == (p + 1) + Len(u[n - 1])
               V == WriteField("coord", clip[n], old[n], near[n])
               edge == rdp_in_coord(s, q, old[n], near[n])
               b == [i \in 1..4 |-> IF i <= n - 1 THEN clip[i] ELSE old[i]]
    <3>1. q \in Nat /\ lists[n] = V
      <4>1. lists[n] = V
        BY <2>4 DEF Edges
      <4> DEFINE k == Len(u[n - 1])
      <4>2. k \in Nat
        BY <2>1
      <4>3. q \in Nat
        <5> HIDE DEF k
        <5>1. (p + 1) + k \in Nat
          BY <4>2
        <5> QED
          BY <5>1 DEF k
      <4> HIDE DEF lists, V, q
      <4> QED
        BY <4>1, <4>3
    <3>2. Written(s, q, V)
      <4>1. Written(s, p + 1, u[L]) /\ p + 1 \in Nat /\ n \in 1..L
        BY <1>3, <1>7
      <4> DEFINE r == p + 1
      <4> HIDE DEF lists, L, r
      <4>2. Written(s, r + Len(u[n - 1]), lists[n])
        BY <1>1, <1>3, <4>1, PieceThere DEF r
      <4> QED
        BY <3>1, <4>2 DEF r
    <3>3. edge = [p |-> q + 1, value |-> clip[n]]
      <4>1. clip[n] \in Whole /\ old[n] \in Whole /\ near[n] \in BOOLEAN /\ (near[n] => Near(clip[n], old[n]))
        OBVIOUS
      <4> HIDE DEF q
      <4> QED
        BY <3>1, <3>2, <4>1, CoordRead
    <3>4. q + 1 = (p + 1) + Len(u[n])
      <4>1. Len(V) = 1
        BY DEF WriteField
      <4> DEFINE k == Len(u[n - 1])
                 m == Len(u[n])
      <4>2. k \in Nat /\ m = k + 1
        <5> HIDE DEF lists, V
        <5> QED
          BY <2>1, <3>1, <4>1
      <4>3. ((p + 1) + k) + 1 = (p + 1) + m
        <5> HIDE DEF k, m
        <5> QED
          BY <4>2
      <4> QED
        BY <4>3
    <3>5. [b EXCEPT ![n] = clip[n]] = [i \in 1..4 |-> IF i <= n THEN clip[i] ELSE old[i]]
      BY <2>2
    <3>6. c(n - 1) = [p |-> q, bounds |-> b]
      OBVIOUS
    <3> HIDE DEF q, V, b, edge
    <3>7. c(n) = [p |-> q + 1, bounds |-> [b EXCEPT ![n] = clip[n]]]
      BY <3>4, <3>5
    <3>8. c(n - 1).p = q /\ c(n - 1).bounds = b
      BY <3>6
    <3>9. there(n) /\ (~Bit(s[p], n - 1)) = near[n]
      <4>1. there(n) /\ (~Bit(s[p], n - 1) <=> near[n]) /\ near[n] \in BOOLEAN
        <5> HIDE DEF there
        <5> QED
          BY <1>9, <2>4
      <4> HIDE DEF there
      <4> QED
        BY <4>1
    <3> HIDE DEF c, there
    <3>10. rdp_in_coord(s, c(n - 1).p, old[n], ~Bit(s[p], n - 1)) = edge
      BY <3>8, <3>9 DEF edge
    <3>11. B(n, c(n - 1)) = [p |-> edge.p, bounds |-> [b EXCEPT ![n] = edge.value]]
      BY <3>8, <3>9, <3>10
    <3>12. edge.p = q + 1 /\ edge.value = clip[n]
      BY <3>3
    <3> QED
      BY <3>7, <3>11, <3>12
  <2> QED
    BY <2>3, <2>4
<1> DEFINE h == [n \in 0..4 |-> c(n)]
<1>12. h[0] = c(0) /\ \A n \in 1..4 : n \in 0..4 /\ n - 1 \in 0..4 /\ h[n] = c(n) /\ h[n - 1] = c(n - 1)
  <2>1. 0 \in 0..4 /\ \A n \in 1..4 : n \in 0..4 /\ n - 1 \in 0..4
    OBVIOUS
  <2>2. \A n \in 0..4 : h[n] = c(n)
    <3> HIDE DEF c
    <3> QED
      OBVIOUS
  <2> HIDE DEF h, c
  <2> QED
    BY <2>1, <2>2
<1>13. Loop(h)
  <2>1. ASSUME NEW n \in 0..4
        PROVE  (IF n = 0 THEN [p |-> p + 1, bounds |-> old] ELSE B(n, h[n - 1])) = c(n)
    <3>1. CASE n = 0
      BY <1>10, <3>1
    <3>2. CASE n # 0
      <4>1. n \in 1..4
        BY <3>2
      <4> HIDE DEF c, B, h
      <4> QED
        BY <1>11, <1>12, <3>2, <4>1
    <3> QED
      BY <3>1, <3>2
  <2> HIDE DEF c
  <2>2. h = [n \in 0..4 |-> IF n = 0 THEN [p |-> p + 1, bounds |-> old] ELSE B(n, h[n - 1])]
    <3> HIDE DEF B
    <3> QED
      BY <2>1
  <2> HIDE DEF h
  <2> QED
    BY <2>2
<1>14. Loop(at)
  <2> HIDE DEF Loop, h
  <2> QED
    BY <1>13
<1>15. Alike(at, h, L)
  <2>1. at[0] = [p |-> p + 1, bounds |-> old] /\ \A n \in 1..4 : at[n] = B(n, at[n - 1])
    <3> HIDE DEF at
    <3>1. 0 \in 0..4 /\ \A n \in 1..4 : n \in 0..4 /\ n # 0
      OBVIOUS
    <3> QED
      BY <1>14, <3>1
  <2> HIDE DEF at, h, c, B
  <2> QED
    BY <1>10, <1>11, <1>12, <2>1 DEF Alike
<1>16. at[4] = h[4]
  <2>1. L \in 0..L
    BY <1>1
  <2> HIDE DEF at, h
  <2>2. at[L] = h[L]
    <3> HIDE DEF L
    <3>1. \A n \in 0..L : at[n] = h[n]
      BY <1>1, <1>15, SameLoop
    <3> QED
      BY <2>1, <3>1
  <2> QED
    BY <2>2
<1>17. h[4] = [p |-> p + Len(W), bounds |-> clip]
  <2>1. h[4] = c(4)
    OBVIOUS
  <2>2. [i \in 1..4 |-> IF i <= 4 THEN clip[i] ELSE old[i]] = clip
    OBVIOUS
  <2>3. (p + 1) + Len(u[4]) = p + Len(W)
    <3>1. J = u[4] /\ Len(J) \in Nat
      BY <1>3, <1>4, LenProperties
    <3> DEFINE k == Len(J)
               m == Len(W)
    <3>2. k \in Nat /\ m = 1 + k /\ Len(u[4]) = k
      <4> HIDE DEF J, W
      <4> QED
        BY <1>7, <3>1
    <3>3. (p + 1) + k = p + m
      <4> HIDE DEF k, m
      <4> QED
        BY <3>2
    <3> HIDE DEF k, m
    <3> QED
      BY <3>2, <3>3 DEF m
  <2> HIDE DEF h, W
  <2> QED
    BY <2>1, <2>2, <2>3
<1> HIDE DEF at, h, W
<1> QED
    BY <1>2, <1>7, <1>16, <1>17 DEF W

-----------------------------------------------------------------------------
(* Orders: the points of a line or polygon *)

Pairs == Differences \X Differences

\* A difference is one number or two.
LEMMA DifferenceIs ==
    ASSUME NEW v \in Differences
    PROVE  WriteDifference(v) \in Seq(Int) /\ Len(WriteDifference(v)) \in 1..2
<1>1. v \in Int
    BY WholeIs
<1>2. CASE v \in -64..63
  <2>1. v % 128 \in Int /\ WriteDifference(v) = <<v % 128>>
    BY <1>1, <1>2 DEF WriteDifference
  <2> QED
    BY <2>1
<1>3. CASE v \notin -64..63
  <2> DEFINE a == 128 + (v % 32768) \div 256
             b == v % 256
  <2>1. a \in Int /\ b \in Int /\ WriteDifference(v) = <<a, b>>
    BY <1>1, <1>3 DEF WriteDifference
  <2> HIDE DEF a, b
  <2> QED
    BY <2>1
<1> QED
    BY <1>2, <1>3

\* The bytes that say which of x and y are left out.
LeftOut(points, b) ==
    [j \in 1..8 |-> IF 4 * b - (j - 1) \div 2 <= Len(points)
                       /\ points[4 * b - (j - 1) \div 2][2 - ((j + 1) % 2)] = 0 THEN 1 ELSE 0]

PointFlags(points) == [b \in 1..((Len(points) + 3) \div 4) |-> Digits(LeftOut(points, b))]

PointPieces(points) ==
    [i \in 1..(2 * Len(points)) |->
        LET v == points[(i + 1) \div 2][2 - (i % 2)] IN IF v = 0 THEN <<>> ELSE WriteDifference(v)]

\* The bytes that say which of x and y are left out are numbers, two bits a point.
LEMMA FlagsAre ==
    ASSUME NEW points \in Seq(Pairs)
    PROVE  /\ PointFlags(points) \in Seq(Int)
           /\ Len(PointFlags(points)) = (Len(points) + 3) \div 4
           /\ \A b : LeftOut(points, b) \in [1..8 -> {0, 1}]
<1> DEFINE F == (Len(points) + 3) \div 4
<1>1. F \in Nat
  <2>1. Len(points) \in Nat
    BY LenProperties
  <2> QED
    BY <2>1
<1>2. \A b : LeftOut(points, b) \in [1..8 -> {0, 1}]
    BY DEF LeftOut
<1>3. ASSUME NEW b \in 1..F PROVE Digits(LeftOut(points, b)) \in Int
  <2> DEFINE d == LeftOut(points, b)
             x == Digits(d)
  <2>1. d \in [1..8 -> {0, 1}]
    BY <1>2
  <2>2. x \in 0..255
    <3> HIDE DEF d
    <3> QED
      BY <2>1, BitsOf
  <2>3. x \in Int
    <3> HIDE DEF x
    <3> QED
      BY <2>2
  <2> QED
    BY <2>3
<1>4. PointFlags(points) \in [1..F -> Int]
    BY <1>3 DEF PointFlags
<1> HIDE DEF F
<1>5. PointFlags(points) \in Seq(Int) /\ Len(PointFlags(points)) = F
    BY <1>1, <1>4, SeqOfLength
<1> QED
    BY <1>2, <1>5 DEF F

\* The list is written as its flags and its differences.
LEMMA PointsWritten ==
    ASSUME NEW points \in Seq(Pairs)
    PROVE  WritePoints(points) = PointFlags(points) \o Joined(PointPieces(points))
<1> DEFINE n == Len(points)
           two(i) == IF i > n THEN 0
                     ELSE (IF points[i][1] = 0 THEN 2 ELSE 0) + (IF points[i][2] = 0 THEN 1 ELSE 0)
           flag(b) == 64 * two(4 * b - 3) + 16 * two(4 * b - 2) + 4 * two(4 * b - 1) + two(4 * b)
<1>1. n \in Nat
    BY LenProperties
<1>2. ASSUME NEW b \in 1..((n + 3) \div 4)
      PROVE  flag(b) = Digits(LeftOut(points, b))
  <2> DEFINE d == LeftOut(points, b)
  <2>1. b \in Int
    OBVIOUS
  <2>2. ASSUME NEW i \in Int, NEW x \in {0, 1}, NEW y \in {0, 1},
               x = (IF i <= n /\ points[i][1] = 0 THEN 1 ELSE 0),
               y = (IF i <= n /\ points[i][2] = 0 THEN 1 ELSE 0)
        PROVE  two(i) = 2 * x + y
    BY <1>1, <2>2
  <2>3. /\ d[8] = (IF 4 * b - 3 <= n /\ points[4 * b - 3][1] = 0 THEN 1 ELSE 0)
        /\ d[7] = (IF 4 * b - 3 <= n /\ points[4 * b - 3][2] = 0 THEN 1 ELSE 0)
        /\ d[6] = (IF 4 * b - 2 <= n /\ points[4 * b - 2][1] = 0 THEN 1 ELSE 0)
        /\ d[5] = (IF 4 * b - 2 <= n /\ points[4 * b - 2][2] = 0 THEN 1 ELSE 0)
        /\ d[4] = (IF 4 * b - 1 <= n /\ points[4 * b - 1][1] = 0 THEN 1 ELSE 0)
        /\ d[3] = (IF 4 * b - 1 <= n /\ points[4 * b - 1][2] = 0 THEN 1 ELSE 0)
        /\ d[2] = (IF 4 * b <= n /\ points[4 * b][1] = 0 THEN 1 ELSE 0)
        /\ d[1] = (IF 4 * b <= n /\ points[4 * b][2] = 0 THEN 1 ELSE 0)
    <3>1. /\ (8 - 1) \div 2 = 3 /\ (7 - 1) \div 2 = 3 /\ (6 - 1) \div 2 = 2 /\ (5 - 1) \div 2 = 2
          /\ (4 - 1) \div 2 = 1 /\ (3 - 1) \div 2 = 1 /\ (2 - 1) \div 2 = 0 /\ (1 - 1) \div 2 = 0
          /\ 4 * b - 0 = 4 * b
      BY <2>1
    <3>2. /\ 2 - ((8 + 1) % 2) = 1 /\ 2 - ((7 + 1) % 2) = 2 /\ 2 - ((6 + 1) % 2) = 1
          /\ 2 - ((5 + 1) % 2) = 2 /\ 2 - ((4 + 1) % 2) = 1 /\ 2 - ((3 + 1) % 2) = 2
          /\ 2 - ((2 + 1) % 2) = 1 /\ 2 - ((1 + 1) % 2) = 2
      OBVIOUS
    <3> QED
      BY <3>1, <3>2 DEF LeftOut
  <2>4. \A j \in 1..8 : d[j] \in {0, 1}
    BY FlagsAre
  <2> HIDE DEF d, two
  <2>5. two(4 * b - 3) = 2 * d[8] + d[7]
    <3> DEFINE i == 4 * b - 3
    <3>1. /\ i \in Int /\ d[8] \in {0, 1} /\ d[7] \in {0, 1}
          /\ d[8] = (IF i <= n /\ points[i][1] = 0 THEN 1 ELSE 0)
          /\ d[7] = (IF i <= n /\ points[i][2] = 0 THEN 1 ELSE 0)
      BY <2>1, <2>3, <2>4
    <3> HIDE DEF i
    <3>2. two(i) = 2 * d[8] + d[7]
      BY <2>2, <3>1
    <3> QED
      BY <3>2 DEF i
  <2>6. two(4 * b - 2) = 2 * d[6] + d[5]
    <3> DEFINE i == 4 * b - 2
    <3>1. /\ i \in Int /\ d[6] \in {0, 1} /\ d[5] \in {0, 1}
          /\ d[6] = (IF i <= n /\ points[i][1] = 0 THEN 1 ELSE 0)
          /\ d[5] = (IF i <= n /\ points[i][2] = 0 THEN 1 ELSE 0)
      BY <2>1, <2>3, <2>4
    <3> HIDE DEF i
    <3>2. two(i) = 2 * d[6] + d[5]
      BY <2>2, <3>1
    <3> QED
      BY <3>2 DEF i
  <2>7. two(4 * b - 1) = 2 * d[4] + d[3]
    <3> DEFINE i == 4 * b - 1
    <3>1. /\ i \in Int /\ d[4] \in {0, 1} /\ d[3] \in {0, 1}
          /\ d[4] = (IF i <= n /\ points[i][1] = 0 THEN 1 ELSE 0)
          /\ d[3] = (IF i <= n /\ points[i][2] = 0 THEN 1 ELSE 0)
      BY <2>1, <2>3, <2>4
    <3> HIDE DEF i
    <3>2. two(i) = 2 * d[4] + d[3]
      BY <2>2, <3>1
    <3> QED
      BY <3>2 DEF i
  <2>8. two(4 * b) = 2 * d[2] + d[1]
    <3> DEFINE i == 4 * b
    <3>1. /\ i \in Int /\ d[2] \in {0, 1} /\ d[1] \in {0, 1}
          /\ d[2] = (IF i <= n /\ points[i][1] = 0 THEN 1 ELSE 0)
          /\ d[1] = (IF i <= n /\ points[i][2] = 0 THEN 1 ELSE 0)
      BY <2>1, <2>3, <2>4
    <3> HIDE DEF i
    <3>2. two(i) = 2 * d[2] + d[1]
      BY <2>2, <3>1
    <3> QED
      BY <3>2 DEF i
  <2>9. /\ d[1] \in {0, 1} /\ d[2] \in {0, 1} /\ d[3] \in {0, 1} /\ d[4] \in {0, 1}
        /\ d[5] \in {0, 1} /\ d[6] \in {0, 1} /\ d[7] \in {0, 1} /\ d[8] \in {0, 1}
    BY <2>4
  <2>10. flag(b) = Digits(d)
    <3>1. flag(b) = 64 * (2 * d[8] + d[7]) + 16 * (2 * d[6] + d[5]) + 4 * (2 * d[4] + d[3])
                    + (2 * d[2] + d[1])
      <4> DEFINE t1 == two(4 * b - 3)
                 t2 == two(4 * b - 2)
                 t3 == two(4 * b - 1)
                 t4 == two(4 * b)
      <4>1. flag(b) = 64 * t1 + 16 * t2 + 4 * t3 + t4
        OBVIOUS
      <4>2. t1 = 2 * d[8] + d[7] /\ t2 = 2 * d[6] + d[5] /\ t3 = 2 * d[4] + d[3] /\ t4 = 2 * d[2] + d[1]
        BY <2>5, <2>6, <2>7, <2>8
      <4> HIDE DEF t1, t2, t3, t4, flag
      <4> QED
        BY <4>1, <4>2
    <3> DEFINE v1 == d[1]
               v2 == d[2]
               v3 == d[3]
               v4 == d[4]
               v5 == d[5]
               v6 == d[6]
               v7 == d[7]
               v8 == d[8]
               sum == v1 + 2 * v2 + 4 * v3 + 8 * v4 + 16 * v5 + 32 * v6 + 64 * v7 + 128 * v8
    <3>2. /\ v1 \in Int /\ v2 \in Int /\ v3 \in Int /\ v4 \in Int
          /\ v5 \in Int /\ v6 \in Int /\ v7 \in Int /\ v8 \in Int
      <4>1. /\ v1 \in {0, 1} /\ v2 \in {0, 1} /\ v3 \in {0, 1} /\ v4 \in {0, 1}
            /\ v5 \in {0, 1} /\ v6 \in {0, 1} /\ v7 \in {0, 1} /\ v8 \in {0, 1}
        BY <2>9
      <4> HIDE DEF v1, v2, v3, v4, v5, v6, v7, v8
      <4> QED
        BY <4>1
    <3>3. Digits(d) = sum
      BY DEF Digits
    <3>4. 64 * (2 * v8 + v7) + 16 * (2 * v6 + v5) + 4 * (2 * v4 + v3) + (2 * v2 + v1) = sum
      <4> HIDE DEF v1, v2, v3, v4, v5, v6, v7, v8
      <4> QED
        BY <3>2
    <3> HIDE DEF flag, sum
    <3> QED
      BY <3>1, <3>3, <3>4
  <2> HIDE DEF flag
  <2> QED
    BY <2>10 DEF d
<1>3. [b \in 1..((n + 3) \div 4) |-> flag(b)] = PointFlags(points)
  <2> HIDE DEF flag
  <2> QED
    BY <1>2 DEF PointFlags
<1>4. WritePoints(points) = [b \in 1..((n + 3) \div 4) |-> flag(b)] \o Joined(PointPieces(points))
    BY DEF WritePoints, PointPieces
<1> QED
    BY <1>3, <1>4

\* The flags of the i-th point say where x and y are zero.
LEMMA FlagOf ==
    ASSUME NEW points \in Seq(Pairs), NEW i \in 1..Len(points)
    PROVE  /\ (i - 1) \div 4 + 1 \in 1..((Len(points) + 3) \div 4)
           /\ LET flag == PointFlags(points)[(i - 1) \div 4 + 1]
                  shift == 2 * ((i - 1) % 4)
              IN  /\ Bit(flag, 7 - shift) <=> points[i][1] = 0
                  /\ Bit(flag, 6 - shift) <=> points[i][2] = 0
<1> DEFINE n == Len(points)
           q == (i - 1) \div 4
           r == (i - 1) % 4
           b == q + 1
           d == LeftOut(points, b)
<1>1. n \in Nat /\ i \in Nat /\ 1 <= i /\ i <= n
    BY LenProperties
<1>2. q \in Int /\ r \in Int /\ 4 * q + r = i - 1 /\ 0 <= r /\ r < 4
    BY <1>1
<1>3. b \in 1..((n + 3) \div 4)
    BY <1>1
<1>4. PointFlags(points)[b] = Digits(d) /\ d \in [1..8 -> {0, 1}]
    BY <1>3, FlagsAre DEF PointFlags
<1>5. \A j \in 0..7 : Bit(Digits(d), j) <=> d[j + 1] = 1
  <2> HIDE DEF d
  <2> QED
    BY <1>4, BitsOf
<1>6. \A j \in 1..8 : d[j] = IF 4 * b - (j - 1) \div 2 <= n
                               /\ points[4 * b - (j - 1) \div 2][2 - ((j + 1) % 2)] = 0 THEN 1 ELSE 0
    BY DEF LeftOut
<1>11. b = q + 1
    OBVIOUS
<1> HIDE DEF q, r, d, b
<1>7. ASSUME NEW j \in 1..8, (j - 1) \div 2 = 3 - r
      PROVE  d[j] = 1 <=> points[i][2 - ((j + 1) % 2)] = 0
  <2>1. 4 * b - (3 - r) = i
    BY <1>1, <1>2, <1>11
  <2>2. d[j] = IF 4 * b - (3 - r) <= n /\ points[4 * b - (3 - r)][2 - ((j + 1) % 2)] = 0 THEN 1 ELSE 0
    <3> DEFINE e == (j - 1) \div 2
               k == 2 - ((j + 1) % 2)
    <3>1. d[j] = IF 4 * b - e <= n /\ points[4 * b - e][k] = 0 THEN 1 ELSE 0
      BY <1>6
    <3>2. e = 3 - r
      BY <1>7
    <3> HIDE DEF e, k
    <3>3. d[j] = IF 4 * b - (3 - r) <= n /\ points[4 * b - (3 - r)][k] = 0 THEN 1 ELSE 0
      BY <3>1, <3>2
    <3> QED
      BY <3>3 DEF k
  <2> QED
    BY <1>1, <2>1, <2>2
<1>8. /\ Bit(Digits(d), 7 - 2 * r) <=> points[i][1] = 0
      /\ Bit(Digits(d), 6 - 2 * r) <=> points[i][2] = 0
  <2> DEFINE k == 8 - 2 * r
             m == 7 - 2 * r
  <2>1. /\ k \in 1..8 /\ m \in 1..8 /\ (k - 1) \div 2 = 3 - r /\ (m - 1) \div 2 = 3 - r
        /\ 2 - ((k + 1) % 2) = 1 /\ 2 - ((m + 1) % 2) = 2
        /\ 7 - 2 * r \in 0..7 /\ 6 - 2 * r \in 0..7
        /\ (7 - 2 * r) + 1 = k /\ (6 - 2 * r) + 1 = m
    <3>1. r = 0 \/ r = 1 \/ r = 2 \/ r = 3
      BY <1>2
    <3> QED
      BY <3>1
  <2> HIDE DEF k, m
  <2>2. d[k] = 1 <=> points[i][1] = 0
    BY <1>7, <2>1
  <2>3. d[m] = 1 <=> points[i][2] = 0
    BY <1>7, <2>1
  <2>4. (Bit(Digits(d), 7 - 2 * r) <=> d[k] = 1) /\ (Bit(Digits(d), 6 - 2 * r) <=> d[m] = 1)
    BY <1>5, <2>1
  <2> QED
    BY <2>2, <2>3, <2>4
<1>9. PointFlags(points)[q + 1] = Digits(d) /\ q + 1 \in 1..((n + 3) \div 4)
    BY <1>3, <1>4, <1>11
<1> QED
    BY <1>8, <1>9 DEF q, r

\* Where the k-th number of a list of points ends.
EndOf(points, u, k) == (Len(points) + 3) \div 4 + 1 + Len(u[k])

\* The differences of each point, x first.
LEMMA PointPiecesAre ==
    ASSUME NEW points \in Seq(Pairs)
    PROVE  /\ 2 * Len(points) \in Nat /\ PointPieces(points) \in [1..(2 * Len(points)) -> Seq(Int)]
           /\ \A i \in 1..Len(points) :
                 /\ 2 * i - 1 \in 1..(2 * Len(points)) /\ 2 * i \in 1..(2 * Len(points))
                 /\ points[i][1] \in Differences /\ points[i][2] \in Differences
                 /\ points[i] = <<points[i][1], points[i][2]>>
                 /\ PointPieces(points)[2 * i - 1]
                       = IF points[i][1] = 0 THEN <<>> ELSE WriteDifference(points[i][1])
                 /\ PointPieces(points)[2 * i]
                       = IF points[i][2] = 0 THEN <<>> ELSE WriteDifference(points[i][2])
<1> DEFINE n == Len(points)
<1>1. n \in Nat /\ \A i \in 1..n : points[i] \in Pairs
    BY LenProperties, ElementOfSeq
<1> HIDE DEF n
<1>2. \A i \in 1..n : /\ points[i][1] \in Differences /\ points[i][2] \in Differences
                      /\ points[i] = <<points[i][1], points[i][2]>>
    BY <1>1 DEF Pairs
<1>3. ASSUME NEW k \in 1..(2 * n)
      PROVE  PointPieces(points)[k] \in Seq(Int)
  <2> DEFINE i == (k + 1) \div 2
             j == 2 - (k % 2)
             v == points[i][j]
  <2>1. i \in 1..n /\ j \in {1, 2}
    BY <1>1
  <2>2. v \in Differences
    <3> HIDE DEF i, j
    <3> QED
      BY <1>2, <2>1
  <2>3. PointPieces(points)[k] = IF v = 0 THEN <<>> ELSE WriteDifference(v)
    BY DEF PointPieces, n
  <2>4. <<>> \in Seq(Int)
    OBVIOUS
  <2> HIDE DEF v
  <2> QED
    BY <2>2, <2>3, <2>4, DifferenceIs
<1>4. ASSUME NEW i \in 1..n
      PROVE  /\ 2 * i - 1 \in 1..(2 * n) /\ 2 * i \in 1..(2 * n)
             /\ PointPieces(points)[2 * i - 1]
                   = IF points[i][1] = 0 THEN <<>> ELSE WriteDifference(points[i][1])
             /\ PointPieces(points)[2 * i]
                   = IF points[i][2] = 0 THEN <<>> ELSE WriteDifference(points[i][2])
  <2>1. /\ 2 * i - 1 \in 1..(2 * n) /\ 2 * i \in 1..(2 * n)
        /\ ((2 * i - 1) + 1) \div 2 = i /\ 2 - ((2 * i - 1) % 2) = 1
        /\ ((2 * i) + 1) \div 2 = i /\ 2 - ((2 * i) % 2) = 2
    BY <1>1
  <2>2. \A k \in 1..(2 * n) :
           PointPieces(points)[k] = LET v == points[(k + 1) \div 2][2 - (k % 2)]
                                    IN IF v = 0 THEN <<>> ELSE WriteDifference(v)
    BY DEF PointPieces, n
  <2> DEFINE a == 2 * i - 1
             b == 2 * i
  <2>3. /\ a \in 1..(2 * n) /\ b \in 1..(2 * n)
        /\ (a + 1) \div 2 = i /\ 2 - (a % 2) = 1 /\ (b + 1) \div 2 = i /\ 2 - (b % 2) = 2
    BY <2>1
  <2> HIDE DEF a, b
  <2>4. /\ PointPieces(points)[a] = IF points[i][1] = 0 THEN <<>> ELSE WriteDifference(points[i][1])
        /\ PointPieces(points)[b] = IF points[i][2] = 0 THEN <<>> ELSE WriteDifference(points[i][2])
    BY <2>2, <2>3
  <2> QED
    BY <2>3, <2>4 DEF a, b
<1>5. PointPieces(points) \in [1..(2 * n) -> Seq(Int)]
  <2>1. PointPieces(points) = [k \in 1..(2 * n) |-> PointPieces(points)[k]]
    BY DEF PointPieces, n
  <2> QED
    BY <1>3, <2>1
<1>6. 2 * n \in Nat
    BY <1>1
<1> QED
    BY <1>2, <1>4, <1>5, <1>6 DEF n

\* One number of a point is read as it was written, or known to be zero.
LEMMA NumberRead ==
    ASSUME NEW points \in Seq(Pairs), NEW u, Joins(u, PointPieces(points), 2 * Len(points)),
           Joined(PointPieces(points)) = u[2 * Len(points)],
           NEW k \in 1..(2 * Len(points)), NEW v \in Differences,
           PointPieces(points)[k] = IF v = 0 THEN <<>> ELSE WriteDifference(v)
    PROVE  (IF v = 0 THEN [p |-> EndOf(points, u, k - 1), value |-> 0]
            ELSE parse_delta(WritePoints(points), EndOf(points, u, k - 1)))
              = [p |-> EndOf(points, u, k), value |-> v]
<1> DEFINE L == 2 * Len(points)
           lists == PointPieces(points)
           flags == PointFlags(points)
           data == WritePoints(points)
           first == (Len(points) + 3) \div 4 + 1
           a == Len(u[k - 1])
           q == first + a
<1>1. L \in Nat /\ lists \in [1..L -> Seq(Int)]
    BY PointPiecesAre
<1>2. Placed(u, lists, L)
  <2> HIDE DEF lists, L
  <2> QED
    BY <1>1, PieceAt DEF lists, L
<1>3. /\ flags \in Seq(Int) /\ Len(flags) + 1 = first /\ first \in Nat
      /\ data = flags \o u[L] /\ u[L] \in Seq(Int)
  <2>1. flags \in Seq(Int) /\ Len(flags) + 1 = first
    BY FlagsAre
  <2>2. first \in Nat
    <3>1. Len(points) \in Nat
      BY LenProperties
    <3> QED
      BY <3>1
  <2>3. data = flags \o u[L]
    BY PointsWritten
  <2>4. u[L] \in Seq(Int)
    <3>1. L \in 0..L
      BY <1>1
    <3> HIDE DEF L, lists
    <3> QED
      BY <1>2, <3>1 DEF Placed
  <2> QED
    BY <2>1, <2>2, <2>3, <2>4
<1>4. Written(data, 1, data)
  <2>1. \A i \in 1..Len(data) : 1 + i - 1 = i
    OBVIOUS
  <2> HIDE DEF data
  <2> QED
    BY <2>1 DEF Written
<1>5. Written(data, first, u[L])
  <2>1. 1 \in Nat /\ Written(data, 1, flags \o u[L])
    BY <1>3, <1>4
  <2>2. 1 + Len(flags) = first
    <3>1. Len(flags) \in Nat
      BY <1>3, LenProperties
    <3> HIDE DEF flags, first
    <3> QED
      BY <1>3, <3>1
  <2> HIDE DEF data, flags, L
  <2>3. Written(data, 1 + Len(flags), u[L])
    BY <1>3, <2>1, AtBoth
  <2> HIDE DEF first
  <2> QED
    BY <2>2, <2>3
<1>6. Written(data, q, lists[k])
  <2> HIDE DEF data, lists, L, first
  <2>1. k \in 1..L /\ Joins(u, lists, L)
    BY DEF L, lists
  <2> QED
    BY <1>1, <1>3, <1>5, <2>1, PieceThere
<1>7. a \in Nat /\ Len(lists[k]) \in Nat /\ Len(u[k]) = a + Len(lists[k])
  <2>1. k - 1 \in 0..L /\ k \in 1..L
    BY <1>1
  <2> HIDE DEF lists, L
  <2> QED
    BY <1>2, <2>1 DEF Placed
<1>8. EndOf(points, u, k - 1) = q /\ EndOf(points, u, k) = first + Len(u[k])
    BY DEF EndOf
<1>9. q \in Nat /\ first + Len(u[k]) = q + Len(lists[k])
  <2> DEFINE b == Len(u[k])
             c == Len(lists[k])
  <2>1. a \in Nat /\ c \in Nat /\ b = a + c /\ first \in Nat
    BY <1>3, <1>7
  <2> HIDE DEF a, b, c, first
  <2>2. first + a \in Nat /\ first + b = (first + a) + c
    BY <2>1
  <2> QED
    BY <2>2 DEF b, c
<1> HIDE DEF q, data, first, a
<1>10. CASE v = 0
  <2>1. Len(lists[k]) = 0
    BY <1>10
  <2> HIDE DEF lists
  <2>2. first + Len(u[k]) = q
    BY <1>9, <2>1
  <2> QED
    BY <1>8, <1>10, <2>2
<1>11. CASE v # 0
  <2>1. lists[k] = WriteDifference(v)
    BY <1>11
  <2>2. parse_delta(data, q) = [p |-> q + Len(WriteDifference(v)), value |-> v]
    BY <1>6, <1>9, <2>1, DifferenceRead
  <2> HIDE DEF lists
  <2> QED
    BY <1>8, <1>9, <1>11, <2>1, <2>2 DEF data
<1> QED
    BY <1>10, <1>11

\* One turn of the loop over the points.
OnePoint(data, i, before) ==
    LET flags == data[(i - 1) \div 4 + 1]
        shift == 2 * ((i - 1) % 4)
        x == IF Bit(flags, 7 - shift) THEN [p |-> before.p, value |-> 0]
             ELSE parse_delta(data, before.p)
        y == IF Bit(flags, 6 - shift) THEN [p |-> x.p, value |-> 0]
             ELSE parse_delta(data, x.p)
    IN  IF before.p > Len(data) THEN before
        ELSE [p |-> y.p, points |-> Append(before.points, <<x.value, y.value>>)]

\* The program finds a point where the server wrote it.
LEMMA PointRead ==
    ASSUME NEW points \in Seq(Pairs), NEW u, Joins(u, PointPieces(points), 2 * Len(points)),
           Joined(PointPieces(points)) = u[2 * Len(points)],
           NEW i \in 1..Len(points), NEW before, before.p = EndOf(points, u, 2 * (i - 1)),
           ~(before.p > Len(WritePoints(points)))
    PROVE  OnePoint(WritePoints(points), i, before)
              = [p |-> EndOf(points, u, 2 * i), points |-> Append(before.points, points[i])]
<1> DEFINE data == WritePoints(points)
           flags == data[(i - 1) \div 4 + 1]
           shift == 2 * ((i - 1) % 4)
           x == IF Bit(flags, 7 - shift) THEN [p |-> before.p, value |-> 0]
                ELSE parse_delta(data, before.p)
           y == IF Bit(flags, 6 - shift) THEN [p |-> x.p, value |-> 0]
                ELSE parse_delta(data, x.p)
           v == points[i][1]
           w == points[i][2]
           a == 2 * i - 1
           b == 2 * i
<1>1. /\ a \in 1..(2 * Len(points)) /\ b \in 1..(2 * Len(points))
      /\ v \in Differences /\ w \in Differences /\ points[i] = <<v, w>>
      /\ PointPieces(points)[a] = IF v = 0 THEN <<>> ELSE WriteDifference(v)
      /\ PointPieces(points)[b] = IF w = 0 THEN <<>> ELSE WriteDifference(w)
    BY PointPiecesAre
<1>2. a - 1 = 2 * (i - 1) /\ b - 1 = a
    OBVIOUS
<1>3. /\ Bit(flags, 7 - shift) <=> v = 0
      /\ Bit(flags, 6 - shift) <=> w = 0
  <2> DEFINE k == (i - 1) \div 4 + 1
             F == PointFlags(points)
  <2>1. k \in 1..((Len(points) + 3) \div 4)
    BY FlagOf
  <2>2. (Bit(F[k], 7 - shift) <=> v = 0) /\ (Bit(F[k], 6 - shift) <=> w = 0)
    BY FlagOf
  <2>3. F \in Seq(Int) /\ Len(F) = (Len(points) + 3) \div 4
    BY FlagsAre
  <2>4. u[2 * Len(points)] \in Seq(Int)
    <3> DEFINE L == 2 * Len(points)
               lists == PointPieces(points)
    <3>1. L \in Nat /\ lists \in [1..L -> Seq(Int)] /\ L \in 0..L
      BY PointPiecesAre
    <3> HIDE DEF L, lists
    <3>2. Placed(u, lists, L)
      BY <3>1, PieceAt DEF L, lists
    <3>3. u[L] \in Seq(Int)
      BY <3>1, <3>2 DEF Placed
    <3> QED
      BY <3>3 DEF L
  <2>5. data = F \o u[2 * Len(points)]
    BY PointsWritten
  <2> HIDE DEF data, F, k, shift, v, w
  <2>6. data[k] = F[k]
    <3> DEFINE J == u[2 * Len(points)]
    <3>1. J \in Seq(Int) /\ data = F \o J
      BY <2>4, <2>5
    <3> HIDE DEF J
    <3>2. k \in 1..Len(F)
      BY <2>1, <2>3
    <3>3. \A j \in 1..Len(F) : (F \o J)[j] = F[j]
      BY <2>3, <3>1, BehindIs
    <3> QED
      BY <3>1, <3>2, <3>3
  <2> QED
    BY <2>2, <2>6 DEF k
<1>4. x = [p |-> EndOf(points, u, a), value |-> v]
  <2>1. (IF v = 0 THEN [p |-> EndOf(points, u, a - 1), value |-> 0]
         ELSE parse_delta(data, EndOf(points, u, a - 1))) = [p |-> EndOf(points, u, a), value |-> v]
    <3> HIDE DEF a, v
    <3> QED
      BY <1>1, NumberRead
  <2>2. before.p = EndOf(points, u, a - 1)
    BY <1>2
  <2> HIDE DEF flags, data, shift, a, v
  <2> QED
    BY <1>3, <2>1, <2>2
<1>5. y = [p |-> EndOf(points, u, b), value |-> w]
  <2>1. (IF w = 0 THEN [p |-> EndOf(points, u, b - 1), value |-> 0]
         ELSE parse_delta(data, EndOf(points, u, b - 1))) = [p |-> EndOf(points, u, b), value |-> w]
    <3> HIDE DEF b, w
    <3> QED
      BY <1>1, NumberRead
  <2>2. x.p = EndOf(points, u, b - 1)
    <3> HIDE DEF x
    <3> QED
      BY <1>2, <1>4
  <2> HIDE DEF flags, data, shift, a, b, v, w, x
  <2> QED
    BY <1>3, <2>1, <2>2
<1>6. OnePoint(data, i, before)
         = IF before.p > Len(data) THEN before
           ELSE [p |-> y.p, points |-> Append(before.points, <<x.value, y.value>>)]
    BY DEF OnePoint
<1> HIDE DEF x, y, a, v, w
<1>7. <<x.value, y.value>> = points[i] /\ y.p = EndOf(points, u, b)
    BY <1>1, <1>4, <1>5
<1> QED
    BY <1>6, <1>7

\* The program finds the points, unless the last one is where the one before is.
LEMMA PointsRead ==
    ASSUME NEW points \in Seq(Pairs)
    PROVE  LET found == Points(WritePoints(points), Len(points))
           IN  \/ found = points
               \/ Len(found) # Len(points) /\ points[Len(points)] = <<0, 0>>
<1> DEFINE n == Len(points)
           data == WritePoints(points)
           lists == PointPieces(points)
           L == 2 * n
           F == (n + 3) \div 4
           first == F + 1
           Loop(f) == f = [i \in 0..n |-> IF i = 0 THEN [p |-> first, points |-> <<>>]
                                          ELSE OnePoint(data, i, f[i - 1])]
           at == CHOOSE f : Loop(f)
<1>1. n \in Nat /\ L \in Nat /\ lists \in [1..L -> Seq(Int)] /\ F \in Nat
  <2>1. n \in Nat
    BY LenProperties
  <2>2. L \in Nat /\ lists \in [1..L -> Seq(Int)]
    BY PointPiecesAre
  <2> HIDE DEF n
  <2>3. F \in Nat
    BY <2>1
  <2> QED
    BY <2>1, <2>2, <2>3
<1>2. Points(data, n) = at[n].points
    BY DEF Points, OnePoint
<1>3. PICK u : Joins(u, lists, L) /\ Joined(lists) = u[L]
  <2> HIDE DEF L, lists
  <2> QED
    BY <1>1, JoinedIs
<1>4. Placed(u, lists, L)
  <2> HIDE DEF L, lists
  <2> QED
    BY <1>1, <1>3, PieceAt
<1> DEFINE P(j) == EndOf(points, u, 2 * j)
<1>5. \A j \in 0..n : 2 * j \in 0..L /\ P(j) = first + Len(u[2 * j]) /\ Len(u[2 * j]) \in Nat /\ P(j) \in Nat
  <2>1. \A j \in 0..n : 2 * j \in 0..L
    BY <1>1
  <2> HIDE DEF L, lists
  <2>2. \A j \in 0..n : Len(u[2 * j]) \in Nat
    BY <1>4, <2>1 DEF Placed
  <2>3. \A j \in 0..n : P(j) = first + Len(u[2 * j])
    BY DEF EndOf
  <2>4. first \in Nat
    BY <1>1
  <2> HIDE DEF P, first
  <2>5. \A j \in 0..n : P(j) \in Nat
    BY <2>2, <2>3, <2>4
  <2> QED
    BY <2>1, <2>2, <2>3, <2>5
<1>6. Len(data) \in Nat /\ P(n) = Len(data) + 1
  <2>1. PointFlags(points) \in Seq(Int) /\ Len(PointFlags(points)) = F
    BY FlagsAre
  <2>2. data = PointFlags(points) \o u[L]
    BY <1>3, PointsWritten
  <2>3. u[L] \in Seq(Int) /\ Len(u[L]) \in Nat
    <3>1. L \in 0..L
      BY <1>1
    <3> HIDE DEF L, lists
    <3> QED
      BY <1>4, <3>1 DEF Placed
  <2>4. Len(data) = F + Len(u[L])
    <3> DEFINE f == PointFlags(points)
               J == u[L]
    <3>1. f \in Seq(Int) /\ J \in Seq(Int) /\ Len(f) = F /\ data = f \o J
      BY <2>1, <2>2, <2>3
    <3> HIDE DEF f, J, F, data
    <3>2. Len(f \o J) = Len(f) + Len(J)
      BY <3>1, ConcatProperties
    <3> QED
      BY <3>1, <3>2 DEF J
  <2> HIDE DEF data, L
  <2>5. P(n) = first + Len(u[L])
    <3>1. n \in 0..n
      BY <1>1
    <3> QED
      BY <1>5, <3>1 DEF L
  <2> DEFINE e == Len(u[L])
  <2>6. Len(data) = F + e /\ P(n) = (F + 1) + e /\ e \in Nat /\ F \in Nat
    BY <1>1, <2>3, <2>4, <2>5
  <2> HIDE DEF e, P, F
  <2> QED
    BY <2>6
<1>7. PICK m \in 0..n : P(m) > Len(data) /\ \A j \in 0..n : P(j) > Len(data) => m <= j
  <2> DEFINE S == {j \in 0..n : P(j) > Len(data)}
  <2>1. n \in S
    BY <1>1, <1>6
  <2>2. S \in SUBSET Nat
    OBVIOUS
  <2> HIDE DEF P, data, n
  <2>3. PICK k \in S : \A j \in S : k <= j
    <3> HIDE DEF S
    <3> QED
      BY <2>1, <2>2, Smallest
  <2> QED
    BY <2>3
<1> DEFINE k(j) == IF j <= m THEN j ELSE m
           c(j) == [p |-> P(k(j)), points |-> SubSeq(points, 1, k(j))]
<1>8. c(0) = [p |-> first, points |-> <<>>]
  <2>1. k(0) = 0
    BY <1>1
  <2>2. P(0) = first
    <3>1. u[0] = <<>> /\ Len(<<>>) = 0 /\ 2 * 0 = 0 /\ 0 \in 0..n
      BY <1>1, <1>3 DEF Joins
    <3>2. P(0) = first + Len(u[0])
      BY <1>5, <3>1
    <3>3. first + 0 = first
      BY <1>1
    <3> HIDE DEF P, first
    <3> QED
      BY <3>1, <3>2, <3>3
  <2>3. SubSeq(points, 1, 0) = <<>>
    BY SubSeqEmpty
  <2> HIDE DEF P, k
  <2> QED
    BY <2>1, <2>2, <2>3
<1>9. ASSUME NEW i \in 1..n PROVE OnePoint(data, i, c(i - 1)) = c(i)
  <2>1. i \in Nat /\ i - 1 \in 0..n /\ m \in Nat /\ m <= n /\ i <= n
    BY <1>1
  <2>2. CASE i - 1 < m
    <3>1. k(i - 1) = i - 1 /\ k(i) = i
      BY <2>1, <2>2
    <3> HIDE DEF k
    <3>2. c(i - 1).p = P(i - 1) /\ c(i - 1).points = SubSeq(points, 1, i - 1)
      BY <3>1
    <3>3. ~(P(i - 1) > Len(data))
      <4> HIDE DEF P, data, n
      <4>1. P(i - 1) > Len(data) => m <= i - 1
        BY <1>7, <2>1
      <4> QED
        BY <2>1, <2>2, <4>1
    <3>4. Append(SubSeq(points, 1, i - 1), points[i]) = SubSeq(points, 1, i)
      <4>1. points[i] \in Pairs /\ i \in 1..n /\ 1 \in 1..n
        BY <2>1, ElementOfSeq
      <4>2. SubSeq(points, 1, i) = SubSeq(points, 1, i - 1) \o <<points[i]>>
        BY <2>1, <4>1, SubSeqRecursiveSecond
      <4>3. SubSeq(points, 1, i - 1) \in Seq(Pairs)
        BY <2>1, FrontIs
      <4> QED
        BY <4>1, <4>2, <4>3, AppendIsConcat
    <3> DEFINE before == c(i - 1)
    <3>5. before.p = EndOf(points, u, 2 * (i - 1)) /\ before.points = SubSeq(points, 1, i - 1)
          /\ ~(before.p > Len(data))
      <4> HIDE DEF c, data
      <4> QED
        BY <3>2, <3>3
    <3> HIDE DEF before
    <3>6. OnePoint(data, i, before)
             = [p |-> EndOf(points, u, 2 * i), points |-> Append(before.points, points[i])]
      BY <1>3, <3>5, PointRead
    <3>7. c(i) = [p |-> EndOf(points, u, 2 * i), points |-> SubSeq(points, 1, i)]
      BY <3>1
    <3> HIDE DEF c, data
    <3> QED
      BY <3>4, <3>5, <3>6, <3>7 DEF before
  <2>3. CASE ~(i - 1 < m)
    <3>1. k(i - 1) = m /\ k(i) = m
      BY <2>1, <2>3
    <3>2. c(i - 1) = c(i)
      <4> HIDE DEF k, P
      <4> QED
        BY <3>1
    <3>3. c(i - 1).p = P(m)
      <4> HIDE DEF k, P
      <4> QED
        BY <3>1
    <3> DEFINE before == c(i - 1)
    <3>4. before.p > Len(data)
      <4> HIDE DEF P, data, c
      <4> QED
        BY <1>7, <3>3
    <3> HIDE DEF before, data
    <3>5. OnePoint(data, i, before) = before
      BY <3>4 DEF OnePoint
    <3> HIDE DEF c
    <3> QED
      BY <3>2, <3>5 DEF before
  <2> QED
    BY <2>2, <2>3
<1> DEFINE h == [j \in 0..n |-> c(j)]
<1>10. h[0] = c(0) /\ \A j \in 1..n : j \in 0..n /\ j - 1 \in 0..n /\ h[j] = c(j) /\ h[j - 1] = c(j - 1)
  <2>1. 0 \in 0..n /\ \A j \in 1..n : j \in 0..n /\ j - 1 \in 0..n
    BY <1>1
  <2>2. \A j \in 0..n : h[j] = c(j)
    <3> HIDE DEF c
    <3> QED
      OBVIOUS
  <2> HIDE DEF h, c
  <2> QED
    BY <2>1, <2>2
<1>11. Loop(h)
  <2>1. ASSUME NEW j \in 0..n
        PROVE  (IF j = 0 THEN [p |-> first, points |-> <<>>] ELSE OnePoint(data, j, h[j - 1])) = c(j)
    <3>1. CASE j = 0
      BY <1>8, <3>1
    <3>2. CASE j # 0
      <4>1. j \in 1..n
        BY <1>1, <3>2
      <4> HIDE DEF c, h, data, n
      <4> QED
        BY <1>9, <1>10, <3>2, <4>1
    <3> QED
      BY <3>1, <3>2
  <2> HIDE DEF c, data
  <2> QED
    BY <2>1
<1>12. Loop(at)
  <2> HIDE DEF Loop, h
  <2> QED
    BY <1>11
<1>13. Alike(at, h, n)
  <2>1. at[0] = [p |-> first, points |-> <<>>] /\ \A j \in 1..n : at[j] = OnePoint(data, j, at[j - 1])
    <3> HIDE DEF at, data
    <3>1. 0 \in 0..n /\ \A j \in 1..n : j \in 0..n /\ j # 0
      BY <1>1
    <3> QED
      BY <1>12, <3>1
  <2> HIDE DEF at, h, c, data
  <2> QED
    BY <1>8, <1>9, <1>10, <2>1 DEF Alike
<1>14. at[n] = h[n]
  <2>1. n \in 0..n
    BY <1>1
  <2> HIDE DEF at, h, n
  <2>2. \A j \in 0..n : at[j] = h[j]
    BY <1>1, <1>13, SameLoop
  <2> QED
    BY <2>1, <2>2
<1>15. Points(data, n) = SubSeq(points, 1, m)
  <2>1. n \in 0..n /\ m <= n
    BY <1>1
  <2>2. h[n].points = c(n).points
    <3> HIDE DEF c
    <3> QED
      BY <2>1
  <2>3. k(n) = m
    BY <1>1, <2>1
  <2>4. c(n).points = SubSeq(points, 1, m)
    <3> HIDE DEF k, P
    <3> QED
      BY <2>3
  <2> HIDE DEF c, h, at, data
  <2> QED
    BY <1>2, <1>14, <2>2, <2>4
<1>16. CASE m = n
  <2>1. SubSeq(points, 1, n) = points
    BY SubSeqFull
  <2> QED
    BY <1>15, <1>16, <2>1
<1>17. CASE m # n
  <2>1. m \in Nat /\ m < n /\ n - 1 \in 0..n /\ n \in 0..n /\ n \in 1..n /\ m <= n - 1
    BY <1>1, <1>17
  <2>2. Len(SubSeq(points, 1, m)) = m
    BY <2>1, FrontIs
  <2> DEFINE a == 2 * m
             b == 2 * n - 2
             d == 2 * n - 1
  <2>3. /\ a \in 0..b /\ b \in 0..L /\ d \in 1..L /\ d - 1 = b /\ L \in 1..L /\ L - 1 = d
        /\ a \in 0..L /\ d \in 0..L /\ L \in 0..L
    BY <1>1, <2>1
  <2>4. /\ Len(u[d]) = Len(u[b]) + Len(lists[d]) /\ Len(u[L]) = Len(u[d]) + Len(lists[L])
        /\ Len(u[a]) <= Len(u[b]) /\ Len(lists[d]) \in Nat /\ Len(lists[L]) \in Nat
        /\ Len(u[a]) \in Nat /\ Len(u[b]) \in Nat /\ Len(u[d]) \in Nat /\ Len(u[L]) \in Nat
    <3> HIDE DEF a, b, d, L, lists
    <3> QED
      BY <1>4, <2>3 DEF Placed
  <2>5. Len(u[L]) <= Len(u[a])
    <3>1. P(m) = first + Len(u[a]) /\ P(n) = first + Len(u[L]) /\ first \in Nat
      <4>1. P(m) = first + Len(u[2 * m]) /\ P(n) = first + Len(u[2 * n])
        <5>1. m \in 0..n /\ n \in 0..n
          BY <2>1
        <5> HIDE DEF P, first, n
        <5> QED
          BY <1>5, <5>1
      <4>2. first \in Nat
        BY <1>1
      <4> HIDE DEF P, first
      <4> QED
        BY <4>1, <4>2
    <3>2. P(m) > Len(data) /\ P(n) = Len(data) + 1 /\ Len(data) \in Nat
      BY <1>6, <1>7
    <3> DEFINE s == Len(data)
               v == Len(u[a])
               w == Len(u[L])
    <3>3. first + v > s /\ first + w = s + 1 /\ v \in Nat /\ w \in Nat /\ s \in Nat /\ first \in Nat
      <4> HIDE DEF P, first, data, a, L
      <4> QED
        BY <2>4, <3>1, <3>2
    <3>4. w <= v
      <4> HIDE DEF s, v, w, first
      <4> QED
        BY <3>3
    <3> QED
      BY <3>4
  <2>6. Len(lists[d]) = 0 /\ Len(lists[L]) = 0
    <3> DEFINE x1 == Len(u[a])
               x2 == Len(u[b])
               x3 == Len(u[d])
               x4 == Len(u[L])
               y1 == Len(lists[d])
               y2 == Len(lists[L])
    <3>1. /\ x3 = x2 + y1 /\ x4 = x3 + y2 /\ x1 <= x2 /\ x4 <= x1 /\ y1 \in Nat /\ y2 \in Nat
          /\ x1 \in Nat /\ x2 \in Nat /\ x3 \in Nat /\ x4 \in Nat
      <4> HIDE DEF a, b, d, L, lists
      <4> QED
        BY <2>4, <2>5
    <3>2. y1 = 0 /\ y2 = 0
      <4> HIDE DEF x1, x2, x3, x4, y1, y2
      <4> QED
        BY <3>1
    <3> QED
      BY <3>2
  <2>7. /\ points[n][1] \in Differences /\ points[n][2] \in Differences
        /\ points[n] = <<points[n][1], points[n][2]>>
        /\ lists[d] = IF points[n][1] = 0 THEN <<>> ELSE WriteDifference(points[n][1])
        /\ lists[L] = IF points[n][2] = 0 THEN <<>> ELSE WriteDifference(points[n][2])
    BY <2>1, PointPiecesAre
  <2>8. points[n][1] = 0 /\ points[n][2] = 0
    <3> DEFINE v == points[n][1]
               w == points[n][2]
    <3>0. /\ v \in Differences /\ w \in Differences
          /\ lists[d] = IF v = 0 THEN <<>> ELSE WriteDifference(v)
          /\ lists[L] = IF w = 0 THEN <<>> ELSE WriteDifference(w)
      BY <2>7
    <3> HIDE DEF v, w, lists, d, L
    <3>1. v # 0 => Len(lists[d]) # 0
      <4>1. Len(WriteDifference(v)) # 0
        <5> DEFINE e == Len(WriteDifference(v))
        <5>1. e \in 1..2
          BY <3>0, DifferenceIs
        <5> HIDE DEF e
        <5>2. e # 0
          BY <5>1
        <5> QED
          BY <5>2 DEF e
      <4>2. ASSUME v # 0 PROVE lists[d] = WriteDifference(v)
        BY <3>0, <4>2
      <4> HIDE DEF WriteDifference
      <4> QED
        BY <4>1, <4>2
    <3>2. w # 0 => Len(lists[L]) # 0
      <4>1. Len(WriteDifference(w)) # 0
        <5> DEFINE e == Len(WriteDifference(w))
        <5>1. e \in 1..2
          BY <3>0, DifferenceIs
        <5> HIDE DEF e
        <5>2. e # 0
          BY <5>1
        <5> QED
          BY <5>2 DEF e
      <4>2. ASSUME w # 0 PROVE lists[L] = WriteDifference(w)
        BY <3>0, <4>2
      <4> HIDE DEF WriteDifference
      <4> QED
        BY <4>1, <4>2
    <3> QED
      BY <2>6, <3>1, <3>2 DEF v, w
  <2>9. points[n] = <<0, 0>>
    BY <2>7, <2>8
  <2> HIDE DEF data
  <2> QED
    BY <1>15, <1>17, <2>2, <2>9 DEF data
<1> QED
    BY <1>16, <1>17

-----------------------------------------------------------------------------
(* Orders: an order as a whole *)

\* Joined lists of numbers are a list of numbers.
LEMMA JoinedType ==
    ASSUME NEW L \in Nat, NEW lists \in [1..L -> Seq(Int)]
    PROVE  Joined(lists) \in Seq(Int)
<1>1. PICK u : Joins(u, lists, L) /\ Joined(lists) = u[L]
    BY JoinedIs
<1>2. u \in [0..L -> Seq(Int)] /\ L \in 0..L
    BY <1>1 DEF Joins
<1> QED
    BY <1>1, <1>2

\* So is a list of points as it is written.
LEMMA PointsType ==
    ASSUME NEW points \in Seq(Pairs)
    PROVE  WritePoints(points) \in Seq(Int)
<1>1. PointFlags(points) \in Seq(Int)
    BY FlagsAre
<1>2. Joined(PointPieces(points)) \in Seq(Int)
    BY PointPiecesAre, JoinedType
<1>3. \A a \in Seq(Int), b \in Seq(Int) : a \o b \in Seq(Int)
    BY BehindIs
<1> HIDE DEF PointFlags
<1> QED
    BY <1>1, <1>2, <1>3, PointsWritten

\* What is behind something else is found behind it.
LEMMA AtBehind ==
    ASSUME NEW c \in Seq(Int), NEW w \in Seq(Int)
    PROVE  Written(c \o w, Len(c) + 1, w)
<1> DEFINE all == c \o w
           m == Len(c)
<1>1. m \in Nat
    BY LenProperties
<1>2. \A i \in 1..Len(w) : all[m + i] = w[i]
    BY BehindIs
<1> HIDE DEF all, m
<1>3. ASSUME NEW i \in 1..Len(w) PROVE all[(m + 1) + i - 1] = w[i]
  <2>1. (m + 1) + i - 1 = m + i
    BY <1>1
  <2> QED
    BY <1>2, <2>1
<1> QED
    BY <1>3 DEF Written, all, m

\* The order behind a cache order begins where the program looks for it.
CacheOrder(n) == IF n = 0 THEN <<>> ELSE <<(n - 7) % 65536, 0, 0>> \o [i \in 1..n |-> 255]

LEMMA CacheOrderIs ==
    ASSUME NEW n \in {0, 1, 9}, NEW w \in Seq(Int)
    PROVE  /\ CacheOrder(n) \in Seq(Int)
           /\ (IF n = 0 THEN 1 ELSE NextOrder(CacheOrder(n) \o w, 1)) = Len(CacheOrder(n)) + 1
<1>1. CASE n = 0
    BY <1>1 DEF CacheOrder
<1>2. CASE n # 0
  <2> DEFINE head == <<(n - 7) % 65536, 0, 0>>
             tail == [i \in 1..n |-> 255]
             all == CacheOrder(n) \o w
  <2>1. n \in Nat /\ n - 7 \in Whole
    BY WholeIs
  <2>2. head \in Seq(Int) /\ Len(head) = 3 /\ head[1] = (n - 7) % 65536
    BY <2>1
  <2>3. tail \in Seq(Int) /\ Len(tail) = n
    <3>1. tail \in [1..n -> Int]
      OBVIOUS
    <3> HIDE DEF tail
    <3> QED
      BY <2>1, <3>1, SeqOfLength
  <2>4. CacheOrder(n) = head \o tail
    BY <1>2 DEF CacheOrder
  <2> HIDE DEF head, tail
  <2>5. /\ head \o tail \in Seq(Int) /\ Len(head \o tail) = 3 + n
        /\ (head \o tail)[1] = (n - 7) % 65536
    <3> DEFINE both == head \o tail
    <3>1. /\ both \in Seq(Int) /\ Len(both) = Len(head) + Len(tail)
          /\ \A i \in 1..Len(head) : both[i] = head[i]
      <4>1. head \in Seq(Int) /\ tail \in Seq(Int)
        BY <2>2, <2>3
      <4>2. both \in Seq(Int) /\ Len(both) = Len(head) + Len(tail)
        BY ONLY <4>1, BehindIs
      <4>3. \A i \in 1..Len(head) : both[i] = head[i]
        BY ONLY <4>1, BehindIs
      <4> QED
        BY <4>2, <4>3
    <3> HIDE DEF both
    <3>2. 1 \in 1..Len(head)
      BY <2>2
    <3>3. both[1] = (n - 7) % 65536
      BY <2>2, <3>1, <3>2
    <3> QED
      BY <2>2, <2>3, <3>1, <3>3 DEF both
  <2>6. all[1] = (n - 7) % 65536
    <3>1. 1 \in 1..(3 + n)
      BY <2>1
    <3> DEFINE c == CacheOrder(n)
    <3>2. c \in Seq(Int) /\ Len(c) = 3 + n /\ c[1] = (n - 7) % 65536
      BY <2>4, <2>5
    <3> HIDE DEF c
    <3>3. (c \o w)[1] = c[1]
      BY <3>1, <3>2, BehindIs
    <3> QED
      BY <3>2, <3>3 DEF c
  <2>7. Signed(16, all[1]) = n - 7
    BY <2>1, <2>6, SignedIs
  <2>8. NextOrder(all, 1) = 1 + 3 + (n - 7) + 7
    <3> HIDE DEF all
    <3> QED
      BY <2>7 DEF NextOrder
  <2> HIDE DEF all
  <2>9. NextOrder(all, 1) = (3 + n) + 1
    BY <2>1, <2>8
  <2> QED
    BY <1>2, <2>4, <2>5, <2>9 DEF all
<1> QED
    BY <1>1, <1>2

\* As many bytes are left out as are zero at the end, and never more than there are.
LEMMA SpareIs ==
    ASSUME NEW type, NEW new, NEW size \in 1..3, Size(new) = size,
           \A i \in Changed(type, new) : i \in 1..(8 * size)
    PROVE  /\ Spare(type, new) \in 0..size
           /\ \A i \in Changed(type, new) : i \in 1..(8 * (size - Spare(type, new)))
<1> DEFINE ch == Changed(type, new)
           Fit(k) == \A i \in ch : i <= 8 * (size - k)
           Fit2(k) == Fit(k) /\ (k < size => \E i \in ch : i > 8 * (size - k - 1))
<1>1. \A i \in ch : i \in Int /\ 1 <= i /\ i <= 8 * size
    OBVIOUS
<1> HIDE DEF ch
<1>2. \E k \in 0..size : Fit2(k)
  <2>1. Fit(0)
    BY <1>1
  <2>2. ASSUME NEW k \in 0..size, k < size PROVE (\E i \in ch : i > 8 * (size - k - 1)) \/ Fit(k + 1)
    BY <1>1, <2>2
  <2>3. CASE \E i \in ch : i > 8 * (size - 0 - 1)
    BY <2>1, <2>3
  <2>4. CASE Fit(1)
    <3>1. CASE size = 1
      BY <2>4, <3>1
    <3>2. CASE size > 1 /\ \E i \in ch : i > 8 * (size - 1 - 1)
      BY <2>4, <3>2
    <3>3. CASE size > 1 /\ Fit(2)
      <4>1. CASE size = 2
        BY <3>3, <4>1
      <4>2. CASE size = 3 /\ \E i \in ch : i > 8 * (size - 2 - 1)
        BY <3>3, <4>2
      <4>3. CASE size = 3 /\ Fit(3)
        BY <4>3
      <4> QED
        BY <2>2, <3>3, <4>1, <4>2, <4>3
    <3> QED
      BY <2>2, <3>1, <3>2, <3>3
  <2> QED
    BY <2>2, <2>3, <2>4
<1>3. Spare(type, new) = CHOOSE k \in 0..size : Fit2(k)
    BY DEF Spare, ch
<1> DEFINE spare == CHOOSE k \in 0..size : Fit2(k)
<1>4. spare \in 0..size /\ Fit(spare)
    BY <1>2
<1> HIDE DEF spare
<1>5. \A i \in ch : i \in 1..(8 * (size - spare))
    BY <1>1, <1>4
<1> QED
    BY <1>3, <1>4, <1>5 DEF ch, spare

\* What a field of an order becomes.
NewField(field, old, listed, chosen, v, points) ==
    CASE field = "npoints" -> Len(points)
      [] field = "data" /\ listed -> WritePoints(points)
      [] field = "rop2" /\ old = 0 -> 13
      [] chosen /\ field = "coord" -> v
      [] chosen /\ field \in {"uint8", "uint16", "colour"} -> 1 - old
      [] OTHER -> old

\* It has the type of its field, and is what an order for points needs.
LEMMA NewFieldIs ==
    ASSUME NEW field, NEW old \in Allowed(field), NEW listed \in BOOLEAN, NEW chosen \in BOOLEAN,
           NEW v \in Whole, NEW points \in Seq(Pairs)
    PROVE  LET new == NewField(field, old, listed, chosen, v, points)
           IN  /\ new \in Allowed(field)
               /\ field = "unused" => new = old
               /\ field = "rop2" => new = 13
               /\ field = "npoints" => new = Len(points)
               /\ field = "data" /\ listed => new = WritePoints(points)
<1> DEFINE new == NewField(field, old, listed, chosen, v, points)
<1>1. CASE field = "npoints"
  <2>1. new = Len(points) /\ Len(points) \in Int
    BY <1>1, LenProperties DEF NewField
  <2>2. Allowed(field) = Int
    BY <1>1 DEF Allowed
  <2> QED
    BY <1>1, <2>1, <2>2
<1>2. CASE field = "data"
  <2>1. new = IF listed THEN WritePoints(points) ELSE old
    BY <1>2 DEF NewField
  <2>2. WritePoints(points) \in Seq(Int) /\ Allowed(field) = Seq(Int)
    BY <1>2, PointsType, AllowedIs
  <2> HIDE DEF new
  <2> QED
    BY <1>2, <2>1, <2>2 DEF new
<1>3. CASE field = "rop2"
  <2>1. old \in {0, 13} /\ Allowed(field) = {0, 13}
    BY <1>3, AllowedIs
  <2>2. new = IF old = 0 THEN 13 ELSE old
    BY <1>3 DEF NewField
  <2> HIDE DEF new
  <2> QED
    BY <1>3, <2>1, <2>2 DEF new
<1>4. CASE field = "coord"
  <2>1. new = IF chosen THEN v ELSE old
    BY <1>4 DEF NewField
  <2>2. Allowed(field) = Whole
    BY <1>4, AllowedIs
  <2> HIDE DEF new
  <2> QED
    BY <1>4, <2>1, <2>2 DEF new
<1>5. CASE field \notin {"npoints", "data", "rop2", "coord"}
  <2>1. new = IF chosen /\ field \in {"uint8", "uint16", "colour"} THEN 1 - old ELSE old
    BY <1>5 DEF NewField
  <2>2. Allowed(field) = Int
    BY <1>5 DEF Allowed
  <2> HIDE DEF new
  <2>3. old \in Int /\ 1 - old \in Int
    BY <2>2
  <2> QED
    BY <1>5, <2>1, <2>2, <2>3 DEF new
<1> QED
    BY <1>1, <1>2, <1>3, <1>4, <1>5

\* How many fields a kind has, and in how many bytes their bits are.
LEMMA KindIs ==
    ASSUME NEW t \in DOMAIN FieldsOf
    PROVE  /\ Len(FieldsOf[t]) \in Nat /\ DOMAIN FieldsOf[t] = 1..Len(FieldsOf[t])
           /\ PresentSize(t) \in 1..3 /\ (Len(FieldsOf[t]) + 7) \div 8 = PresentSize(t)
<1>1. FieldsOf[t] \in Seq(Fields)
    BY KindsOK DEF KindTypeOK
<1>2. Len(FieldsOf[t]) \in Nat /\ DOMAIN FieldsOf[t] = 1..Len(FieldsOf[t])
    BY <1>1, LenProperties
<1> QED
    BY <1>2, KindsOK DEF KindTypeOK

\* What the server may want drawn has fields of the right types, with the lists
\* of points and the raster operation where they belong.
Wants(t, new, points) ==
    /\ Typed(t, new) /\ DOMAIN new = 1..Len(FieldsOf[t])
    /\ \A i \in Changed(t, new) : FieldsOf[t][i] # "unused"
    /\ Index(t, "rop2") # 0 => new[Index(t, "rop2")] = 13
    /\ Index(t, "npoints") # 0 => /\ new[Index(t, "npoints")] = Len(points)
                                  /\ new[Index(t, "data")] = WritePoints(points)

LEMMA NewFieldsAre ==
    ASSUME NEW t \in DOMAIN FieldsOf, NEW C, NEW v \in Whole, NEW points \in Seq(Pairs),
           Typed(t, serverState.fields[t])
    PROVE  Wants(t, NewFields(t, C, v, points), points)
<1> DEFINE new == NewFields(t, C, v, points)
           L == Len(FieldsOf[t])
           old == serverState.fields[t]
           listed == Index(t, "npoints") # 0
<1>1. L \in Nat /\ DOMAIN FieldsOf[t] = 1..L
    BY KindIs
<1>2. new = [i \in 1..L |-> NewField(FieldsOf[t][i], old[i], listed, i \in C, v, points)]
    BY <1>1 DEF NewFields, NewField
<1> HIDE DEF new, L
<1>3. ASSUME NEW i \in 1..L
      PROVE  /\ new[i] \in Allowed(FieldsOf[t][i])
             /\ FieldsOf[t][i] = "unused" => new[i] = old[i]
             /\ FieldsOf[t][i] = "rop2" => new[i] = 13
             /\ FieldsOf[t][i] = "npoints" => new[i] = Len(points)
             /\ FieldsOf[t][i] = "data" /\ listed => new[i] = WritePoints(points)
  <2>1. old[i] \in Allowed(FieldsOf[t][i])
    BY DEF Typed, L
  <2> DEFINE chosen == i \in C
             field == FieldsOf[t][i]
             before == old[i]
  <2>2. new[i] = NewField(field, before, listed, chosen, v, points)
    BY <1>2
  <2>3. chosen \in BOOLEAN /\ listed \in BOOLEAN /\ before \in Allowed(field)
    BY <2>1
  <2> HIDE DEF chosen, listed, field, before
  <2>4. LET made == NewField(field, before, listed, chosen, v, points)
        IN  /\ made \in Allowed(field)
            /\ field = "unused" => made = before
            /\ field = "rop2" => made = 13
            /\ field = "npoints" => made = Len(points)
            /\ field = "data" /\ listed => made = WritePoints(points)
    BY <2>3, NewFieldIs
  <2> QED
    BY <2>2, <2>4 DEF field, before
<1>4. new = [i \in 1..L |-> new[i]] /\ DOMAIN new = 1..L
  <2> DEFINE N(i) == NewField(FieldsOf[t][i], old[i], listed, i \in C, v, points)
  <2>1. new = [i \in 1..L |-> N(i)]
    BY <1>2
  <2> HIDE DEF N
  <2> QED
    BY <2>1
<1>5. Typed(t, new)
    BY <1>3, <1>4 DEF Typed, L
<1>6. \A i \in Changed(t, new) : FieldsOf[t][i] # "unused"
    BY <1>3, <1>4 DEF Changed
<1>7. Index(t, "rop2") # 0 => new[Index(t, "rop2")] = 13
  <2> DEFINE r == Index(t, "rop2")
  <2>1. r # 0 => r \in 1..L /\ FieldsOf[t][r] = "rop2"
    BY IndexIs DEF L
  <2> HIDE DEF r
  <2>2. r # 0 => new[r] = 13
    BY <1>3, <2>1
  <2> QED
    BY <2>2 DEF r
<1>8. listed => /\ new[Index(t, "npoints")] = Len(points)
                /\ new[Index(t, "data")] = WritePoints(points)
  <2> DEFINE r == Index(t, "npoints")
             d == Index(t, "data")
  <2>1. r # 0 => r \in 1..L /\ FieldsOf[t][r] = "npoints"
    BY IndexIs DEF L
  <2>2. d # 0 => d \in 1..L /\ FieldsOf[t][d] = "data"
    BY IndexIs DEF L
  <2>3. r # 0 => d # 0
    BY PointsInData
  <2>4. listed <=> r # 0
    OBVIOUS
  <2> HIDE DEF r, d, listed
  <2>5. listed => new[r] = Len(points) /\ new[d] = WritePoints(points)
    BY <1>3, <2>1, <2>2, <2>3, <2>4
  <2> QED
    BY <2>5 DEF r, d
<1> QED
    BY <1>4, <1>5, <1>6, <1>7, <1>8 DEF new, L, Wants

\* The parts of an order as it is sent.
DeltaOf(type, new, short) == short /\ AllNear(type, new)
SpareOf(type, new, short) == IF short THEN Spare(type, new) ELSE 0
PresentPart(type, new, short) ==
    SubSeq(WritePresent(Size(new), Changed(type, new)), 1, Size(new) - SpareOf(type, new, short))
NearOf(clip, short) == [i \in 1..4 |-> short /\ Near(clip[i], serverState.bounds[i])]
NoClipPart(clip, short) == clip = <<>> \/ (short /\ clip = serverState.bounds)
ClipPart(clip, short) ==
    IF NoClipPart(clip, short) THEN <<>>
    ELSE WriteBounds(clip, serverState.bounds, NearOf(clip, short))
FieldsPart(type, new, short) ==
    Joined(Pieces(type, new, serverState.fields[type], Changed(type, new), DeltaOf(type, new, short)))

WireParts(type, new, clip, short) ==
    LET wire == Wire(type, new, clip, short)
        spare == SpareOf(type, new, short)
    IN  /\ wire = [type |-> type, flags |-> wire.flags,
                   s |-> PresentPart(type, new, short) \o ClipPart(clip, short)
                         \o FieldsPart(type, new, short)]
        /\ "CHANGE" \in wire.flags <=> ~short \/ type # serverState.order_type
        /\ "DELTA" \in wire.flags <=> DeltaOf(type, new, short)
        /\ "BOUNDS" \in wire.flags <=> clip # <<>>
        /\ "LASTBOUNDS" \in wire.flags <=> short /\ clip = serverState.bounds
        /\ "SMALL" \in wire.flags <=> spare \in {1, 3}
        /\ "TINY" \in wire.flags <=> spare \in {2, 3}

\* An order as it is sent has these parts, and flags that say so.
LEMMA WireIs ==
    ASSUME NEW type, NEW new, NEW clip, NEW short, DOMAIN new = 1..Len(FieldsOf[type])
    PROVE  WireParts(type, new, clip, short)
<1> DEFINE old == serverState.fields[type]
           delta == DeltaOf(type, new, short)
           spare == SpareOf(type, new, short)
           change == ~short \/ type # serverState.order_type
           last == short /\ clip = serverState.bounds
           flags == {f \in {"CHANGE", "DELTA", "BOUNDS", "LASTBOUNDS", "SMALL", "TINY"} :
                       CASE f = "CHANGE" -> change
                         [] f = "DELTA" -> delta
                         [] f = "BOUNDS" -> clip # <<>>
                         [] f = "LASTBOUNDS" -> last
                         [] f = "SMALL" -> spare \in {1, 3}
                         [] f = "TINY" -> spare \in {2, 3}}
           lists == [i \in DOMAIN new |->
                       IF i \in Changed(type, new)
                       THEN WriteField(FieldsOf[type][i], new[i], old[i], delta) ELSE <<>>]
           wire == Wire(type, new, clip, short)
<1>1. wire = [type |-> type, flags |-> flags,
              s |-> PresentPart(type, new, short) \o ClipPart(clip, short) \o Joined(lists)]
    BY DEF Wire, DeltaOf, SpareOf, PresentPart, NearOf, NoClipPart, ClipPart
<1>2. lists = Pieces(type, new, old, Changed(type, new), delta)
    BY DEF Pieces
<1>3. /\ "CHANGE" \in flags <=> change
      /\ "DELTA" \in flags <=> delta
      /\ "BOUNDS" \in flags <=> clip # <<>>
      /\ "LASTBOUNDS" \in flags <=> last
      /\ "SMALL" \in flags <=> spare \in {1, 3}
      /\ "TINY" \in flags <=> spare \in {2, 3}
  <2> DEFINE small == spare \in {1, 3}
             tiny == spare \in {2, 3}
             clipped == clip # <<>>
  <2> HIDE DEF change, delta, last, small, tiny, clipped
  <2>1. /\ "CHANGE" \in flags <=> change
        /\ "DELTA" \in flags <=> delta
        /\ "BOUNDS" \in flags <=> clipped
        /\ "LASTBOUNDS" \in flags <=> last
        /\ "SMALL" \in flags <=> small
        /\ "TINY" \in flags <=> tiny
    BY DEF small, tiny, clipped
  <2> QED
    BY <2>1 DEF small, tiny, clipped
<1>4. wire = [type |-> type, flags |-> wire.flags,
              s |-> PresentPart(type, new, short) \o ClipPart(clip, short)
                    \o FieldsPart(type, new, short)] /\ wire.flags = flags
  <2> HIDE DEF wire, flags, lists
  <2> QED
    BY <1>1, <1>2 DEF FieldsPart
<1> HIDE DEF wire, flags
<1> QED
    BY <1>3, <1>4 DEF wire, WireParts

\* The lemmas on the bytes of the fields and on the clip rectangle, as they are used.
PresentGiven(s, p, flags, size, spare, changed) ==
    /\ p \in Nat /\ size \in 1..3 /\ spare \in 0..size
    /\ "SMALL" \in flags <=> spare \in {1, 3}
    /\ "TINY" \in flags <=> spare \in {2, 3}
    /\ \A i \in changed : i \in 1..(8 * (size - spare))
    /\ Written(s, p, SubSeq(WritePresent(size, changed), 1, size - spare))

LEMMA PresentFound ==
    ASSUME NEW s, NEW p, NEW flags, NEW size, NEW spare, NEW changed,
           PresentGiven(s, p, flags, size, spare, changed)
    PROVE  rdp_in_present(s, p, flags, size) = [p |-> p + (size - spare), value |-> changed]
<1>1. p \in Nat /\ size \in 1..3 /\ spare \in 0..size
    BY DEF PresentGiven
<1>2. /\ "SMALL" \in flags <=> spare \in {1, 3}
      /\ "TINY" \in flags <=> spare \in {2, 3}
    BY DEF PresentGiven
<1>3. \A i \in changed : i \in 1..(8 * (size - spare))
    BY DEF PresentGiven
<1>4. Written(s, p, SubSeq(WritePresent(size, changed), 1, size - spare))
    BY DEF PresentGiven
<1>5. /\ rdp_in_present(s, p, flags, size) = [p |-> p + (size - spare), value |-> changed]
      /\ Len(SubSeq(WritePresent(size, changed), 1, size - spare)) = size - spare
      /\ SubSeq(WritePresent(size, changed), 1, size - spare) \in Seq(Int)
    BY ONLY <1>1, <1>2, <1>3, <1>4, PresentRead
<1> QED
    BY <1>5

BoundsGiven(s, p, clip, old, near) ==
    /\ p \in Nat /\ clip \in [1..4 -> Whole] /\ old \in [1..4 -> Whole]
    /\ near \in [1..4 -> BOOLEAN] /\ \A i \in 1..4 : near[i] => Near(clip[i], old[i])
    /\ Written(s, p, WriteBounds(clip, old, near))

LEMMA BoundsFound ==
    ASSUME NEW s, NEW p, NEW clip, NEW old, NEW near, BoundsGiven(s, p, clip, old, near)
    PROVE  rdp_parse_bounds(s, p, old) = [p |-> p + Len(WriteBounds(clip, old, near)), bounds |-> clip]
    BY BoundsRead DEF BoundsGiven

\* The program reads from an order what the server put into it.
ReadAsSent(type, new, clip, short, c) ==
    LET wire == Wire(type, new, clip, short)
        order == [wire EXCEPT !.s = c \o wire.s]
    IN  /\ wire.s \in Seq(Int)
        /\ Primary(serverState, order, Len(c) + 1)
             = [os |-> [order_type |-> type,
                        bounds |-> IF clip = <<>> THEN serverState.bounds ELSE clip,
                        fields |-> [serverState.fields EXCEPT ![type] = new]],
                drawn |-> Picture(type, new, clip)]

LEMMA OrderRead ==
    ASSUME NEW type \in DOMAIN FieldsOf, NEW new, Typed(type, new),
           DOMAIN new = 1..Len(FieldsOf[type]), Typed(type, serverState.fields[type]),
           \A i \in Changed(type, new) : FieldsOf[type][i] # "unused",
           serverState.bounds \in [1..4 -> Whole],
           NEW clip, clip # <<>> => clip \in [1..4 -> Whole],
           NEW short \in BOOLEAN, NEW c \in Seq(Int)
    PROVE  ReadAsSent(type, new, clip, short, c)
<1> DEFINE wire == Wire(type, new, clip, short)
           order == [wire EXCEPT !.s = c \o wire.s]
           flags == wire.flags
           p == Len(c) + 1
           L == Len(FieldsOf[type])
           old == serverState.fields[type]
           bounds == serverState.bounds
           size == PresentSize(type)
           ch == Changed(type, new)
           delta == DeltaOf(type, new, short)
           spare == SpareOf(type, new, short)
           a == PresentPart(type, new, short)
           b == ClipPart(clip, short)
           d == FieldsPart(type, new, short)
           left == size - spare
<1>1. L \in Nat /\ size \in 1..3 /\ (L + 7) \div 8 = size
    BY KindIs
<1>2. Size(new) = size
  <2> DEFINE values == {new[i] : i \in 1..L}
  <2>1. new = [i \in 1..L |-> new[i]]
    BY DEF Typed
  <2>2. new \in [1..L -> values]
    BY <2>1
  <2> HIDE DEF L, values
  <2>3. Len(new) = L
    BY <1>1, <2>2, SeqOfLength
  <2> QED
    BY <1>1, <2>3 DEF Size
<1>3. ch = {i \in 1..L : new[i] # old[i]} /\ \A i \in ch : i \in 1..(8 * size)
  <2>1. ch = {i \in 1..L : new[i] # old[i]}
    BY DEF Changed
  <2> HIDE DEF ch, L, size
  <2>2. L <= 8 * size
    BY <1>1
  <2> QED
    BY <1>1, <2>1, <2>2
<1>4. spare \in 0..size /\ \A i \in ch : i \in 1..(8 * left)
  <2>1. CASE short
    <3>1. spare = Spare(type, new)
      BY <2>1 DEF SpareOf
    <3> HIDE DEF spare, size
    <3> QED
      BY <1>1, <1>2, <1>3, <3>1, SpareIs
  <2>2. CASE ~short
    <3>1. spare = 0
      BY <2>2 DEF SpareOf
    <3> HIDE DEF spare, size, ch
    <3>2. size - spare = size
      BY <1>1, <3>1
    <3> QED
      BY <1>1, <1>3, <3>1, <3>2
  <2> QED
    BY <2>1, <2>2
<1>5. left \in Nat /\ left <= size /\ size \in Nat
  <2> HIDE DEF spare, size
  <2> QED
    BY <1>1, <1>4
<1>6. a = SubSeq(WritePresent(size, ch), 1, left) /\ a \in Seq(Int) /\ Len(a) = left
  <2>1. a = SubSeq(WritePresent(size, ch), 1, left)
    BY <1>2 DEF PresentPart
  <2> HIDE DEF a, ch, left, size
  <2>2. WritePresent(size, ch) \in Seq(Int) /\ Len(WritePresent(size, ch)) = size
    BY <1>5, PresentBits
  <2> DEFINE W == WritePresent(size, ch)
  <2> HIDE DEF W
  <2>3. W \in Seq(Int) /\ Len(W) = size /\ a = SubSeq(W, 1, left)
    BY <2>1, <2>2 DEF W
  <2>4. SubSeq(W, 1, left) \in Seq(Int) /\ Len(SubSeq(W, 1, left)) = left
    BY <1>5, <2>3, FrontIs
  <2> QED
    BY <2>1, <2>3, <2>4
<1> DEFINE near == NearOf(clip, short)
<1>7. near \in [1..4 -> BOOLEAN] /\ \A i \in 1..4 : near[i] => Near(clip[i], bounds[i])
  <2>1. \A i \in 1..4 : (short /\ Near(clip[i], bounds[i])) \in BOOLEAN
    OBVIOUS
  <2> QED
    BY <2>1 DEF NearOf
<1>8. b \in Seq(Int)
  <2>1. CASE NoClipPart(clip, short)
    BY <2>1 DEF ClipPart
  <2>2. CASE ~NoClipPart(clip, short)
    <3>1. b = WriteBounds(clip, bounds, near) /\ clip \in [1..4 -> Whole]
      BY <2>2 DEF ClipPart, NoClipPart
    <3> DEFINE e == EdgeDigits(clip, bounds, near)
               x == Digits(e)
               rest == Joined(Edges(clip, bounds, near))
    <3> HIDE DEF near
    <3>2. /\ WriteBounds(clip, bounds, near) = <<x>> \o rest
          /\ Edges(clip, bounds, near) \in [1..4 -> Seq(Int)] /\ e \in [1..8 -> {0, 1}]
      BY <1>7, <3>1, BoundsWritten
    <3>3. x \in Int
      <4> HIDE DEF e
      <4>1. x \in 0..255
        BY <3>2, BitsOf
      <4> HIDE DEF x
      <4> QED
        BY <4>1
    <3>4. rest \in Seq(Int)
      <4>1. 4 \in Nat
        OBVIOUS
      <4> QED
        BY <3>2, <4>1, JoinedType
    <3> HIDE DEF x, rest, b
    <3>5. <<x>> \in Seq(Int)
      BY <3>3
    <3>6. <<x>> \o rest \in Seq(Int)
      BY ONLY <3>4, <3>5, BehindIs
    <3> QED
      BY <3>1, <3>2, <3>6
  <2> QED
    BY <2>1, <2>2
<1>9. delta \in BOOLEAN /\ \A i \in ch : FieldsOf[type][i] = "coord" => (delta => Near(new[i], old[i]))
    BY DEF DeltaOf, AllNear
<1>10. d \in Seq(Int) /\ d = Joined(Pieces(type, new, old, ch, delta))
  <2>1. d = Joined(Pieces(type, new, old, ch, delta))
    BY DEF FieldsPart
  <2> DEFINE pieces == Pieces(type, new, old, ch, delta)
  <2> HIDE DEF d, ch, delta
  <2>2. L \in Nat /\ pieces \in [1..L -> Seq(Int)]
    BY <1>9, PiecesAre
  <2> HIDE DEF pieces, L
  <2>3. Joined(pieces) \in Seq(Int)
    BY <2>2, JoinedType
  <2> QED
    BY <2>1, <2>3 DEF pieces
<1> DEFINE s == c \o wire.s
           q == (p + left) + Len(b)
<1>11. /\ wire = [type |-> type, flags |-> flags, s |-> a \o b \o d]
       /\ "CHANGE" \in flags <=> ~short \/ type # serverState.order_type
       /\ "DELTA" \in flags <=> delta
       /\ "BOUNDS" \in flags <=> clip # <<>>
       /\ "LASTBOUNDS" \in flags <=> short /\ clip = bounds
       /\ "SMALL" \in flags <=> spare \in {1, 3}
       /\ "TINY" \in flags <=> spare \in {2, 3}
  <2>1. WireParts(type, new, clip, short)
    BY WireIs
  <2> QED
    BY <2>1 DEF WireParts
<1>12. p \in Nat /\ p + left \in Nat /\ q \in Nat
  <2>1. Len(c) \in Nat
    BY LenProperties
  <2>2. Len(b) \in Nat
    <3> HIDE DEF b
    <3> QED
      BY <1>8, LenProperties
  <2> DEFINE m == Len(c)
             n == Len(b)
  <2> HIDE DEF m, n, left
  <2> QED
    BY <1>5, <2>1, <2>2 DEF m, n
<1>13. wire.s = (a \o b) \o d /\ wire.type = type
  <2> HIDE DEF wire, a, b, d
  <2> QED
    BY <1>11
<1> HIDE DEF a, b, d, left
<1>14. a \o b \in Seq(Int) /\ Len(a \o b) = left + Len(b)
  <2> DEFINE both == a \o b
  <2>1. both \in Seq(Int) /\ Len(both) = Len(a) + Len(b)
    BY ONLY <1>6, <1>8, BehindIs
  <2> QED
    BY <1>6, <2>1
<1>15. wire.s \in Seq(Int)
  <2> DEFINE both == a \o b
  <2> HIDE DEF both
  <2>1. both \in Seq(Int)
    BY <1>14 DEF both
  <2>2. both \o d \in Seq(Int)
    BY ONLY <1>10, <2>1, BehindIs
  <2> HIDE DEF wire
  <2> QED
    BY <1>13, <2>2 DEF both
<1>16. Written(s, p, wire.s)
  <2> DEFINE w == wire.s
  <2>1. w \in Seq(Int)
    BY <1>15
  <2> HIDE DEF w
  <2>2. Written(c \o w, Len(c) + 1, w)
    BY <2>1, AtBehind
  <2> QED
    BY <2>2 DEF w
<1> HIDE DEF wire, s, p
<1>17. Written(s, p, a) /\ Written(s, p + left, b) /\ Written(s, q, d)
  <2> DEFINE both == a \o b
  <2>1. both \in Seq(Int) /\ Len(both) = left + Len(b) /\ Written(s, p, both \o d)
    BY <1>13, <1>14, <1>16
  <2> HIDE DEF both
  <2>2. Written(s, p, both) /\ Written(s, p + Len(both), d)
    BY <1>10, <1>12, <2>1, AtBoth
  <2>3. Written(s, p, a) /\ Written(s, p + Len(a), b)
    <3>1. Written(s, p, a \o b)
      BY <2>2 DEF both
    <3> QED
      BY <1>6, <1>8, <1>12, <3>1, AtBoth
  <2>4. p + Len(both) = q
    <3> DEFINE n == Len(b)
    <3>1. n \in Nat
      BY <1>8, LenProperties
    <3>2. Len(both) = left + n
      BY <2>1
    <3> HIDE DEF n
    <3>3. p + (left + n) = (p + left) + n
      BY <1>5, <1>12, <3>1
    <3> QED
      BY <3>2, <3>3 DEF n
  <2> QED
    BY <1>6, <2>2, <2>3, <2>4
<1>18. rdp_in_present(s, p, flags, size) = [p |-> p + left, value |-> ch]
  <2>1. Written(s, p, SubSeq(WritePresent(size, ch), 1, size - spare))
    BY <1>6, <1>17 DEF left
  <2>2. \A i \in ch : i \in 1..(8 * (size - spare))
    BY <1>4 DEF left
  <2>3. ("SMALL" \in flags <=> spare \in {1, 3}) /\ ("TINY" \in flags <=> spare \in {2, 3})
    BY <1>11
  <2> HIDE DEF ch, spare, size, flags
  <2>4. PresentGiven(s, p, flags, size, spare, ch)
    BY ONLY <1>1, <1>4, <1>12, <2>1, <2>2, <2>3 DEF PresentGiven
  <2>5. rdp_in_present(s, p, flags, size) = [p |-> p + (size - spare), value |-> ch]
    BY ONLY <2>4, PresentFound
  <2> QED
    BY <2>5 DEF left
<1> DEFINE edges == IF clip = <<>> THEN bounds ELSE clip
<1>19. (IF "BOUNDS" \in flags /\ "LASTBOUNDS" \notin flags THEN rdp_parse_bounds(s, p + left, bounds)
        ELSE [p |-> p + left, bounds |-> bounds]) = [p |-> q, bounds |-> edges]
  <2>1. CASE NoClipPart(clip, short)
    <3>1. b = <<>> /\ edges = bounds /\ ~("BOUNDS" \in flags /\ "LASTBOUNDS" \notin flags)
      BY <1>11, <2>1 DEF ClipPart, NoClipPart, b
    <3>2. q = p + left
      <4>1. Len(b) = 0
        BY <3>1
      <4> QED
        BY <1>12, <4>1
    <3> HIDE DEF q, edges, flags
    <3> QED
      BY <3>1, <3>2
  <2>2. CASE ~NoClipPart(clip, short)
    <3>1. /\ b = WriteBounds(clip, bounds, near) /\ clip \in [1..4 -> Whole] /\ edges = clip
          /\ "BOUNDS" \in flags /\ "LASTBOUNDS" \notin flags
      BY <1>11, <2>2 DEF ClipPart, NoClipPart, b
    <3> HIDE DEF near
    <3> DEFINE from == p + left
    <3>2. from \in Nat /\ Written(s, from, WriteBounds(clip, bounds, near))
      BY <1>12, <1>17, <3>1
    <3> HIDE DEF from, edges, flags, bounds
    <3>3. bounds \in [1..4 -> Whole]
      BY DEF bounds
    <3>4. BoundsGiven(s, from, clip, bounds, near)
      BY ONLY <1>7, <3>1, <3>2, <3>3 DEF BoundsGiven
    <3>5. rdp_parse_bounds(s, from, bounds)
             = [p |-> from + Len(WriteBounds(clip, bounds, near)), bounds |-> clip]
      BY ONLY <3>4, BoundsFound
    <3>6. rdp_parse_bounds(s, p + left, bounds) = [p |-> q, bounds |-> clip]
      BY <3>1, <3>5 DEF from
    <3> QED
      BY <3>1, <3>6
  <2> QED
    BY <2>1, <2>2
<1>20. ReadFields(type, s, q, old, ch, delta).fields = new
  <2>1. Written(s, q, Joined(Pieces(type, new, old, ch, delta)))
    BY <1>10, <1>17
  <2>2. ch = {i \in 1..Len(FieldsOf[type]) : new[i] # old[i]} /\ \A i \in ch : FieldsOf[type][i] # "unused"
    BY <1>3
  <2>3. Typed(type, old) /\ Typed(type, new) /\ type \in DOMAIN FieldsOf
    OBVIOUS
  <2> HIDE DEF ch, delta, q, old
  <2> QED
    BY ONLY <1>9, <1>12, <2>1, <2>2, <2>3, FieldsRead
<1>21. OrderType(serverState, flags, type) = type
    BY <1>11 DEF OrderType
<1>22. order.flags = flags /\ order.s = s /\ order.type = type
    BY <1>11, <1>13 DEF s
<1>23. ("DELTA" \in flags) = delta
  <2> HIDE DEF delta, flags
  <2> QED
    BY <1>9, <1>11
<1>24. (IF "BOUNDS" \in flags THEN edges ELSE <<>>) = clip
    BY <1>11
<1>25. Primary(serverState, order, p)
          = [os |-> [order_type |-> type, bounds |-> edges,
                     fields |-> [serverState.fields EXCEPT ![type] = new]],
             drawn |-> Picture(type, new, clip)]
  <2> DEFINE present == rdp_in_present(s, p, flags, size)
             found == IF "BOUNDS" \in flags /\ "LASTBOUNDS" \notin flags
                      THEN rdp_parse_bounds(s, p + left, bounds)
                      ELSE [p |-> p + left, bounds |-> bounds]
  <2>1. present.p = p + left /\ present.value = ch
    BY <1>18
  <2>2. found.p = q /\ found.bounds = edges
    <3> HIDE DEF q, edges, found
    <3> QED
      BY <1>19 DEF found
  <2> DEFINE read == ReadFields(type, s, q, old, ch, delta)
             clipped == IF "BOUNDS" \in flags THEN edges ELSE <<>>
  <2> HIDE DEF order, flags, q, ch, edges, delta
  <2>3. Primary(serverState, order, p)
          = [os |-> [order_type |-> type, bounds |-> found.bounds,
                     fields |-> [serverState.fields EXCEPT ![type] = read.fields]],
             drawn |-> Picture(type, read.fields, clipped)]
    <3>1. Primary(serverState, order, p)
            = LET kind == OrderType(serverState, order.flags, order.type)
                  there == rdp_in_present(order.s, p, order.flags, PresentSize(kind))
                  around == IF "BOUNDS" \in order.flags /\ "LASTBOUNDS" \notin order.flags
                            THEN rdp_parse_bounds(order.s, there.p, bounds)
                            ELSE [p |-> there.p, bounds |-> bounds]
                  all == ReadFields(kind, order.s, around.p, serverState.fields[kind], there.value,
                                    "DELTA" \in order.flags)
              IN  [os |-> [order_type |-> kind, bounds |-> around.bounds,
                           fields |-> [serverState.fields EXCEPT ![kind] = all.fields]],
                   drawn |-> Picture(kind, all.fields,
                                     IF "BOUNDS" \in order.flags THEN around.bounds ELSE <<>>)]
      BY DEF Primary
    <3>2. present = rdp_in_present(order.s, p, order.flags, PresentSize(type))
      BY <1>22
    <3>3. found = IF "BOUNDS" \in order.flags /\ "LASTBOUNDS" \notin order.flags
                  THEN rdp_parse_bounds(order.s, present.p, bounds)
                  ELSE [p |-> present.p, bounds |-> bounds]
      <4> HIDE DEF present
      <4> QED
        BY <1>22, <2>1
    <3>4. read = ReadFields(type, order.s, found.p, serverState.fields[type], present.value,
                            "DELTA" \in order.flags)
      <4> HIDE DEF present, found
      <4> QED
        BY <1>22, <1>23, <2>1, <2>2
    <3>5. clipped = IF "BOUNDS" \in order.flags THEN found.bounds ELSE <<>>
      <4> HIDE DEF found
      <4> QED
        BY <1>22, <2>2
    <3>6. OrderType(serverState, order.flags, order.type) = type
      BY <1>21, <1>22
    <3> HIDE DEF present, found, read, clipped
    <3> QED
      BY <3>1, <3>2, <3>3, <3>4, <3>5, <3>6
  <2>4. read.fields = new /\ clipped = clip
    BY <1>20, <1>24
  <2> HIDE DEF read, clipped, found
  <2> QED
    BY <2>2, <2>3, <2>4
<1> HIDE DEF order, edges
<1> QED
    BY <1>15, <1>25 DEF wire, order, p, edges, ReadAsSent

\* The picture the server meant, and how far the one drawn may differ.
Meant(type, new, points, clip) ==
    IF Index(type, "npoints") = 0
    THEN <<[type |-> type, fields |-> new, clip |-> clip]>>
    ELSE <<[type |-> type, clip |-> clip, points |-> points,
            fields |-> [i \in 1..(Index(type, "npoints") - 1) |-> new[i]]]>>
AsMeant(was, picture) ==
    \/ was = picture
    \/ /\ was = <<>> /\ "points" \in DOMAIN picture[1]
       /\ picture[1].points[Len(picture[1].points)] = <<0, 0>>

\* The program draws the picture, or drops it for a last point that moves nowhere.
LEMMA PictureIs ==
    ASSUME NEW type, NEW new, NEW points \in Seq(Pairs), NEW clip,
           Index(type, "rop2") # 0 => new[Index(type, "rop2")] = 13,
           Index(type, "npoints") # 0 => /\ new[Index(type, "npoints")] = Len(points)
                                         /\ new[Index(type, "data")] = WritePoints(points)
    PROVE  AsMeant(Picture(type, new, clip), Meant(type, new, points, clip))
<1> DEFINE r == Index(type, "rop2")
           k == Index(type, "npoints")
           d == Index(type, "data")
           found == Points(new[d], new[k])
           front == [i \in 1..(k - 1) |-> new[i]]
           one == [type |-> type, clip |-> clip, points |-> points, fields |-> front]
<1>1. ~(r # 0 /\ new[r] \notin 1..16)
  <2> HIDE DEF r
  <2>1. 13 \in 1..16
    OBVIOUS
  <2>2. r # 0 => new[r] = 13
    BY DEF r
  <2> QED
    BY <2>1, <2>2
<1>2. Picture(type, new, clip)
         = IF k = 0 THEN <<[type |-> type, fields |-> new, clip |-> clip]>>
           ELSE IF Len(found) = new[k]
           THEN <<[type |-> type, clip |-> clip, points |-> found, fields |-> front]>> ELSE <<>>
    BY <1>1 DEF Picture
<1>3. Meant(type, new, points, clip)
         = IF k = 0 THEN <<[type |-> type, fields |-> new, clip |-> clip]>> ELSE <<one>>
    BY DEF Meant
<1>4. k # 0 => new[k] = Len(points) /\ new[d] = WritePoints(points)
    OBVIOUS
<1> HIDE DEF k, d, front
<1>5. k # 0 => found = points \/ (Len(found) # Len(points) /\ points[Len(points)] = <<0, 0>>)
    BY <1>4, PointsRead
<1>6. "points" \in DOMAIN <<one>>[1] /\ <<one>>[1].points = points
  <2>1. <<one>>[1] = one
    OBVIOUS
  <2>2. "points" \in DOMAIN one /\ one.points = points
    OBVIOUS
  <2> HIDE DEF one
  <2> QED
    BY <2>1, <2>2
<1> DEFINE picture == Picture(type, new, clip)
           means == Meant(type, new, points, clip)
<1>7. CASE k = 0
  <2>1. picture = means
    BY <1>2, <1>3, <1>7
  <2> QED
    BY <2>1 DEF AsMeant
<1>8. CASE k # 0 /\ found = points
  <2>1. picture = means
    BY <1>2, <1>3, <1>4, <1>8
  <2> QED
    BY <2>1 DEF AsMeant
<1>9. CASE k # 0 /\ Len(found) # Len(points) /\ points[Len(points)] = <<0, 0>>
  <2>1. picture = <<>>
    <3> HIDE DEF found
    <3> QED
      BY <1>2, <1>4, <1>9
  <2>2. means = <<one>>
    BY <1>3, <1>9
  <2> HIDE DEF picture, means, one, found
  <2>3. "points" \in DOMAIN means[1] /\ means[1].points[Len(means[1].points)] = <<0, 0>>
    BY <1>6, <1>9, <2>2
  <2>4. AsMeant(picture, means)
    BY <2>1, <2>3 DEF AsMeant
  <2> QED
    BY <2>4 DEF picture, means
<1> QED
    BY <1>5, <1>7, <1>8, <1>9

-----------------------------------------------------------------------------
(* Orders: the invariant *)

\* Client and server remember the same, and it has the right types.
StateTyped(state) ==
    /\ DOMAIN state.fields = OrderTypes /\ \A t \in OrderTypes : Typed(t, state.fields[t])
    /\ state.bounds \in [1..4 -> Whole]
OrdersInv ==
    /\ g_order_state = serverState /\ StateTyped(serverState)
    /\ DrawnAsMeant

\* It holds when a connection begins.
LEMMA ResetTyped == StateTyped(reset_order_state)
<1>1. ASSUME NEW t \in OrderTypes PROVE Typed(t, reset_order_state.fields[t])
  <2> DEFINE L == Len(FieldsOf[t])
             f == reset_order_state.fields[t]
  <2>1. t \in DOMAIN FieldsOf
    BY OrdersAssumption
  <2>2. DOMAIN FieldsOf[t] = 1..L
    BY <2>1, KindIs
  <2>3. f = [i \in 1..L |-> Zero(FieldsOf[t][i])]
    BY <2>2 DEF reset_order_state
  <2> HIDE DEF f, L
  <2>4. ASSUME NEW field PROVE Zero(field) \in Allowed(field)
    <3>1. 0 \in Whole
      BY WholeIs
    <3>2. CASE field = "data"
      <4>1. Zero(field) = <<>> /\ Allowed(field) = Seq(Int)
        BY <3>2, AllowedIs DEF Zero
      <4>2. <<>> \in Seq(Int)
        OBVIOUS
      <4> QED
        BY <4>1, <4>2
    <3>3. CASE field = "coord"
      BY <3>1, <3>3, AllowedIs DEF Zero
    <3>4. CASE field \notin {"data", "coord"}
      BY <3>4 DEF Zero, Allowed
    <3> QED
      BY <3>2, <3>3, <3>4
  <2>5. \A i \in 1..L : f[i] \in Allowed(FieldsOf[t][i])
    BY <2>3, <2>4
  <2>6. f = [i \in 1..L |-> f[i]]
    BY <2>3
  <2> QED
    BY <2>5, <2>6 DEF Typed, f, L
<1>2. reset_order_state.bounds \in [1..4 -> Whole]
  <2>1. 0 \in Whole
    BY WholeIs
  <2>2. reset_order_state.bounds = <<0, 0, 0, 0>>
    BY DEF reset_order_state
  <2>3. \A x : x \in Whole => <<x, x, x, x>> \in [1..4 -> Whole]
    OBVIOUS
  <2> QED
    BY <2>1, <2>2, <2>3
<1>3. DOMAIN reset_order_state.fields = OrderTypes
    BY DEF reset_order_state
<1> QED
    BY <1>1, <1>2, <1>3 DEF StateTyped

LEMMA OrdersInitial == OrdersInit => OrdersInv
    BY ResetTyped DEF OrdersInit, OrdersInv, DrawnAsMeant

\* The clip rectangles of the server have coordinates for edges.
LEMMA ClipsAre ==
    ASSUME serverState.bounds \in [1..4 -> Whole], NEW clip \in Clips
    PROVE  clip # <<>> => clip \in [1..4 -> Whole]
<1>1. SUFFICES ASSUME clip # <<>> PROVE clip \in [1..4 -> Whole]
    OBVIOUS
<1>2. PICK E \in {{}, {1}, {2, 3, 4}}, edge \in ClipEdges :
         clip = [i \in 1..4 |-> IF i \in E THEN edge ELSE serverState.bounds[i]]
    BY <1>1 DEF Clips
<1>3. edge \in Whole
    BY <1>2, OrdersAssumption
<1> DEFINE e(i) == IF i \in E THEN edge ELSE serverState.bounds[i]
<1>4. \A i \in 1..4 : e(i) \in Whole
    BY <1>3
<1>5. clip = [i \in 1..4 |-> e(i)]
    BY <1>2
<1> HIDE DEF e
<1> QED
    BY <1>4, <1>5

\* An order keeps the invariant.
LEMMA OrderDrawn ==
    ASSUME OrdersInv, NEW type \in OrderTypes, NEW clip \in Clips, NEW short \in BOOLEAN,
           NEW points \in PointsOf(type), NEW n \in {0, 1, 9}, NEW new \in Wanted(type, points),
           process_orders(n, type, new, points, clip, short)
    PROVE  OrdersInv'
<1> DEFINE c == CacheOrder(n)
           wire == Wire(type, new, clip, short)
           order == [wire EXCEPT !.s = c \o wire.s]
           p == IF n = 0 THEN 1 ELSE NextOrder(order.s, 1)
           done == Primary(g_order_state, order, p)
           next == [order_type |-> type, bounds |-> IF clip = <<>> THEN serverState.bounds ELSE clip,
                    fields |-> [serverState.fields EXCEPT ![type] = new]]
<1>1. /\ type \in DOMAIN FieldsOf /\ Typed(type, serverState.fields[type])
      /\ serverState.bounds \in [1..4 -> Whole] /\ DOMAIN serverState.fields = OrderTypes
      /\ \A t \in OrderTypes : Typed(t, serverState.fields[t])
      /\ g_order_state = serverState
    BY OrdersAssumption DEF OrdersInv, StateTyped
<1>2. points \in Seq(Pairs)
  <2>1. points = <<>> \/ points \in PointLists
    BY DEF PointsOf
  <2>2. PointLists \subseteq Seq(Pairs)
    BY OrdersAssumption DEF Pairs
  <2>3. <<>> \in Seq(Pairs)
    OBVIOUS
  <2> QED
    BY <2>1, <2>2, <2>3
<1>3. PICK C \in SUBSET (Touched \cap DOMAIN FieldsOf[type]), v \in Coords :
         new = NewFields(type, C, v, points)
    BY DEF Wanted
<1>4. v \in Whole
    BY <1>3, OrdersAssumption
<1>5. /\ Typed(type, new) /\ DOMAIN new = 1..Len(FieldsOf[type])
      /\ \A i \in Changed(type, new) : FieldsOf[type][i] # "unused"
      /\ Index(type, "rop2") # 0 => new[Index(type, "rop2")] = 13
      /\ Index(type, "npoints") # 0 => /\ new[Index(type, "npoints")] = Len(points)
                                       /\ new[Index(type, "data")] = WritePoints(points)
  <2>1. Wants(type, NewFields(type, C, v, points), points)
    BY <1>1, <1>2, <1>4, NewFieldsAre
  <2> QED
    BY <1>3, <2>1 DEF Wants
<1>6. clip # <<>> => clip \in [1..4 -> Whole]
    BY <1>1, ClipsAre
<1>7. c \in Seq(Int)
  <2>1. <<>> \in Seq(Int)
    OBVIOUS
  <2> QED
    BY <2>1, CacheOrderIs
<1>8. /\ wire.s \in Seq(Int)
      /\ Primary(serverState, order, Len(c) + 1) = [os |-> next, drawn |-> Picture(type, new, clip)]
  <2>1. ReadAsSent(type, new, clip, short, c)
    <3> HIDE DEF c
    <3> QED
      BY <1>1, <1>5, <1>6, <1>7, OrderRead
  <2> QED
    BY <2>1 DEF ReadAsSent
<1>9. order.s = c \o wire.s
  <2>1. WireParts(type, new, clip, short)
    BY <1>5, WireIs
  <2> QED
    BY <2>1 DEF WireParts
<1>10. p = Len(c) + 1
  <2> DEFINE w == wire.s
  <2>1. w \in Seq(Int)
    BY <1>8
  <2> HIDE DEF w, order
  <2>2. (IF n = 0 THEN 1 ELSE NextOrder(CacheOrder(n) \o w, 1)) = Len(CacheOrder(n)) + 1
    BY <2>1, CacheOrderIs
  <2> QED
    BY <1>9, <2>2 DEF w
<1>11. /\ serverState' = next /\ g_order_state' = done.os /\ drawn' = done.drawn
       /\ meant' = Meant(type, new, points, clip)
  <2>1. /\ serverState' = [order_type |-> type, fields |-> [serverState.fields EXCEPT ![type] = new],
                           bounds |-> IF clip = <<>> THEN serverState.bounds ELSE clip]
        /\ g_order_state' = done.os /\ drawn' = done.drawn
        /\ meant' = Meant(type, new, points, clip)
    BY DEF process_orders, CacheOrder, Meant
  <2> QED
    BY <2>1
<1>12. g_order_state' = next /\ drawn' = Picture(type, new, clip)
  <2>1. done = [os |-> next, drawn |-> Picture(type, new, clip)]
    <3> HIDE DEF p, order, c, next
    <3> QED
      BY <1>1, <1>8, <1>10
  <2> HIDE DEF done, next
  <2> QED
    BY <1>11, <2>1
<1>13. StateTyped(next)
  <2>1. DOMAIN next.fields = OrderTypes
    BY <1>1
  <2>2. ASSUME NEW t \in OrderTypes PROVE Typed(t, next.fields[t])
    <3>1. next.fields[t] = IF t = type THEN new ELSE serverState.fields[t]
      BY <1>1
    <3> HIDE DEF next
    <3> QED
      BY <1>1, <1>5, <3>1
  <2>3. next.bounds \in [1..4 -> Whole]
    BY <1>1, <1>6
  <2> HIDE DEF next
  <2> QED
    BY <2>1, <2>2, <2>3 DEF StateTyped
<1>14. AsMeant(drawn', meant')
  <2>1. AsMeant(Picture(type, new, clip), Meant(type, new, points, clip))
    BY <1>2, <1>5, PictureIs
  <2> QED
    BY <1>11, <1>12, <2>1
<1>15. StateTyped(serverState)'
  <2> HIDE DEF next
  <2> QED
    BY <1>11, <1>13 DEF StateTyped
<1>16. DrawnAsMeant'
    BY <1>14 DEF DrawnAsMeant, AsMeant
<1> HIDE DEF next
<1> QED
    BY <1>11, <1>12, <1>15, <1>16 DEF OrdersInv

LEMMA OrdersStep == OrdersInv /\ [OrdersNext]_ordersVars => OrdersInv'
<1>1. SUFFICES ASSUME OrdersInv, [OrdersNext]_ordersVars PROVE OrdersInv'
    OBVIOUS
<1>2. CASE UNCHANGED ordersVars
    BY <1>1, <1>2 DEF OrdersInv, StateTyped, DrawnAsMeant, ordersVars
<1>3. ASSUME NEW type \in OrderTypes, NEW clip \in Clips, NEW short \in BOOLEAN,
             NEW points \in PointsOf(type), NEW n \in IF short THEN {1, 9} ELSE {0},
             NEW new \in Wanted(type, points), process_orders(n, type, new, points, clip, short)
      PROVE  OrdersInv'
  <2>1. n \in {0, 1, 9}
    OBVIOUS
  <2> QED
    BY <1>1, <1>3, <2>1, OrderDrawn
<1>4. CASE process_demand_active
  <2>1. g_order_state' = reset_order_state /\ serverState' = reset_order_state /\ drawn' = meant'
    BY <1>4 DEF process_demand_active
  <2>2. StateTyped(serverState)'
    <3>1. StateTyped(reset_order_state)
      BY ResetTyped
    <3> HIDE DEF reset_order_state
    <3> QED
      BY <2>1, <3>1 DEF StateTyped
  <2> QED
    BY <2>1, <2>2 DEF OrdersInv, DrawnAsMeant
<1> QED
    BY <1>1, <1>2, <1>3, <1>4 DEF OrdersNext

\* What is drawn is what the server meant, whatever kinds, values, clip
\* rectangles and lists of points the orders have.
THEOREM OrdersDrawn == OrdersSpec => []DrawnAsMeant
<1>1. OrdersInit => OrdersInv
    BY OrdersInitial
<1>2. OrdersInv /\ [OrdersNext]_ordersVars => OrdersInv'
    BY OrdersStep
<1>3. OrdersInv => DrawnAsMeant
    BY DEF OrdersInv
<1> QED
    BY <1>1, <1>2, <1>3, PTL DEF OrdersSpec
=============================================================================
