---------------------------- MODULE BitmapCache -----------------------------
(***************************************************************************)
(* The third bitmap cache of RDP 5: the cells of cache.c with their list   *)
(* from the least to the most recently used, and the file of pstcache.c    *)
(* behind it, which outlives the program.  Memory holds fewer cells than   *)
(* the file; a cell that is evicted from memory is read back from the file *)
(* when the server draws with it.                                          *)
(*                                                                         *)
(* The server is modelled by what it believes the cells to hold.  It       *)
(* learns the file's content once, from pstcache_enumerate; later          *)
(* connections start with empty cells for the server, though not for the   *)
(* program.  Decompression, drawing, the caches without a file and the     *)
(* caches of glyphs, text and cursors are left out, and so is a bitmap     *)
(* read from a cell that was never written.                                *)
(***************************************************************************)
EXTENDS Integers, FiniteSets, SequencesExt

CONSTANTS
    PstCells,      \* BMPCACHE2_NUM_PSTCELLS, the cells of the file
    MemoryCells,   \* BMPCACHE2_C2_CELLS, the bitmaps kept in memory
    BumpCount,     \* BUMP_COUNT
    Bitmaps,       \* what a cell can hold
    Puts,          \* the bitmaps the server may send: cell, bitmap, with a key?
    LateLock       \* may the file become free after bitmaps came without it?

ASSUME CellAssumption == PstCells \in Nat /\ MemoryCells \in 2..PstCells
ASSUME BumpAssumption == BumpCount \in Nat \ {0}
ASSUME LockAssumption == LateLock \in BOOLEAN

NULL == "no bitmap in memory"
Blank == "never written"
NOT_SET == -1

ASSUME BitmapAssumption == {NULL, Blank} \cap Bitmaps = {}
ASSUME PutAssumption == Puts \subseteq (0..(PstCells - 1)) \X Bitmaps \X BOOLEAN

VARIABLES
    cache,       \* g_bmpcache, its ends, its count, and the file
    persistent,  \* IS_PERSISTENT(2): is the file open and locked?
    g_pstcache_enumerated,
    oops,        \* did cache_rebuild_bmpcache_linked_list end the program?
    told,        \* what the server believes the cells to hold
    unsaved,     \* cells whose bitmap came without a key to save it under
    lost         \* those of them that were evicted since

serverVars == <<told, unsaved, lost>>
vars == <<cache, persistent, g_pstcache_enumerated, oops, serverVars>>

Cells == 0..(PstCells - 1)
Links == Cells \cup {NOT_SET}
IsSet(idx) == idx >= 0

\* Cells in memory, and what the program starts with beside its file.
Unused == [bitmap |-> NULL, previous |-> 0, next |-> 0]
NoCells(file) ==
    [cell |-> [idx \in Cells |-> Unused], lru |-> NOT_SET, mru |-> NOT_SET, count |-> 0,
     file |-> file]
NothingTold == [idx \in Cells |-> NULL]

-----------------------------------------------------------------------------
(* cache.c *)

\* A place in the list is a pair, the cells before and after it; the end has
\* no place after it.
NextPlace(c, place) ==
    IF IsSet(place[2]) THEN <<place[2], c.cell[place[2]].next>> ELSE place

\* The place "bump" steps after <<p, n>>.
Walk(c, p, n, bump) ==
    LET place[k \in 0..bump] == IF k = 0 THEN <<p, n>> ELSE NextPlace(c, place[k - 1])
    IN place[bump]

\* Link or unlink: the cells or ends next to the place are told of it.
SetNext(c, idx, next) ==
    IF IsSet(idx) THEN [c EXCEPT !.cell[idx].next = next] ELSE [c EXCEPT !.lru = next]
SetPrevious(c, idx, previous) ==
    IF IsSet(idx) THEN [c EXCEPT !.cell[idx].previous = previous] ELSE [c EXCEPT !.mru = previous]

TakeOut(c, idx) ==
    LET n == c.cell[idx].next
        p == c.cell[idx].previous
    IN IF IsSet(n)
       THEN [SetPrevious(SetNext(c, p, n), n, p) EXCEPT !.count = @ - 1]
       ELSE c

InsertBetween(c, idx, p, n) ==
    LET linked == [c EXCEPT !.cell[idx].previous = p, !.cell[idx].next = n, !.count = @ + 1]
    IN SetPrevious(SetNext(linked, p, idx), n, idx)

\* Mutation: the place is found in the list as it was before the cell left it.
BumpInOldList(c, idx) ==
    LET out == TakeOut(c, idx)
        place == Walk(c, c.cell[idx].previous, idx, BumpCount)
    IN InsertBetween(out, idx, place[1], place[2])

\* cache_bump_bitmap(id, idx, BUMP_COUNT), for a cell of the list.
BumpUp(c, idx) ==
    LET out == TakeOut(c, idx)
        place == Walk(out, c.cell[idx].previous, c.cell[idx].next, BumpCount)
    IN InsertBetween(out, idx, place[1], place[2])

\* cache_bump_bitmap(id, idx, TO_TOP).
BumpToTop(c, idx) ==
    LET out == TakeOut(c, idx)
    IN InsertBetween(out, idx, out.mru, NOT_SET)

\* The links of an evicted cell are dead until it is stored again; here they
\* are overwritten.
cache_evict_bitmap(c) ==
    LET n == c.cell[c.lru].next
    IN [c EXCEPT !.cell[c.lru] = Unused, !.cell[n].previous = NOT_SET, !.lru = n,
                 !.count = @ - 1, !.file[c.lru].stamp = 0]

\* cache_put_bitmap, in a cache with a file.
PutBitmap(c, idx, bitmap) ==
    LET stored ==
            IF c.cell[idx].bitmap = NULL
            THEN [c EXCEPT !.cell[idx] =
                              [bitmap |-> bitmap, previous |-> NOT_SET, next |-> NOT_SET]]
            ELSE [c EXCEPT !.cell[idx].bitmap = bitmap]
        top == IF c.mru = idx THEN stored ELSE BumpToTop(stored, idx)
    IN IF top.count > MemoryCells THEN cache_evict_bitmap(top) ELSE top

\* cache_get_bitmap, in a cache with a file.
GetBitmap(c, idx) ==
    IF c.cell[idx].bitmap = NULL THEN PutBitmap(c, idx, c.file[idx].bitmap)
    ELSE IF c.mru = idx THEN c ELSE BumpUp(c, idx)

\* The cells of the list, from the least recently used one on.
Traversal(c) ==
    LET from[k \in 1..(PstCells + 1)] ==
            IF k = 1 THEN c.lru
            ELSE LET before == from[k - 1]
                 IN IF IsSet(before) THEN c.cell[before].next ELSE NOT_SET
        length == Cardinality({k \in DOMAIN from : IsSet(from[k])})
    IN [k \in 1..length |-> from[k]]

\* cache_save_state: the order of the list, as stamps from 1 on.
cache_save_state(c) ==
    LET order == Traversal(c)
    IN [idx \in Cells |->
           IF idx \in ToSet(order)
           THEN [c.file[idx] EXCEPT !.stamp = CHOOSE k \in DOMAIN order : order[k] = idx]
           ELSE c.file[idx]]

-----------------------------------------------------------------------------
(* pstcache.c *)

\* The keys of the file are read up to the first empty cell.
Announced(file) == {idx \in Cells : \A below \in 0..idx : file[below].bitmap # Blank}

\* "Sort by stamp", the cell number deciding among equals.
Earlier(file, a, b) ==
    \/ file[a].stamp < file[b].stamp
    \/ file[a].stamp = file[b].stamp /\ a < b
Rank(file, cells, idx) == Cardinality({other \in cells : Earlier(file, other, idx)})
ByStamp(file, cells) ==
    [k \in 1..Cardinality(cells) |-> CHOOSE idx \in cells : Rank(file, cells, idx) = k - 1]

\* Pre-caching: the announced cells with a stamp are loaded, in file order.
LoadInAdvance(c, file, idx) ==
    IF idx \in Announced(file) /\ c.file[idx].stamp > 0
    THEN PutBitmap(c, idx, file[idx].bitmap)
    ELSE c
Precached(c) ==
    LET after[n \in 0..PstCells] ==
            IF n = 0 THEN c ELSE LoadInAdvance(after[n - 1], c.file, n - 1)
    IN after[PstCells]

\* What cache_rebuild_bmpcache_linked_list finds in memory of the cells that
\* were read from the file, in the order of the stamps they had.
Present(c, file) ==
    ByStamp(file, {idx \in Announced(file) : c.cell[idx].bitmap # NULL})

\* Mutation: what a cell of the file holds is never replaced.
SaveOnce(c, idx, bitmap) ==
    IF c.file[idx].bitmap = Blank
    THEN [c EXCEPT !.file[idx] = [bitmap |-> bitmap, stamp |-> 0]]
    ELSE c

pstcache_save_bitmap(c, idx, bitmap) ==
    [c EXCEPT !.file[idx] = [bitmap |-> bitmap, stamp |-> 0]]

\* Mutation: the list keeps the order in which the cells were loaded.
KeepLoadOrder(c, file) == c

cache_rebuild_bmpcache_linked_list(c, file) ==
    LET found == Present(c, file)
        last == Len(found)
        link(idx) ==
            LET k == CHOOSE k \in DOMAIN found : found[k] = idx
            IN [bitmap |-> c.cell[idx].bitmap,
                previous |-> IF k = 1 THEN NOT_SET ELSE found[k - 1],
                next |-> IF k = last THEN NOT_SET ELSE found[k + 1]]
    IN IF found = <<>>
       THEN [c EXCEPT !.lru = NOT_SET, !.mru = NOT_SET]
       ELSE [c EXCEPT !.lru = found[1], !.mru = found[last],
                      !.cell = [idx \in Cells |->
                                   IF idx \in ToSet(found) THEN link(idx) ELSE c.cell[idx]]]

\* "Oops": the list and the count disagree, and the program exits.
Miscounted(c, file) ==
    /\ Present(c, file) # <<>>
    /\ Len(Present(c, file)) # c.count

-----------------------------------------------------------------------------
Init ==
    /\ cache = NoCells([idx \in Cells |-> [bitmap |-> Blank, stamp |-> 0]])
    /\ persistent = FALSE
    /\ g_pstcache_enumerated = FALSE
    /\ oops = FALSE
    /\ told = NothingTold
    /\ unsaved = {}
    /\ lost = {}

\* A Demand Active before the keys were sent: pstcache_init, for the answer,
\* tries to open and lock the file; then rdp_enum_bmpcache2 sends its keys.
Enumerate(precache) ==
    LET loaded == IF precache THEN Precached(cache) ELSE cache
    IN /\ ~g_pstcache_enumerated
       /\ LateLock \/ \A idx \in Cells : cache.cell[idx].bitmap = NULL
       /\ persistent' = TRUE
       /\ g_pstcache_enumerated' = TRUE
       /\ cache' = cache_rebuild_bmpcache_linked_list(loaded, cache.file)
       /\ oops' = Miscounted(loaded, cache.file)
       /\ told' = [idx \in Cells |->
                      IF idx \in Announced(cache.file) THEN cache.file[idx].bitmap ELSE NULL]
       /\ unsaved' = {} /\ lost' = {}

\* A Demand Active that sends no keys: another program holds the file, or they
\* were sent before.  On a new connection the server believes its cells empty.
ActivateWithoutKeys ==
    /\ told' = NothingTold
    /\ unsaved' = {} /\ lost' = {}
    /\ UNCHANGED <<cache, persistent, g_pstcache_enumerated, oops>>

LostNow(c, cells) == {idx \in cells : c.cell[idx].bitmap = NULL}

\* process_bmpcache2, and the older orders, which never save.  A server that
\* was not told of a file uses no more cells than memory has.
Put(idx, bitmap, save) ==
    /\ persistent \/ idx < MemoryCells
    /\ IF persistent
       THEN LET c == PutBitmap(cache, idx, bitmap)
            IN cache' = IF save THEN pstcache_save_bitmap(c, idx, bitmap) ELSE c
       ELSE cache' = [cache EXCEPT !.cell[idx].bitmap = bitmap]
    /\ told' = [told EXCEPT ![idx] = bitmap]
    /\ unsaved' = IF save THEN unsaved \ {idx} ELSE unsaved \cup {idx}
    /\ lost' = (lost \ {idx}) \cup LostNow(cache', unsaved')
    /\ UNCHANGED <<persistent, g_pstcache_enumerated, oops>>

\* What cache_get_bitmap returns.
Held(idx) ==
    IF cache.cell[idx].bitmap # NULL \/ ~persistent
    THEN cache.cell[idx].bitmap
    ELSE cache.file[idx].bitmap

\* An order draws with a bitmap the server believes to be there.
Draw(idx) ==
    /\ told[idx] # NULL
    /\ persistent /\ Held(idx) # Blank
    /\ cache' = GetBitmap(cache, idx)
    /\ lost' = lost \cup LostNow(cache', unsaved)
    /\ UNCHANGED <<persistent, g_pstcache_enumerated, oops, told, unsaved>>

\* The program ends, in main() with its state saved or anywhere else without,
\* and is started again.
Restart(saved) ==
    /\ saved => ~oops
    /\ cache' = NoCells(IF saved /\ persistent THEN cache_save_state(cache) ELSE cache.file)
    /\ persistent' = FALSE
    /\ g_pstcache_enumerated' = FALSE
    /\ oops' = FALSE
    /\ told' = NothingTold
    /\ unsaved' = {} /\ lost' = {}

Running ==
    /\ ~oops
    /\ \/ \E precache \in BOOLEAN : Enumerate(precache)
       \/ ActivateWithoutKeys
       \/ \E put \in Puts : Put(put[1], put[2], put[3])
       \/ \E idx \in Cells : Draw(idx)

Next == Running \/ \E saved \in BOOLEAN : Restart(saved)

Spec == Init /\ [][Next]_vars

-----------------------------------------------------------------------------
(* Properties *)

InMemory == {idx \in Cells : cache.cell[idx].bitmap # NULL}

TypeOK ==
    /\ cache.cell \in [Cells -> [bitmap : Bitmaps \cup {NULL}, previous : Links, next : Links]]
    /\ cache.lru \in Links /\ cache.mru \in Links
    /\ cache.count \in 0..MemoryCells
    /\ cache.file \in [Cells -> [bitmap : Bitmaps \cup {Blank}, stamp : 0..MemoryCells]]
    /\ persistent \in BOOLEAN
    /\ g_pstcache_enumerated \in BOOLEAN
    /\ oops \in BOOLEAN
    /\ told \in [Cells -> Bitmaps \cup {NULL}]
    /\ unsaved \subseteq Cells /\ lost \subseteq unsaved

\* The list holds each cell with a bitmap once, its backward links mirror the
\* forward ones, and the count is its length.
ListMatchesCells ==
    persistent =>
        LET list == Traversal(cache)
            last == Len(list)
        IN /\ ToSet(list) = InMemory
           /\ cache.count = last /\ Cardinality(InMemory) = last
           /\ \A k \in 2..last : cache.cell[list[k]].previous = list[k - 1]
           /\ last > 0 => /\ cache.cell[list[1]].previous = NOT_SET
                          /\ cache.mru = list[last]

\* The server draws with the bitmap it put, or was told of, whatever was
\* evicted, read back, or kept from an earlier run.  Only a bitmap that came
\* without a key is lost with its eviction.
DrawsWhatWasPut ==
    \A idx \in Cells :
        told[idx] # NULL => Held(idx) = told[idx] \/ idx \in lost

\* The pointers of cache.c implement a list in order of use, with eviction at
\* its least recently used end.
list == IF persistent THEN Traversal(cache) ELSE <<>>
Lru == INSTANCE BitmapLru WITH Limit <- MemoryCells
KeepsOrderOfUse == Lru!Spec

\* A run begins with the bitmaps of the last one in the order in which it left
\* them: of two cells loaded in advance the one with the older stamp goes first.
StartsInSavedOrder ==
    [][ (persistent' /\ ~persistent) =>
            \A j, k \in DOMAIN list' :
                j < k => Earlier(cache.file, list'[j], list'[k]) ]_vars
=============================================================================
