--------------------------- MODULE MCBitmapCache ----------------------------
(***************************************************************************)
(* The instance of BitmapCache for TLC: four cells in the file, three in   *)
(* memory, so that cells leave the list at its ends and in its middle and  *)
(* one is always evicted from a full memory.  The first cell is put with   *)
(* two contents, with and without a key; the others say in which order     *)
(* cells are used, and one content does.                                   *)
(***************************************************************************)
EXTENDS BitmapCache

MCPuts == ({0} \X Bitmaps \X BOOLEAN) \cup ((1..(PstCells - 1)) \X {"icon"} \X {TRUE})
=============================================================================
