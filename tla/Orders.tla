------------------------------- MODULE Orders -------------------------------
(***************************************************************************)
(* Drawing orders, orders.c.  A drawing order says only what differs from  *)
(* the last order of its kind: client and server both remember, for each   *)
(* kind, the values of all fields, the kind itself and the clip rectangle. *)
(* Numbers are what takes part in that: fields as 8- or 16-bit numbers or  *)
(* as differences, the bytes that say which fields are there, of which the *)
(* server leaves out the last ones when they are zero, and the lists of    *)
(* points.  A stream is a sequence of such numbers, read from place p on.  *)
(* What a kind draws, and the bitmaps, brushes and glyphs it uses, are the *)
(* matter of the caches; which fields there are comes from the code.       *)
(***************************************************************************)
EXTENDS Integers, Sequences

CONSTANTS
    OrderTypes,     \* the kinds the server uses here
    Touched,        \* bounds the fields an order changes, by number
    Coords,         \* bounds their values
    PointLists,     \* bounds the lists of points
    ClipEdges,      \* bounds the clip rectangles
    MaxOrders       \* bounds the orders of a connection

VARIABLES
    g_order_state,  \* the client's: order_type, fields, bounds
    serverState,    \* the server's
    drawn,          \* what the last update drew
    meant,          \* what it should have
    ordersSent

ordersVars == <<g_order_state, serverState, drawn, meant, ordersSent>>

-----------------------------------------------------------------------------
(* The fields of each kind, in the order of their bits *)

Brush == <<"uint8", "uint8", "uint8", "uint8", "uint8x7">>
Pen == <<"uint8", "uint8", "colour">>
Corners == <<"coord", "coord", "coord", "coord">>

Destblt == Corners \o <<"uint8">>
Patblt == Corners \o <<"uint8", "colour", "colour">> \o Brush
Screenblt == Corners \o <<"uint8", "coord", "coord">>
Line == <<"uint16">> \o Corners \o <<"colour", "rop2">> \o Pen
Rect == Corners \o <<"uint8", "uint8", "uint8">>
Desksave == <<"uint32">> \o Corners \o <<"uint8">>
Memblt == <<"uint8x2">> \o Corners \o <<"uint8", "coord", "coord", "uint16">>
Triblt == <<"uint8x2">> \o Corners \o <<"uint8", "coord", "coord", "colour", "colour">>
              \o Brush \o <<"uint16", "uint16">>
Polygon == <<"coord", "coord", "rop2", "uint8", "colour", "npoints", "data">>
Polygon2 == <<"coord", "coord", "rop2", "uint8", "colour", "colour">> \o Brush
              \o <<"npoints", "data">>
Polyline == <<"coord", "coord", "rop2", "unused", "colour", "npoints", "data">>
Ellipse == Corners \o <<"uint8", "uint8", "colour">>
Ellipse2 == Corners \o <<"uint8", "uint8", "colour", "colour">> \o Brush
Text2 == <<"uint8", "uint8", "uint8", "uint8", "colour", "colour">>
              \o [i \in 1..8 |-> "uint16"] \o Brush \o <<"uint16", "uint16", "data">>

FieldsOf ==
    [DESTBLT |-> Destblt, PATBLT |-> Patblt, SCREENBLT |-> Screenblt, LINE |-> Line,
     RECT |-> Rect, DESKSAVE |-> Desksave, MEMBLT |-> Memblt, TRIBLT |-> Triblt,
     POLYGON |-> Polygon, POLYGON2 |-> Polygon2, POLYLINE |-> Polyline, ELLIPSE |-> Ellipse,
     ELLIPSE2 |-> Ellipse2, TEXT2 |-> Text2]

\* What a coordinate holds, and the difference of two points of a list.
Whole == -32768..32767
Differences == -16384..16383

ASSUME OrdersAssumption ==
    /\ OrderTypes \subseteq DOMAIN FieldsOf
    /\ Touched \subseteq Nat /\ MaxOrders \in Nat
    /\ Coords \subseteq Whole /\ ClipEdges \subseteq Whole
    /\ PointLists \subseteq Seq(Differences \X Differences)

\* Which field of a kind it is, 0 if the kind has none.
Places(order_type, field) == {i \in DOMAIN FieldsOf[order_type] : FieldsOf[order_type][i] = field}
IndexOf ==
    [t \in DOMAIN FieldsOf |->
        [field \in {"rop2", "npoints", "data"} |->
            IF Places(t, field) = {} THEN 0 ELSE CHOOSE i \in Places(t, field) : TRUE]]
Index(order_type, field) == IndexOf[order_type][field]
Zero(field) == IF field = "data" THEN <<>> ELSE 0

reset_order_state ==
    [order_type |-> "PATBLT", bounds |-> <<0, 0, 0, 0>>,
     fields |-> [t \in OrderTypes |-> [i \in DOMAIN FieldsOf[t] |-> Zero(FieldsOf[t][i])]]]

OrdersInit ==
    /\ g_order_state = reset_order_state /\ serverState = reset_order_state
    /\ drawn = <<>> /\ meant = <<>> /\ ordersSent = 0

BitValues == <<1, 2, 4, 8, 16, 32, 64, 128>>
Bit(byte, i) == (byte \div BitValues[i + 1]) % 2 = 1
Signed(width, n) == IF n >= 2^(width - 1) THEN n - 2^width ELSE n

-----------------------------------------------------------------------------
(* Reading; "at" is [p, value] *)

\* Mutant: a difference is taken for an unsigned number.
CoordUnsigned(s, p, coord, delta) ==
    [p |-> p + 1,
     value |-> IF delta THEN Signed(16, (coord + s[p]) % 65536) ELSE Signed(16, s[p])]

rdp_in_coord(s, p, coord, delta) ==
    [p |-> p + 1,
     value |-> IF delta THEN Signed(16, (coord + Signed(8, s[p])) % 65536) ELSE Signed(16, s[p])]

\* How many bytes say which fields are there.
PresentSize(order_type) ==
    CASE order_type \in {"TRIBLT", "TEXT2"} -> 3
      [] order_type \in {"PATBLT", "MEMBLT", "LINE", "POLYGON2", "ELLIPSE2"} -> 2
      [] OTHER -> 1

rdp_in_present(s, p, flags, size) ==
    LET small == IF "SMALL" \in flags THEN size - 1 ELSE size
        left == IF "TINY" \notin flags THEN small ELSE IF small < 2 THEN 0 ELSE small - 2
    IN  [p |-> p + left,
         value |-> {i \in 1..(8 * left) : Bit(s[p + (i - 1) \div 8], (i - 1) % 8)}]

\* One field from p on; a data field has its size in front.
ReadField(field, s, p, old, delta) ==
    CASE field = "coord" -> rdp_in_coord(s, p, old, delta)
      [] field = "data" -> [p |-> p + 1 + s[p], value |-> SubSeq(s, p + 1, p + s[p])]
      [] field = "unused" -> [p |-> p, value |-> old]
      [] OTHER -> [p |-> p + 1, value |-> s[p]]

\* All fields of an order: those that are not there keep their value.
ReadFields(order_type, s, p, old, present, delta) ==
    LET fields == FieldsOf[order_type]
        at[n \in 0..Len(fields)] ==
            IF n = 0 THEN [p |-> p, fields |-> old]
            ELSE IF n \notin present THEN at[n - 1]
            ELSE LET before == at[n - 1]
                     one == ReadField(fields[n], s, before.p, old[n], delta)
                 IN  [p |-> one.p, fields |-> [before.fields EXCEPT ![n] = one.value]]
    IN  at[Len(fields)]

rdp_parse_bounds(s, p, bounds) ==
    LET at[n \in 0..4] ==
            IF n = 0 THEN [p |-> p + 1, bounds |-> bounds]
            ELSE IF Bit(s[p], n - 1) \/ Bit(s[p], n + 3)
            THEN LET before == at[n - 1]
                     edge == rdp_in_coord(s, before.p, bounds[n], ~Bit(s[p], n - 1))
                 IN  [p |-> edge.p, bounds |-> [before.bounds EXCEPT ![n] = edge.value]]
            ELSE at[n - 1]
    IN  at[4]

\* Mutant: the sign bit of a difference of two bytes is not looked at.
DeltaUnsigned(buffer, offset) ==
    IF buffer[offset] >= 128
    THEN [p |-> offset + 2, value |-> (buffer[offset] % 128) * 256 + buffer[offset + 1]]
    ELSE [p |-> offset + 1, value |-> Signed(7, buffer[offset])]

parse_delta(buffer, offset) ==
    LET value == Signed(7, buffer[offset] % 128)
    IN  IF buffer[offset] >= 128
        THEN [p |-> offset + 2, value |-> value * 256 + buffer[offset + 1]]
        ELSE [p |-> offset + 1, value |-> value]

\* The points of a line or polygon: two bits for each say whether x and y
\* are left out, and the differences begin behind the bytes of those bits.
\* The loop ends with the data, also before the last points.
Points(data, npoints) ==
    LET first == (npoints + 3) \div 4 + 1
        at[n \in 0..npoints] ==
            IF n = 0 THEN [p |-> first, points |-> <<>>]
            ELSE LET before == at[n - 1]
                     flags == data[(n - 1) \div 4 + 1]
                     shift == 2 * ((n - 1) % 4)
                     x == IF Bit(flags, 7 - shift) THEN [p |-> before.p, value |-> 0]
                          ELSE parse_delta(data, before.p)
                     y == IF Bit(flags, 6 - shift) THEN [p |-> x.p, value |-> 0]
                          ELSE parse_delta(data, x.p)
                 IN  IF before.p > Len(data) THEN before
                     ELSE [p |-> y.p, points |-> Append(before.points, <<x.value, y.value>>)]
    IN  at[npoints].points

\* Only when all points were found, and the raster operation is one.
Picture(order_type, fields, clip) ==
    LET rop2 == Index(order_type, "rop2")
        npoints == Index(order_type, "npoints")
        data == Index(order_type, "data")
    IN  IF rop2 # 0 /\ fields[rop2] \notin 1..16 THEN <<>>
        ELSE IF npoints = 0 THEN <<[type |-> order_type, fields |-> fields, clip |-> clip]>>
        ELSE LET points == Points(fields[data], fields[npoints])
             IN  IF Len(points) = fields[npoints]
                 THEN <<[type |-> order_type, clip |-> clip, points |-> points,
                         fields |-> [i \in 1..(npoints - 1) |-> fields[i]]]>>
                 ELSE <<>>

OrderType(os, flags, byte) == IF "CHANGE" \in flags THEN byte ELSE os.order_type

\* Behind a cache order, whatever of it was read: its length counts from 7 on
\* and may be negative.
NextOrder(s, p) == p + 3 + Signed(16, s[p]) + 7

\* One drawing order; the kind is the one "number" that is a name.
Primary(os, order, p) ==
    LET flags == order.flags
        type == OrderType(os, flags, order.type)
        present == rdp_in_present(order.s, p, flags, PresentSize(type))
        clip == IF "BOUNDS" \in flags /\ "LASTBOUNDS" \notin flags
                THEN rdp_parse_bounds(order.s, present.p, os.bounds)
                ELSE [p |-> present.p, bounds |-> os.bounds]
        read == ReadFields(type, order.s, clip.p, os.fields[type], present.value, "DELTA" \in flags)
    IN  [os |-> [order_type |-> type, bounds |-> clip.bounds,
                 fields |-> [os.fields EXCEPT ![type] = read.fields]],
         drawn |-> Picture(type, read.fields, IF "BOUNDS" \in flags THEN clip.bounds ELSE <<>>)]

-----------------------------------------------------------------------------
(* The server *)

WriteCoord(value) == value % 65536
WriteDelta(value) == value % 256
Near(value, old) == value - old \in -128..127

\* The numbers of one field.
WriteField(field, value, old, delta) ==
    CASE field = "coord" -> <<IF delta THEN WriteDelta(value - old) ELSE WriteCoord(value)>>
      [] field = "data" -> <<Len(value)>> \o value
      [] OTHER -> <<value>>

\* Some lists of numbers one behind the other.
Joined(lists) ==
    LET upTo[n \in 0..Len(lists)] == IF n = 0 THEN <<>> ELSE upTo[n - 1] \o lists[n]
    IN  upTo[Len(lists)]

WriteBounds(bounds, old, near) ==
    LET bit == [i \in 1..4 |-> IF bounds[i] = old[i] THEN 0
                               ELSE IF near[i] THEN BitValues[i + 4] ELSE BitValues[i]]
    IN  <<bit[1] + bit[2] + bit[3] + bit[4]>>
        \o Joined([i \in 1..4 |->
               IF bounds[i] = old[i] THEN <<>> ELSE WriteField("coord", bounds[i], old[i], near[i])])

\* The bytes that say which fields are there.
WritePresent(size, changed) ==
    LET bit(i) == IF i \in changed THEN BitValues[((i - 1) % 8) + 1] ELSE 0
    IN  [k \in 1..size |-> bit(8 * k - 7) + bit(8 * k - 6) + bit(8 * k - 5) + bit(8 * k - 4)
                           + bit(8 * k - 3) + bit(8 * k - 2) + bit(8 * k - 1) + bit(8 * k)]

WriteDifference(value) ==
    IF value \in -64..63 THEN <<value % 128>>
    ELSE <<128 + (value % 32768) \div 256, value % 256>>

WritePoints(points) ==
    LET n == Len(points)
        two(i) == IF i > n THEN 0
                  ELSE (IF points[i][1] = 0 THEN 2 ELSE 0) + (IF points[i][2] = 0 THEN 1 ELSE 0)
        flags == [b \in 1..((n + 3) \div 4) |->
                     64 * two(4 * b - 3) + 16 * two(4 * b - 2) + 4 * two(4 * b - 1) + two(4 * b)]
    IN  flags \o Joined([i \in 1..(2 * n) |->
                    LET v == points[(i + 1) \div 2][2 - (i % 2)]
                    IN  IF v = 0 THEN <<>> ELSE WriteDifference(v)])

\* What the server may want drawn next: the fields C of a kind with value v, a
\* list of points, a clip rectangle.
NewFields(type, C, v, points) ==
    [i \in DOMAIN FieldsOf[type] |->
        LET old == serverState.fields[type][i]
        IN  CASE FieldsOf[type][i] = "npoints" -> Len(points)
              [] FieldsOf[type][i] = "data" /\ Index(type, "npoints") # 0 -> WritePoints(points)
              [] FieldsOf[type][i] = "rop2" /\ old = 0 -> 13
              [] i \in C /\ FieldsOf[type][i] = "coord" -> v
              [] i \in C /\ FieldsOf[type][i] \in {"uint8", "uint16", "colour"} -> 1 - old
              [] OTHER -> old]

PointsOf(type) == IF Index(type, "npoints") = 0 THEN {<<>>} ELSE PointLists
Wanted(type, points) ==
    {NewFields(type, C, v, points) : C \in SUBSET (Touched \cap DOMAIN FieldsOf[type]), v \in Coords}
Clips ==
    {<<>>} \cup {[i \in 1..4 |-> IF i \in E THEN edge ELSE serverState.bounds[i]] :
                    E \in {{}, {1}, {2, 3, 4}}, edge \in ClipEdges}

Changed(type, new) == {i \in DOMAIN new : new[i] # serverState.fields[type][i]}
AllNear(type, new) ==
    \A i \in Changed(type, new) :
       FieldsOf[type][i] = "coord" => Near(new[i], serverState.fields[type][i])
Size(new) == (Len(new) + 7) \div 8
Spare(type, new) ==
    CHOOSE k \in 0..Size(new) :
       /\ \A i \in Changed(type, new) : i <= 8 * (Size(new) - k)
       /\ k < Size(new) => \E i \in Changed(type, new) : i > 8 * (Size(new) - k - 1)

\* The order as it is sent, with all that saves numbers or with none of it.
Wire(type, new, clip, short) ==
    LET old == serverState.fields[type]
        bounds == serverState.bounds
        delta == short /\ AllNear(type, new)
        spare == IF short THEN Spare(type, new) ELSE 0
    IN  [type |-> type,
         flags |-> {f \in {"CHANGE", "DELTA", "BOUNDS", "LASTBOUNDS", "SMALL", "TINY"} :
                       CASE f = "CHANGE" -> ~short \/ type # serverState.order_type
                         [] f = "DELTA" -> delta
                         [] f = "BOUNDS" -> clip # <<>>
                         [] f = "LASTBOUNDS" -> short /\ clip = bounds
                         [] f = "SMALL" -> spare \in {1, 3}
                         [] f = "TINY" -> spare \in {2, 3}},
         s |-> SubSeq(WritePresent(Size(new), Changed(type, new)), 1, Size(new) - spare)
               \o (IF clip = <<>> \/ (short /\ clip = bounds) THEN <<>>
                   ELSE WriteBounds(clip, bounds,
                                    [i \in 1..4 |-> short /\ Near(clip[i], bounds[i])]))
               \o Joined([i \in DOMAIN new |->
                     IF i \in Changed(type, new)
                     THEN WriteField(FieldsOf[type][i], new[i], old[i], delta) ELSE <<>>])]

\* An update, with a cache order of n numbers in front or none: what the
\* program makes of it, and what the server meant.  After a kind the program
\* does not know it reads no further; the server uses those it was told of.
process_orders(n, type, new, points, clip, short) ==
    LET wire == Wire(type, new, clip, short)
        cache == IF n = 0 THEN <<>> ELSE <<(n - 7) % 65536, 0, 0>> \o [i \in 1..n |-> 255]
        order == [wire EXCEPT !.s = cache \o wire.s]
        done == Primary(g_order_state, order, IF n = 0 THEN 1 ELSE NextOrder(order.s, 1))
    IN  /\ ordersSent < MaxOrders /\ ordersSent' = ordersSent + 1
        /\ serverState' = [order_type |-> type, fields |-> [serverState.fields EXCEPT ![type] = new],
                           bounds |-> IF clip = <<>> THEN serverState.bounds ELSE clip]
        /\ g_order_state' = done.os
        /\ drawn' = done.drawn
        /\ meant' = IF Index(type, "npoints") = 0
                    THEN <<[type |-> type, fields |-> new, clip |-> clip]>>
                    ELSE <<[type |-> type, clip |-> clip, points |-> points,
                            fields |-> [i \in 1..(Index(type, "npoints") - 1) |-> new[i]]]>>

\* A connection begins, or the desktop is announced anew.
process_demand_active ==
    /\ ordersSent > 0
    /\ serverState' = reset_order_state /\ g_order_state' = reset_order_state
    /\ drawn' = <<>> /\ meant' = <<>> /\ ordersSent' = 0

OrdersNext ==
    \/ \E type \in OrderTypes, clip \in Clips, short \in BOOLEAN :
          \E points \in PointsOf(type), n \in IF short THEN {1, 9} ELSE {0} :
             \E new \in Wanted(type, points) : process_orders(n, type, new, points, clip, short)
    \/ process_demand_active

OrdersSpec == OrdersInit /\ [][OrdersNext]_ordersVars

-----------------------------------------------------------------------------
(* Properties *)

\* What is drawn is what the server meant, with the same clip rectangle,
\* however little of it was sent; only a list of points that ends where it
\* was may be dropped.
DrawnAsMeant ==
    \/ drawn = meant
    \/ /\ drawn = <<>> /\ "points" \in DOMAIN meant[1]
       /\ meant[1].points[Len(meant[1].points)] = <<0, 0>>
=============================================================================
