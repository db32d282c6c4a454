---------------------------- MODULE MCServerData ----------------------------
(***************************************************************************)
(* The instance of Channels, Mppc, Orders, Bitmaps, SecureLayer and        *)
(* XScreen for TLC: what becomes of the bytes of the server.  They share   *)
(* no state, so a behaviour is one of a single part.                       *)
(*                                                                         *)
(* Two channels, messages of one chunk, just more and two and a half; a    *)
(* history of six bytes, with copies that overlap themselves, and copies   *)
(* at each limit of the code by themselves; lines and polylines, three of  *)
(* them, so that one kind can come back after the other; three runs of     *)
(* pixels in lines of ten, so that they end before, at and after the end   *)
(* of a line; two connections of three packets, new keys after two;        *)
(* a screen of two cells, the second of which a seamless window may show,  *)
(* and two raster operations (copy, exclusive or).                         *)
(***************************************************************************)
EXTENDS Channels, Mppc, Orders, Bitmaps, SecureLayer, XScreen

MCPointLists ==
    {<<<<5, 0>>, <<0, -64>>, <<63, 300>>, <<-300, 1>>, <<2, 2>>>>, <<<<0, 0>>>>}
MCCoords == {100, -20}
MCAreas == {{1}, {1, 2}}

VARIABLE part

ServerDataInit ==
    /\ part \in {"channels", "mppc", "orders", "bitmaps", "keys", "screen"}
    /\ ChannelsInit /\ MppcInit /\ OrdersInit /\ RleInit /\ SecureInit /\ ScreenInit
    /\ g_encryption_initial \/ part = "keys"
    /\ part = "screen" \/ (g_ownbackstore /\ g_Unobscured)

Others(mine) ==
    /\ mine # "channels" => UNCHANGED channelVars
    /\ mine # "mppc" => UNCHANGED mppcVars
    /\ mine # "orders" => UNCHANGED ordersVars
    /\ mine # "bitmaps" => UNCHANGED rleVars
    /\ mine # "keys" => UNCHANGED secureVars
    /\ mine # "screen" => UNCHANGED screenVars

ServerDataNext ==
    /\ UNCHANGED part
    /\ \/ part = "channels" /\ ChannelsNext /\ Others("channels")
       \/ part = "mppc" /\ MppcNext /\ Others("mppc")
       \/ part = "orders" /\ OrdersNext /\ Others("orders")
       \/ part = "bitmaps" /\ RleNext /\ Others("bitmaps")
       \/ part = "keys" /\ SecureNext /\ Others("keys")
       \/ part = "screen" /\ ScreenNext /\ Others("screen")

ServerDataSpec ==
    ServerDataInit
    /\ [][ServerDataNext]_<<part, channelVars, mppcVars, ordersVars, rleVars, secureVars, screenVars>>
=============================================================================
