------------------------------ MODULE MCSound ------------------------------
(***************************************************************************)
(* The instance of Sound for TLC.                                          *)
(*                                                                         *)
(* A ring of three slots, so that two packets fill it and its positions    *)
(* wrap; two formats; packets of one and of two samples before a device    *)
(* buffer of one, so that a packet can fit, fill the driver's buffer, or   *)
(* have to wait for it.  Two indexes tell the packets in the ring apart.   *)
(* A packet may need time after it was written with DART and libao.        *)
(***************************************************************************)
EXTENDS Sound

MCFormats == {"mono", "stereo"}
MCLengths == {1, 2}
MCDrivers == {"oss", "sun", "alsa", "libao", "sgi"}
MCRecFormats == {"mono"}
MCDelay == [d \in MCDrivers |-> IF d = "libao" THEN 1 ELSE 0]
=============================================================================
