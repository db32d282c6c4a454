---------------------------- MODULE MCSerialPort ----------------------------
(***************************************************************************)
(* The instance of SerialPort for TLC: two ports, up to three requests, so *)
(* that requests of one port stand before those of the other, and reads    *)
(* that take one step or two.                                              *)
(***************************************************************************)
EXTENDS SerialPort

MCTimers == <<{{}, {"interval"}}, {{}}>>
MCLengths == <<{2}, {1}>>
MCUses == <<{"READ", "WAIT"}, {"READ", "WRITE"}>>
MCMaxBytes == <<2, 1>>
=============================================================================
