----------------------------- MODULE MCServices -----------------------------
(***************************************************************************)
(* The instance for TLC of four services that share no state, so that a    *)
(* behaviour is one of a single part: SmartCards, ControlSocket, and what  *)
(* a drive and a serial port of the server are on this side, UnixDisk and  *)
(* SerialLine.                                                             *)
(*                                                                         *)
(* Three requests over two connections and two handles of PC/SC; three     *)
(* runs of the program, where the name of the socket is a file; a file     *)
(* and a directory with two names and two descriptors; one value of each   *)
(* setting of a port besides those it is found with, the rate beyond what  *)
(* the Unix driver sets.                                                   *)
(***************************************************************************)
EXTENDS SmartCards, ControlSocket, UnixDisk, SerialLine

VARIABLE part

MCOpenings ==
    {[path |-> "a", kind |-> "any", access |-> {"write", "delete"}],
     [path |-> "a", kind |-> "directory", access |-> {"write", "delete"}]}

MCFound ==
    {[rate |-> 9600, line |-> [stop_bits |-> 0, parity |-> 2, word_length |-> 7],
      flow |-> {"XON"}, chars |-> [c \in CharNames |-> 1],
      timeouts |-> [read |-> 1, write |-> 0, none |-> {}]]}
MCLines == {[stop_bits |-> 1, parity |-> 3, word_length |-> 8]}
MCFlows == {{"XON", "XOFF"}}
MCCharacters == {[c \in CharNames |-> IF c = "EVENT" THEN 2 ELSE 3]}
MCTimeouts ==
    {[interval |-> 0, multiplier |-> 10, constant |-> 60,
      writeMultiplier |-> 0, writeConstant |-> 0]}
MCTakes == {{}, Groups}

ServicesInit ==
    /\ part \in {"cards", "control", "drive", "port"}
    /\ ScardInit /\ ControlInit /\ UnixDiskInit /\ LineInit
    /\ part # "drive" => \A path \in Paths : drive[path] = Nothing
    /\ part # "port" => build = "unix" /\ signals = {}

Cards == part = "cards" /\ ScardNext /\ UNCHANGED <<controlVars, unixDiskVars, lineVars>>
Control == part = "control" /\ ControlNext /\ UNCHANGED <<scardVars, unixDiskVars, lineVars>>
Drive == part = "drive" /\ UnixDiskNext /\ UNCHANGED <<scardVars, controlVars, lineVars>>
Port == part = "port" /\ LineNext /\ UNCHANGED <<scardVars, controlVars, unixDiskVars>>

ServicesNext == UNCHANGED part /\ (Cards \/ Control \/ Drive \/ Port)

ServicesSpec ==
    /\ ServicesInit
    /\ [][ServicesNext]_<<part, scardVars, controlVars, unixDiskVars, lineVars>>
    /\ ScardFairness /\ ControlFairness
=============================================================================
