------------------------------- MODULE Sound -------------------------------
(***************************************************************************)
(* The sound output of a program: that for OS/2 is built with DART's       *)
(* driver only, the others use one of theirs.  A behaviour is one of       *)
(* DartDriver or one of SoundDrivers.                                      *)
(***************************************************************************)
EXTENDS DartDriver, SoundDrivers

\* Is it the build for OS/2?
VARIABLE dart

otherVars == <<driver, duplex, dsp, recordVars, aborted>>

SoundInit ==
    /\ dart \in BOOLEAN /\ DartInit /\ DriverInit
    /\ dart => driver = "oss" /\ duplex

SoundNext ==
    /\ UNCHANGED dart
    /\ \/ dart /\ DartNext /\ UNCHANGED otherVars
       \/ ~dart /\ DriverNext /\ UNCHANGED bufferVars

\* The fairness of DART.  When the other devices take data is their own affair.
soundVars == <<dart, dartVars, otherVars>>
OfDart == dart /\ UNCHANGED <<dart, otherVars>>
SoundSpec ==
    /\ SoundInit /\ [][SoundNext]_soundVars
    /\ WF_soundVars(OfDart /\ CheckFds)
    /\ WF_soundVars(OfDart /\ AudioCallback)
    /\ WF_soundVars(OfDart /\ DartTick)

\* A packet is never played in another format than its own: no packet of an
\* earlier format is still to be copied when the device changes to the next.
\* DART closes the device, OSS and Sun refuse the format (Sun as long as its count of
\* users is right, OSS unless it records too); the others change the format of a
\* device that has packets to play.
KeepsFormat ==
    \/ dart
    \/ driver = "sun" /\ ~dsp.trouble
    \/ driver = "oss" /\ ~rdpsnd_rec_negotiated
PlayedInOwnFormat == KeepsFormat => OfCurrentFormat

\* A device that may be shared serves those who use it (see SoundDrivers).
DeviceServesUsers == dart \/ ServesUsers

\* The device is as those who use it asked for it: open, and in the format of
\* the packets it still has to play.
DeviceAsAskedFor == PlayedInOwnFormat /\ DeviceServesUsers

\* As long as the device plays, some packet is acknowledged some time while there
\* are any.  They are acknowledged in order, so each one is, however many others
\* the server sends.
NoneLeft == queue.pending = queue.hi
EachAcknowledged == (dart /\ ~NoneLeft) ~> (answered # <<>> \/ NoneLeft \/ ~usDeviceOutId)
=============================================================================
