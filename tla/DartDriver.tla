----------------------------- MODULE DartDriver -----------------------------
(***************************************************************************)
(* Sound output: the DART driver of OS/2 (os2/rdpsnd_dart.c) on the ring   *)
(* of SoundRing.                                                           *)
(*                                                                         *)
(* Two threads meet in the driver's buffer: the program's own, which runs  *)
(* everything else, and a thread of the audio system, which runs           *)
(* AudioCallback.  Both hold the mutex hmtxBufOut over their whole step.   *)
(* The driver cannot record, and always claims that it took a format: what *)
(* happens otherwise is in SoundDrivers.                                   *)
(***************************************************************************)
EXTENDS SoundRing

CONSTANTS
    SampleSize,    \* bytes of one sample of all channels
    BufferLength   \* ulBufferLength, one of the device's two buffers

ASSUME BufferAssumption == SampleSize \in Nat \ {0} /\ BufferLength \in Nat \ {0}
\* The server sends whole samples, and the device's buffers hold whole samples.
ASSUME SampleAssumption == \A length \in Lengths \cup {BufferLength} : length % SampleSize = 0

VARIABLES
    usDeviceOutId,         \* does the driver have its device open?
    ulMidBufOutWritePos    \* bytes in the driver's buffer

bufferVars == <<usDeviceOutId, ulMidBufOutWritePos>>
dartVars == <<ringVars, bufferVars>>

cbMidBufOut == 2 * BufferLength

-----------------------------------------------------------------------------
DartInit == RingInit /\ usDeviceOutId = FALSE /\ ulMidBufOutWritePos = 0

\* _audioOutOpen may fail, which dart_set_format_out does not tell.
AudioOutOpen ==
    \/ usDeviceOutId' = TRUE /\ ulMidBufOutWritePos' = 0
    \/ usDeviceOutId' = FALSE /\ UNCHANGED ulMidBufOutWritePos

AudioClose == usDeviceOutId' = FALSE /\ UNCHANGED ulMidBufOutWritePos

\* RDPSND_WRITE.  A new format closes the device, and with it what is queued.
Write(format, length) ==
    LET ready == device_open /\ format = current_format
        kept == IF ready THEN queue ELSE AckAll(queue)
        packet == [index |-> block, format |-> format, left |-> length, due |-> 0]
    IN /\ block' = (block + 1) % IndexCount
       /\ \/ /\ ~current_driver
             /\ answered' = <<block>>
             /\ UNCHANGED <<queue, deviceVars, bufferVars>>
          \/ /\ current_driver
             /\ queue' = rdpsnd_queue_write(kept, packet)
             /\ answered' = Answers(queue, kept)
             /\ device_open' = TRUE
             /\ current_format' = format
             /\ IF ready THEN UNCHANGED bufferVars ELSE AudioOutOpen
             /\ UNCHANGED <<current_driver, rdpsnd_negotiated>>

\* RDPSND_CLOSE.
Close ==
    /\ device_open
    /\ device_open' = FALSE
    /\ queue' = AckAll(queue)
    /\ answered' = Answers(queue, AckAll(queue))
    /\ AudioClose
    /\ UNCHANGED <<current_driver, rdpsnd_negotiated, current_format, block>>

\* rdpsnd_reset_state: the device is closed, then the ring forgets the rest.
ResetAnswers == IF device_open THEN Answers(queue, AckAll(queue)) ELSE <<>>

\* RDPSND_NEGOTIATE.  A second one in a session resets the state first.  Then
\* the driver is opened and closed to see whether it works; device_open is not
\* told.
Negotiate ==
    /\ rdpsnd_negotiated' = TRUE
    /\ current_driver' = TRUE
    /\ AudioClose
    /\ \/ /\ rdpsnd_negotiated
          /\ device_open' = FALSE
          /\ queue' = EmptyQueue
          /\ answered' = ResetAnswers
       \/ /\ ~rdpsnd_negotiated
          /\ queue' = AckAll(queue)
          /\ answered' = Answers(queue, AckAll(queue))
          /\ UNCHANGED device_open
    /\ UNCHANGED <<current_format, block>>

\* rdpsnd_reset_state out of rdesktop_reset_state: the connection starts anew.
Reset ==
    /\ rdpsnd_negotiated' = FALSE
    /\ device_open' = FALSE
    /\ queue' = EmptyQueue
    /\ answered' = ResetAnswers
    /\ IF device_open THEN AudioClose ELSE UNCHANGED bufferVars
    /\ UNCHANGED <<current_driver, current_format, block>>

\* dart_check_fds: copy what fits; a packet copied to the end, or one that took
\* longer than its share of time, makes room for the next.
Play(q) ==
    LET room == cbMidBufOut - ulMidBufOutWritePos
        left == q.packets[q.lo].left
        copied == IF left < room THEN left ELSE room
    IN /\ ulMidBufOutWritePos' = ulMidBufOutWritePos + copied
       /\ \/ /\ copied < left
             /\ queue' = [q EXCEPT !.packets[q.lo].left = left - copied]
          \/ queue' \in {rdpsnd_queue_next(q, delay) : delay \in 0..MaxDelay}

\* rdpsnd_check_fds, from ui_select.
CheckFds ==
    \E q \in {rdpsnd_queue_complete_pending(queue)} :
       /\ IF device_open /\ usDeviceOutId /\ q.lo # q.hi
          THEN Play(q)
          ELSE queue' = q /\ UNCHANGED ulMidBufOutWritePos
       /\ answered' = Answers(queue, queue')
       /\ UNCHANGED <<deviceVars, usDeviceOutId, block>>

\* cbAudioOutEvent: how much of the buffer goes to the device.
cbRead ==
    IF ulMidBufOutWritePos > BufferLength
    THEN BufferLength
    ELSE (ulMidBufOutWritePos % SampleSize) * SampleSize

AudioCallback ==
    /\ usDeviceOutId
    /\ ulMidBufOutWritePos' = ulMidBufOutWritePos - cbRead
    /\ answered' = <<>>
    /\ UNCHANGED <<queue, deviceVars, usDeviceOutId, block>>

DartTick == QueueTick /\ UNCHANGED bufferVars

Server == (\E format \in Formats, length \in Lengths : Write(format, length)) \/ Close \/ Negotiate
DartNext == Server \/ Reset \/ CheckFds \/ AudioCallback \/ DartTick

\* ui_select runs rdpsnd_check_fds at least every 10 ms, the audio system asks
\* for data as long as its device is open, and the clock runs.
DartFairness == WF_dartVars(CheckFds) /\ WF_dartVars(AudioCallback) /\ WF_dartVars(DartTick)

DartSpec == DartInit /\ [][DartNext]_dartVars /\ DartFairness

-----------------------------------------------------------------------------
(* Properties *)

DartTypeOK == RingTypeOK /\ usDeviceOutId \in BOOLEAN /\ ulMidBufOutWritePos \in 0..cbMidBufOut
=============================================================================
