---------------------------- MODULE SoundDrivers ----------------------------
(***************************************************************************)
(* Sound of the builds other than that for OS/2: rdpsnd.c with the drivers *)
(* for OSS, Sun, ALSA, libao and SGI, and recording, which the first three *)
(* can do.                                                                 *)
(*                                                                         *)
(* OSS and Sun have one device for both directions.  OSS opens it anew     *)
(* when the second user comes or the first one goes, if the device can do  *)
(* both at once (duplex); Sun counts its users.  A device that has a       *)
(* format keeps it until it is closed.  ALSA has a handle for each         *)
(* direction, libao and SGI only play.                                     *)
(*                                                                         *)
(* In a behaviour at most one call of the operating system fails that has  *)
(* no reason to (trouble).  A failed assertion ends the program.           *)
(***************************************************************************)
EXTENDS SoundRing, FiniteSets

CONSTANTS
    Drivers,       \* those that are modelled
    RecFormats,    \* the negotiated formats for recording
    DriverDelay,   \* of each, the longest time that a packet plays after it was written
    MaxWrite,      \* MAX_LEN, MAX_FRAMES, WAVEOUTLEN: the most to write at once
    RecordBuffer   \* the size of record_buffer

ASSUME DriversAssumption == Drivers \subseteq {"oss", "sun", "alsa", "libao", "sgi"}
ASSUME RecFormatAssumption == RecFormats \subseteq Formats
ASSUME DriverDelayAssumption == DriverDelay \in [Drivers -> 0..MaxDelay]
ASSUME MaxWriteAssumption == MaxWrite \in Nat \ {0} /\ RecordBuffer \in Nat \ {0}

VARIABLES
    driver,
    duplex,                \* can the device play and record at once?
    dsp,                   \* the device; mode is the set of open handles with ALSA
    rec_device_open,
    rdpsnd_rec_negotiated,
    record_buffer_size,
    aborted                \* an assertion failed

recordVars == <<rec_device_open, rdpsnd_rec_negotiated, record_buffer_size>>
driverVars == <<ringVars, driver, duplex, dsp, recordVars, aborted>>

Ways == {"out", "in"}
Devices ==
    [fd : BOOLEAN, mode : SUBSET Ways, configured : BOOLEAN, format : Formats, refs : Int,
     trouble : BOOLEAN]

CanRecord == driver \in {"oss", "sun", "alsa"}

-----------------------------------------------------------------------------
(* The calls of a driver.  Each has a set of results. *)

Result(d, ok) == [dsp |-> d, ok |-> ok]
Fails(d) == IF d.trouble THEN {} ELSE {Result([d EXCEPT !.trouble = TRUE], FALSE)}
Opens(d) == {Result([d EXCEPT !.fd = TRUE, !.configured = FALSE], TRUE)}
            \cup Fails([d EXCEPT !.fd = FALSE, !.configured = FALSE])

oss_open(d, way) ==
    IF ~d.fd THEN Opens([d EXCEPT !.mode = {way}])
    ELSE IF d.mode = {way} THEN {Result(d, TRUE)}
    ELSE IF ~duplex THEN {Result(d, FALSE)}
    ELSE Opens([d EXCEPT !.mode = Ways])

\* The device's format is only set while it has none.
dsp_set_format(d, format, closed) ==
    IF d.configured
    THEN {Result(d, d.format = format)}
    ELSE {Result([d EXCEPT !.configured = TRUE, !.format = format], TRUE)}
         \cup Fails([closed EXCEPT !.format = format])

oss_close(d) == [d EXCEPT !.fd = FALSE]
oss_set_format(d, format) == dsp_set_format(d, format, oss_close(d))

\* Mutation: the device stays open for both.
CloseKeepingBoth(d, way) ==
    IF d.mode = Ways THEN {d} ELSE {oss_close(d)}

\* oss_close_out and oss_close_in: the other user gets the device back.
oss_close_way(d, way) ==
    IF d.mode # Ways
    THEN {oss_close(d)}
    ELSE UNION {IF opened.ok
                THEN {set.dsp : set \in oss_set_format(opened.dsp, d.format)}
                ELSE {opened.dsp} :
                    opened \in UNION {oss_open(oss_close(d), other) : other \in Ways \ {way}}}

sun_open(d, way) ==
    IF d.fd
    THEN {IF d.mode \in {Ways, {way}} THEN Result([d EXCEPT !.refs = @ + 1], TRUE) ELSE Result(d, FALSE)}
    ELSE {Result(IF r.ok THEN [r.dsp EXCEPT !.refs = @ + 1] ELSE r.dsp, r.ok) :
             r \in Opens([d EXCEPT !.mode = IF duplex THEN Ways ELSE {way}])}

sun_close(d) == [d EXCEPT !.refs = @ - 1, !.fd = @ /\ d.refs # 1]
sun_set_format(d, format) == dsp_set_format(d, format, sun_close(d))

\* A handle for one direction that the other does not touch.
OpenAlone(d, way) == {Result([d EXCEPT !.mode = @ \cup {way}], TRUE), Result(d, FALSE)}
CloseAlone(d, way) == [d EXCEPT !.mode = @ \ {way}]

alsa_open(d, way) == OpenAlone(d, way)
alsa_close(d, way) == CloseAlone(d, way)
\* ALSA refuses a format while it plays.
alsa_set_format(d) == {Result(d, TRUE), Result(d, FALSE)}

\* libao has its device closed and opened for a format, and sets up resampling.
libao_open(d) == OpenAlone(d, "out")
libao_close(d) == CloseAlone(d, "out")
libao_set_format(d) == {Result(d, TRUE), Result(d, FALSE), Result(libao_close(d), FALSE)}

\* So has SGI, if the number of channels changes.
sgi_open(d) == OpenAlone(d, "out")
sgi_close(d) == CloseAlone(d, "out")
sgi_set_format(d) == {Result(d, TRUE), Result(d, FALSE), Result(sgi_close(d), FALSE)}

wave_open(d, way) ==
    CASE driver = "oss" -> oss_open(d, way)
      [] driver = "sun" -> sun_open(d, way)
      [] driver = "alsa" -> alsa_open(d, way)
      [] driver = "libao" -> libao_open(d)
      [] driver = "sgi" -> sgi_open(d)

wave_set_format(d, format) ==
    CASE driver = "oss" -> oss_set_format(d, format)
      [] driver = "sun" -> sun_set_format(d, format)
      [] driver = "alsa" -> alsa_set_format(d)
      [] driver = "libao" -> libao_set_format(d)
      [] driver = "sgi" -> sgi_set_format(d)

wave_close(d, way) ==
    CASE driver = "oss" -> oss_close_way(d, way)
      [] driver = "sun" -> {sun_close(d)}
      [] driver = "alsa" -> {alsa_close(d, way)}
      [] driver = "libao" -> {libao_close(d)}
      [] driver = "sgi" -> {sgi_close(d)}

\* Open and close, to see whether there is a device.
Probe(d, way) ==
    UNION {IF r.ok THEN wave_close(r.dsp, way) ELSE {r.dsp} : r \in wave_open(d, way)}

-----------------------------------------------------------------------------
(* Playing *)

\* Bytes of the current packet are written; what comes next when it is empty.
Wrote(q, k) ==
    IF k = q.packets[q.lo].left
    THEN {rdpsnd_queue_next(q, delay) : delay \in 0..DriverDelay[driver]}
    ELSE {[q EXCEPT !.packets[q.lo].left = @ - k]}

AtMost(q) == IF q.packets[q.lo].left < MaxWrite THEN q.packets[q.lo].left ELSE MaxWrite

\* The device is not ready, or fails, or takes a part.
oss_play(q) == {q, rdpsnd_queue_next(q, 0)} \cup UNION {Wrote(q, k) : k \in 1..AtMost(q)}

sun_play(q) == oss_play(q)

\* A packet that takes longer than its share of time is given up.
GivenUp(q) == {rdpsnd_queue_next(q, delay) : delay \in 0..DriverDelay[driver]}
alsa_play(q) == {q} \cup GivenUp(q) \cup UNION {Wrote(q, k) : k \in 0..AtMost(q)}
libao_play(q) == Wrote(q, AtMost(q)) \cup GivenUp(q)

\* Whole packets until the device is filled; the last of them has to wait.
sgi_play(q) ==
    {LET r == NextAtOnce(q, k)
     IN IF r.lo = r.hi THEN r ELSE [r EXCEPT !.packets[r.lo].left = 0] :
        k \in 0..Distance(q.lo, q.hi)}

HasDevice == "out" \in dsp.mode /\ (driver \in {"oss", "sun"} => dsp.fd)

Played(q) ==
    IF ~device_open \/ ~HasDevice \/ q.lo = q.hi THEN {q}
    ELSE CASE driver = "oss" -> oss_play(q)
           [] driver = "sun" -> sun_play(q)
           [] driver = "alsa" -> alsa_play(q)
           [] driver = "libao" -> libao_play(q)
           [] driver = "sgi" -> sgi_play(q)

-----------------------------------------------------------------------------
(* Recording *)

Heard(q, size, failed, abort) == [queue |-> q, size |-> size, failed |-> failed, aborted |-> abort]

\* rdpsnd_record: a buffer that is full is sent.
rdpsnd_record(q, bytes) ==
    Heard(q, (record_buffer_size + bytes) % RecordBuffer, FALSE, ~rec_device_open)

Silence(q) == Heard(q, record_buffer_size, FALSE, FALSE)
Reads(q) == {Silence(q)} \cup {rdpsnd_record(q, bytes) : bytes \in 1..RecordBuffer}

\* A read that fails takes a packet from the ring, played or not.
ReadFails(q) ==
    IF q.lo = q.hi THEN Heard(q, record_buffer_size, TRUE, TRUE)
    ELSE Heard(rdpsnd_queue_next(q, 0), record_buffer_size, TRUE, FALSE)

oss_record(q) == Reads(q) \cup (IF dsp.trouble THEN {} ELSE {ReadFails(q)})
sun_record(q) == Reads(q)
alsa_record(q) == Reads(q)

Recorded(q) ==
    CASE driver = "oss" /\ dsp.fd /\ "in" \in dsp.mode -> oss_record(q)
      [] driver = "sun" /\ dsp.fd /\ rec_device_open -> sun_record(q)
      [] driver = "alsa" /\ "in" \in dsp.mode -> alsa_record(q)
      [] OTHER -> {Silence(q)}

-----------------------------------------------------------------------------
DriverInit ==
    /\ RingInit
    /\ driver \in Drivers
    /\ duplex \in BOOLEAN /\ (driver \in {"oss", "sun"} \/ duplex)
    /\ dsp = [fd |-> FALSE, mode |-> {}, configured |-> FALSE, format |-> current_format,
              refs |-> 0, trouble |-> FALSE]
    /\ rec_device_open = FALSE
    /\ rdpsnd_rec_negotiated = FALSE
    /\ record_buffer_size = 0
    /\ aborted = FALSE

Packet(format, length) == [index |-> block, format |-> format, left |-> length, due |-> 0]

\* RDPSND_WRITE in the format that is current.
WriteOn(format, length) ==
    /\ device_open /\ format = current_format
    /\ queue' = rdpsnd_queue_write(queue, Packet(format, length))
    /\ answered' = <<>>
    /\ UNCHANGED <<dsp, device_open, current_format, aborted>>

\* It opens the device or gives it a new format, which need not work.
WriteAnew(format, length) ==
    /\ current_driver
    /\ ~device_open \/ format # current_format
    /\ UNCHANGED aborted
    /\ \E opened \in IF device_open THEN {Result(dsp, TRUE)} ELSE wave_open(dsp, "out") :
          IF ~opened.ok
          THEN /\ dsp' = opened.dsp
               /\ answered' = <<block>>
               /\ UNCHANGED <<queue, device_open, current_format>>
          ELSE \E set \in wave_set_format(opened.dsp, format) :
                 \/ /\ set.ok
                    /\ dsp' = set.dsp
                    /\ device_open' = TRUE
                    /\ current_format' = format
                    /\ queue' = rdpsnd_queue_write(queue, Packet(format, length))
                    /\ answered' = <<>>
                 \/ /\ ~set.ok
                    /\ dsp' \in wave_close(set.dsp, "out")
                    /\ device_open' = FALSE
                    /\ queue' = AckAll(queue)
                    /\ answered' = <<block>> \o Answers(queue, AckAll(queue))
                    /\ UNCHANGED current_format

\* oss_set_format asserts that the device is open.
DeviceGone == driver = "oss" /\ device_open /\ ~dsp.fd

DriverWrite(format, length) ==
    /\ block' = (block + 1) % IndexCount
    /\ UNCHANGED <<current_driver, rdpsnd_negotiated, driver, duplex, recordVars>>
    /\ \/ WriteOn(format, length)
       \/ ~DeviceGone /\ WriteAnew(format, length)
       \/ /\ DeviceGone /\ format # current_format
          /\ aborted' = TRUE
          /\ answered' = <<>>
          /\ UNCHANGED <<queue, dsp, device_open, current_format>>
       \/ /\ ~current_driver
          /\ answered' = <<block>>
          /\ UNCHANGED <<queue, dsp, device_open, current_format, aborted>>

\* RDPSND_CLOSE.
DriverClose ==
    /\ device_open
    /\ device_open' = FALSE
    /\ dsp' \in wave_close(dsp, "out")
    /\ queue' = AckAll(queue)
    /\ answered' = Answers(queue, AckAll(queue))
    /\ UNCHANGED <<current_driver, rdpsnd_negotiated, current_format, block, driver, duplex, recordVars,
                   aborted>>

\* rdpsnd_reset_state: what becomes of the device.
AfterReset ==
    UNION {IF rec_device_open THEN wave_close(d, "in") ELSE {d} :
           d \in IF device_open THEN wave_close(dsp, "out") ELSE {dsp}}
ResetSound ==
    /\ device_open' = FALSE
    /\ rec_device_open' = FALSE
    /\ record_buffer_size' = 0
    /\ queue' = EmptyQueue
    /\ answered' = IF device_open THEN Answers(queue, AckAll(queue)) ELSE <<>>

DriverReset ==
    /\ ResetSound
    /\ dsp' \in AfterReset
    /\ rdpsnd_negotiated' = FALSE
    /\ rdpsnd_rec_negotiated' = FALSE
    /\ UNCHANGED <<current_driver, current_format, block, driver, duplex, aborted>>

\* rdpsnd_auto_select tries once; a driver that is selected is tried again.
Selected(d, way) ==
    {[dsp |-> e, driver |-> current_driver \/ e.trouble = d.trouble] :
        e \in IF ~current_driver /\ d.trouble THEN {d} ELSE Probe(d, way)}

\* RDPSND_NEGOTIATE, and RDPSND_REC_NEGOTIATE.  A second one in a session resets
\* all.  A server negotiates before it plays, or records.
Negotiation(again, open, way) ==
    /\ again \/ ~open
    /\ \E d \in IF again THEN AfterReset ELSE {dsp} :
         \E selected \in Selected(d, IF current_driver THEN way ELSE "out") :
           /\ dsp' = selected.dsp
           /\ current_driver' = selected.driver
    /\ IF again THEN ResetSound
       ELSE answered' = <<>> /\ UNCHANGED <<queue, device_open, rec_device_open, record_buffer_size>>
    /\ UNCHANGED <<current_format, block, driver, duplex, aborted>>

DriverNegotiate ==
    /\ Negotiation(rdpsnd_negotiated, device_open, "out")
    /\ rdpsnd_negotiated' = TRUE
    /\ rdpsnd_rec_negotiated' = (rdpsnd_rec_negotiated /\ ~rdpsnd_negotiated)

RecNegotiate ==
    /\ CanRecord
    /\ Negotiation(rdpsnd_rec_negotiated, rec_device_open, "in")
    /\ rdpsnd_rec_negotiated' = TRUE
    /\ rdpsnd_negotiated' = (rdpsnd_negotiated /\ ~rdpsnd_rec_negotiated)

\* RDPSND_REC_START, in a format that was offered.
RecStart(format) ==
    /\ current_driver /\ CanRecord /\ rdpsnd_rec_negotiated
    /\ ~rec_device_open
    /\ \E opened \in wave_open(dsp, "in") :
          IF ~opened.ok
          THEN dsp' = opened.dsp /\ UNCHANGED rec_device_open
          ELSE \E set \in wave_set_format(opened.dsp, format) :
                 /\ dsp' \in IF set.ok THEN {set.dsp} ELSE wave_close(set.dsp, "in")
                 /\ rec_device_open' = set.ok
    /\ answered' = <<>>
    /\ UNCHANGED <<queue, deviceVars, block, driver, duplex, rdpsnd_rec_negotiated, record_buffer_size,
                   aborted>>

\* RDPSND_REC_STOP sends what is left in the buffer.
RecStop ==
    /\ record_buffer_size' = 0
    /\ rec_device_open' = FALSE
    /\ dsp' \in IF rec_device_open THEN wave_close(dsp, "in") ELSE {dsp}
    /\ answered' = <<>>
    /\ UNCHANGED <<queue, deviceVars, block, driver, duplex, rdpsnd_rec_negotiated, aborted>>

\* rdpsnd_check_fds: first what is due, then the driver plays and records.
DriverCheckFds ==
    \E q \in Played(rdpsnd_queue_complete_pending(queue)) :
     \E heard \in IF device_open \/ rec_device_open THEN Recorded(q) ELSE {Silence(q)} :
        /\ queue' = heard.queue
        /\ answered' = Answers(queue, heard.queue)
        /\ record_buffer_size' = heard.size
        /\ aborted' = heard.aborted
        /\ dsp' = [dsp EXCEPT !.trouble = @ \/ heard.failed]
        /\ UNCHANGED <<deviceVars, block, driver, duplex, rec_device_open, rdpsnd_rec_negotiated>>

DriverTick == QueueTick /\ UNCHANGED <<driver, duplex, dsp, recordVars, aborted>>

DriverServer ==
    \/ \E format \in Formats, length \in Lengths : DriverWrite(format, length)
    \/ DriverClose \/ DriverNegotiate \/ RecNegotiate \/ RecStop
    \/ \E format \in RecFormats : RecStart(format)

DriverNext == ~aborted /\ (DriverServer \/ DriverReset \/ DriverCheckFds \/ DriverTick)

DriverSpec == DriverInit /\ [][DriverNext]_driverVars

-----------------------------------------------------------------------------
(* Properties *)

DriverTypeOK ==
    /\ RingTypeOK
    /\ driver \in Drivers
    /\ dsp \in Devices
    /\ {duplex, rec_device_open, rdpsnd_rec_negotiated, aborted} \subseteq BOOLEAN
    /\ record_buffer_size \in 0..(RecordBuffer - 1)

Users == (IF device_open THEN {"out"} ELSE {}) \cup (IF rec_device_open THEN {"in"} ELSE {})

\* As long as no call of the operating system fails, the device is open for
\* exactly what is going on, however playing and recording begin and end, no
\* assertion of a driver fails, and what was recorded before is not sent as part
\* of something else.
ServesUsers ==
    ~dsp.trouble =>
        /\ ~aborted
        /\ record_buffer_size > 0 => rec_device_open
        /\ CASE driver = "oss" -> dsp.fd = (Users # {}) /\ (dsp.fd => dsp.mode = Users)
             [] driver = "sun" -> /\ dsp.fd = (Users # {})
                                  /\ dsp.fd => Users \subseteq dsp.mode
                                  /\ dsp.refs = Cardinality(Users)
                                  /\ device_open => dsp.configured /\ dsp.format = current_format
             [] OTHER -> dsp.mode = Users
=============================================================================
