----------------------------- MODULE SerialPort -----------------------------
(***************************************************************************)
(* Redirected serial ports: the list of pending requests of rdpdr.c and    *)
(* the driver of OS/2, os2/serial.c.  A request that cannot be answered at *)
(* once waits in g_iorequest, until ui_select finds its socket ready, an   *)
(* event of the port, or a time-out.                                       *)
(*                                                                         *)
(* Bytes are numbered as they arrive from the device; a byte number of 0   *)
(* in a buffer stands for one that never arrived.  The thread that carries *)
(* bytes between device and socket is one step, Arrive.  The settings of   *)
(* the line are left out, and so is SERIAL_PURGE: it asks rdpdr_abort_io   *)
(* for the handle of the file, which is never that of a request.           *)
(***************************************************************************)
EXTENDS Integers, FiniteSets, Sequences

CONSTANTS
    Ports,
    Lengths,       \* lengths of reads and writes, by port
    Chunk,         \* the most that is read or written at once (8192)
    Timers,        \* settings of the time-outs by port: sets of "total", "interval"
    MaxBytes,      \* bounds the bytes that arrive at each port
    MaxRequests,   \* bounds the requests the server keeps pending
    Uses,          \* the requests the server makes of each port
    OneAtATime,    \* does the server wait for an answer before it sends the same again?
    CloseQuiet,    \* does the server close a port with one request pending at most?
    NoPort         \* g_min_timeout_fd before any time-out was set

ASSUME LengthAssumption == Lengths \in [Ports -> SUBSET (Nat \ {0})] /\ Chunk \in Nat \ {0}
ASSUME TimerAssumption == Timers \in [Ports -> SUBSET SUBSET {"total", "interval"}]
ASSUME BoundAssumption == MaxBytes \in [Ports -> Nat] /\ MaxRequests \in Nat
ASSUME ServerAssumption == OneAtATime \in BOOLEAN /\ CloseQuiet \in BOOLEAN
ASSUME PortAssumption == NoPort \notin Ports

Majors == {"READ", "WRITE", "WAIT"}
ASSUME UseAssumption == Uses \in [Ports -> SUBSET Majors]

VARIABLES
    g_iorequest,
    open,               \* the ports with a handle
    uiWaitEventMask,    \* the ports whose events the server wants to know
    event,              \* the ports whose driver has an event
    timers,             \* the time-outs for reads, by port
    arrived, taken,     \* how many bytes reached the socket, and left it
    g_min_timeout_fd,
    s_timeout,          \* of ui_select
    sent,               \* the completions of the last step
    received            \* what reads of each port gave the server, ever

portVars == <<open, uiWaitEventMask, event, timers, arrived>>
vars == <<g_iorequest, portVars, taken, g_min_timeout_fd, s_timeout, sent, received>>

\* struct async_iorequest.  "buffer" holds the bytes read so far, and for a
\* write those to be written.
Requests == [port : Ports, major : Majors, length : Nat, buffer : Seq(Nat),
             timeout : SUBSET {"total", "interval"}]
Completions == [port : Ports, major : Majors, ended : BOOLEAN, buffer : Seq(Nat)]

Init ==
    /\ g_iorequest = <<>>
    /\ open = {} /\ uiWaitEventMask = {} /\ event = {}
    /\ timers = [p \in Ports |-> {}]
    /\ arrived = [p \in Ports |-> 0] /\ taken = arrived
    /\ g_min_timeout_fd = NoPort /\ s_timeout = FALSE
    /\ sent = <<>> /\ received = [p \in Ports |-> <<>>]

Smaller(m, n) == IF m <= n THEN m ELSE n
Pending(p, major) == {i \in DOMAIN g_iorequest :
                          g_iorequest[i].port = p /\ g_iorequest[i].major = major}

-----------------------------------------------------------------------------
(* The list *)

Without(list, i) == SubSeq(list, 1, i - 1) \o SubSeq(list, i + 1, Len(list))

\* rdpdr_send_completion, of a request that got what it asked for and of one
\* that was ended.
Answer(request) ==
    [port |-> request.port, major |-> request.major, ended |-> FALSE,
     buffer |-> IF request.major = "READ" THEN request.buffer ELSE <<>>]
Ended(request) ==
    [port |-> request.port, major |-> request.major, ended |-> TRUE, buffer |-> <<>>]

\* Mutant: only a read is ended.
AbortRead(list, p) ==
    LET mine == {i \in DOMAIN list : list[i].port = p /\ list[i].major = "READ"}
        first == CHOOSE i \in mine : \A j \in mine : i <= j
    IN  IF mine = {} THEN [list |-> list, sent |-> <<>>]
        ELSE [list |-> Without(list, first), sent |-> <<Ended(list[first])>>]

\* rdpdr_abort_io without a major ends the first request of the handle.
Abort(list, p) ==
    LET mine == {i \in DOMAIN list : list[i].port = p}
        first == CHOOSE i \in mine : \A j \in mine : i <= j
    IN  IF mine = {} THEN [list |-> list, sent |-> <<>>]
        ELSE [list |-> Without(list, first), sent |-> <<Ended(list[first])>>]

\* What the server has received of each port after some completions.
Received(completions) ==
    [p \in Ports |->
        LET Of(n) == IF completions[n].port = p THEN completions[n].buffer ELSE <<>>
            all[n \in 0..Len(completions)] == IF n = 0 THEN <<>> ELSE all[n - 1] \o Of(n)
        IN  received[p] \o all[Len(completions)]]

-----------------------------------------------------------------------------
(* rdpdr_check_fds *)

\* A pass over the list.  "result" lives through the whole pass: a read that
\* finds its socket empty leaves it as it was.
PassAt(list, at, result, events, bytes, completions) ==
    [list |-> list, at |-> at, result |-> result, event |-> events, taken |-> bytes,
     sent |-> completions]
Start(list, events, bytes) == PassAt(list, 1, 0, events, bytes, <<>>)

\* What a read, a write or asking for an event changes besides the list.
Changed(pass, result, events, bytes) ==
    PassAt(pass.list, pass.at, result, events, bytes, pass.sent)

\* rdpdr_remove_iorequest returns what follows; the loop goes on behind that,
\* and after the first request it has nowhere to go.
Complete(pass, request) ==
    PassAt(Without(pass.list, pass.at), IF pass.at = 1 THEN Len(pass.list) + 1 ELSE pass.at + 1,
           pass.result, pass.event, pass.taken, Append(pass.sent, Answer(request)))
Keep(pass, request) ==
    PassAt([pass.list EXCEPT ![pass.at] = request], pass.at + 1,
           pass.result, pass.event, pass.taken, pass.sent)

\* Mutant: what is read goes to the start of the buffer.
ToStart(buffer, bytes) == bytes \o buffer

\* What is read goes behind what the buffer holds.
Filled(buffer, bytes) == buffer \o bytes

\* Mutant: a read that was answered in part is not looked at again.
ReadOnce(pass) ==
    LET request == pass.list[pass.at]
        p == request.port
        after == [request EXCEPT !.buffer = Append(@, pass.taken[p] + 1)]
        later == Changed(pass, 1, pass.event, [pass.taken EXCEPT ![p] = @ + 1])
    IN  IF request.buffer # <<>> THEN Keep(pass, request)
        ELSE IF request.length = 1 THEN Complete(later, after) ELSE Keep(later, after)

\* serial_read
Read(pass) ==
    LET request == pass.list[pass.at]
        p == request.port
        size == Smaller(request.length - Len(request.buffer), Chunk)
        count == Smaller(arrived[p] - pass.taken[p], size)
        result == IF count > 0 THEN count ELSE pass.result
        bytes == [i \in 1..result |-> IF count > 0 THEN pass.taken[p] + i ELSE 0]
        after == [request EXCEPT !.buffer = Filled(@, bytes)]
        later == Changed(pass, result, pass.event, [pass.taken EXCEPT ![p] = @ + count])
    IN  IF Len(after.buffer) = request.length \/ result = 0
        THEN Complete(later, after)
        ELSE Keep(later, after)

\* serial_write, of which the socket accepts some.
Write(pass, accepted) ==
    LET request == pass.list[pass.at]
        count == Smaller(Smaller(Len(request.buffer), Chunk), accepted)
        after == [request EXCEPT !.buffer = SubSeq(@, count + 1, Len(@))]
        later == Changed(pass, count, pass.event, pass.taken)
    IN  IF after.buffer = <<>> THEN Complete(later, after) ELSE Keep(later, after)

\* serial_get_event: asking the driver clears the event, wanted or not.
GetEvent(pass) ==
    LET request == pass.list[pass.at]
        p == request.port
        told == p \in pass.event /\ p \in uiWaitEventMask
        asked == Changed(pass, IF told THEN 4 ELSE pass.result, pass.event \ {p}, pass.taken)
    IN  IF told THEN Complete(asked, request) ELSE Keep(asked, request)

Visit(pass, rfds, wfds, accepted) ==
    LET request == pass.list[pass.at]
    IN  CASE request.major = "READ" /\ request.port \in rfds -> Read(pass)
          [] request.major = "WRITE" /\ request.port \in wfds -> Write(pass, accepted)
          [] request.major = "WAIT" -> GetEvent(pass)
          [] OTHER -> Keep(pass, request)

Only(S) == CHOOSE element \in S : TRUE

Pass(start, rfds, wfds, accepted) ==
    LET after[n \in 0..Len(start.list)] ==
            IF n = 0 THEN start
            ELSE Only({IF before.at > Len(before.list) THEN before
                       ELSE Visit(before, rfds, wfds, accepted) : before \in {after[n - 1]}})
    IN  after[Len(start.list)]

\* Mutant: events are looked for in the second pass only.
NoEventPass == Start(g_iorequest, event, taken)

\* The first pass looks for events only.
EventPass == Pass(Start(g_iorequest, event, taken), {}, {}, 1)

Again(pass) == Start(pass.list, pass.event, pass.taken)

\* The reads that rdpdr_add_fds waits for with a time-out.
Timed ==
    {g_iorequest[i].port : i \in {j \in DOMAIN g_iorequest :
        /\ g_iorequest[j].major = "READ"
        /\ \/ "total" \in g_iorequest[j].timeout
           \/ "interval" \in g_iorequest[j].timeout /\ g_iorequest[j].buffer # <<>>}}

\* rdpdr_add_fds: whose time-out is the shortest is not modelled.  With none,
\* what an earlier round set stays.
rdpdr_add_fds ==
    IF Timed = {}
    THEN UNCHANGED <<g_min_timeout_fd, s_timeout>>
    ELSE g_min_timeout_fd' \in Timed /\ s_timeout' = TRUE

Readable == {p \in Ports : Pending(p, "READ") # {} /\ arrived[p] > taken[p]}
Writable == {p \in Ports : Pending(p, "WRITE") # {}}

Finish(pass, earlier) ==
    /\ g_iorequest' = pass.list
    /\ event' = pass.event
    /\ taken' = pass.taken
    /\ sent' = earlier \o pass.sent
    /\ received' = Received(earlier \o pass.sent)
    /\ UNCHANGED <<open, uiWaitEventMask, timers, arrived>>

\* select found sockets ready; with "other", only ones that are no port's.
CheckFds(wfds, accepted, other) ==
    /\ Readable # {} \/ wfds # {} \/ other
    /\ rdpdr_add_fds
    /\ \E first \in {EventPass} :
           \E second \in {Pass(Again(first), Readable, wfds, accepted)} :
               Finish(second, first.sent)

\* The part of _rdpdr_check_fds for a time-out: the first request of the list
\* gives what it has, if it is the one that timed out; otherwise the first
\* request of that port is ended.
TimeOutPass(pass, p) ==
    LET ended == Abort(pass.list, p)
    IN  IF pass.list # <<>> /\ pass.list[1].port = p /\ pass.list[1].major = "READ"
            /\ pass.list[1].buffer # <<>>
        THEN Complete(pass, pass.list[1])
        ELSE PassAt(ended.list, 1, 0, pass.event, pass.taken, ended.sent)

\* select found nothing in time, and ui_select ends read requests.
TimeOut ==
    /\ rdpdr_add_fds
    /\ s_timeout' /\ Readable = {}
    /\ \E first \in {EventPass} :
           \E second \in {TimeOutPass(Again(first), g_min_timeout_fd')} :
               Finish(second, first.sent)

-----------------------------------------------------------------------------
(* The requests of the server *)

Quiet == sent' = <<>> /\ UNCHANGED <<received, g_min_timeout_fd, s_timeout>>

serial_create(p) ==
    /\ p \notin open
    /\ open' = open \cup {p}
    /\ Quiet
    /\ UNCHANGED <<g_iorequest, uiWaitEventMask, event, timers, arrived, taken>>

\* The handle goes, and with it what is left in the socket; one request of
\* the handle is ended.
serial_close(p) ==
    /\ p \in open
    /\ CloseQuiet => Cardinality(UNION {Pending(p, major) : major \in Majors}) <= 1
    /\ open' = open \ {p}
    /\ g_iorequest' = Abort(g_iorequest, p).list
    /\ sent' = Abort(g_iorequest, p).sent
    /\ taken' = [taken EXCEPT ![p] = arrived[p]]
    /\ UNCHANGED <<received, g_min_timeout_fd, s_timeout, uiWaitEventMask, event, timers, arrived>>

\* add_async_iorequest
Add(request) ==
    /\ request.port \in open /\ request.major \in Uses[request.port]
    /\ Len(g_iorequest) < MaxRequests
    /\ OneAtATime => Pending(request.port, request.major) = {}
    /\ g_iorequest' = Append(g_iorequest, request)
    /\ Quiet

ReadRequest(p, length) ==
    /\ Add([port |-> p, major |-> "READ", length |-> length, buffer |-> <<>>,
            timeout |-> timers[p]])
    /\ UNCHANGED <<portVars, taken>>

WriteRequest(p, length) ==
    /\ Add([port |-> p, major |-> "WRITE", length |-> length,
            buffer |-> [i \in 1..length |-> 0], timeout |-> {}])
    /\ UNCHANGED <<portVars, taken>>

WaitFor(p) == [port |-> p, major |-> "WAIT", length |-> 0, buffer |-> <<>>, timeout |-> {}]

\* SERIAL_WAIT_ON_MASK asks for an event at once, which clears it.
WaitRequest(p) ==
    /\ p \in open /\ "WAIT" \in Uses[p]
    /\ event' = event \ {p}
    /\ IF p \in event /\ p \in uiWaitEventMask
       THEN /\ sent' = <<Answer(WaitFor(p))>>
            /\ UNCHANGED <<g_iorequest, received, g_min_timeout_fd, s_timeout>>
       ELSE Add(WaitFor(p))
    /\ UNCHANGED <<open, uiWaitEventMask, timers, arrived, taken>>

\* SERIAL_SET_WAIT_MASK and SERIAL_SET_TIMEOUTS
SetWaitMask(p, wanted) ==
    /\ p \in open /\ "WAIT" \in Uses[p]
    /\ uiWaitEventMask' = IF wanted THEN uiWaitEventMask \cup {p} ELSE uiWaitEventMask \ {p}
    /\ Quiet
    /\ UNCHANGED <<g_iorequest, open, event, timers, arrived, taken>>
SetTimeouts(p, setting) ==
    /\ p \in open
    /\ timers' = [timers EXCEPT ![p] = setting]
    /\ Quiet
    /\ UNCHANGED <<g_iorequest, open, uiWaitEventMask, event, arrived, taken>>

\* A packet of the server ends ui_select, and the next call starts with no
\* time-out set.
Request(p) ==
    \/ serial_create(p) \/ serial_close(p) \/ WaitRequest(p)
    \/ \E length \in Lengths[p] : ReadRequest(p, length) \/ WriteRequest(p, length)
    \/ \E wanted \in BOOLEAN : SetWaitMask(p, wanted)
    \/ \E setting \in Timers[p] : SetTimeouts(p, setting)

-----------------------------------------------------------------------------
(* The device, and the whole *)

\* threadPort: a byte from the device reaches the socket, with its event.
Arrive(p) ==
    /\ p \in open /\ arrived[p] < MaxBytes[p]
    /\ arrived' = [arrived EXCEPT ![p] = @ + 1]
    /\ event' = event \cup {p}
    /\ Quiet
    /\ UNCHANGED <<g_iorequest, open, uiWaitEventMask, timers, taken>>

\* An event of the modem's lines comes without a byte.
LineEvent(p) ==
    /\ p \in open
    /\ event' = event \cup {p}
    /\ Quiet
    /\ UNCHANGED <<g_iorequest, open, uiWaitEventMask, timers, arrived, taken>>

Poll == \E wfds \in SUBSET Writable, accepted \in 1..Chunk, other \in BOOLEAN :
            CheckFds(wfds, accepted, other)

Next ==
    \/ \E p \in Ports : Request(p) \/ Arrive(p) \/ LineEvent(p)
    \/ Poll
    \/ TimeOut

Spec == Init /\ [][Next]_vars

\* ui_select calls select again and again, and select returns while a socket
\* is ready.  Nothing brings it to look for events only.
FairSpec == Spec /\ WF_vars(Readable # {} /\ Poll)

-----------------------------------------------------------------------------
(* Properties *)

\* Types, and the bounds named above.
TypeOK ==
    /\ g_iorequest \in Seq(Requests) /\ Len(g_iorequest) <= MaxRequests
    /\ open \subseteq Ports /\ uiWaitEventMask \subseteq Ports /\ event \subseteq Ports
    /\ timers \in [Ports -> SUBSET {"total", "interval"}]
    /\ \A p \in Ports : arrived[p] \in 0..MaxBytes[p] /\ taken[p] \in 0..arrived[p]
    /\ g_min_timeout_fd \in Ports \cup {NoPort} /\ s_timeout \in BOOLEAN
    /\ sent \in Seq(Completions)
    /\ received \in [Ports -> Seq(Nat)]

Increasing(s) == \A i, j \in DOMAIN s : i < j => s[i] < s[j]

\* The server gets the bytes of a port in the order they arrived in and none
\* that never arrived, even those that still wait in the buffer of a partly
\* answered read included (the list "ensures that they are processed in the
\* right order").  Bytes may be lost, with a read that timed out.  No request
\* outlives its port's handle (serial_close ends one request).
BytesInOrder ==
    /\ \A i \in DOMAIN g_iorequest : g_iorequest[i].port \in open
    /\ \A p \in Ports :
          /\ Increasing(received[p])
          /\ \A i \in DOMAIN received[p] : received[p][i] \in 1..taken[p]
          /\ \A i \in Pending(p, "READ"), j \in DOMAIN received[p] :
                 \A k \in DOMAIN g_iorequest[i].buffer :
                     received[p][j] < g_iorequest[i].buffer[k]

HasEvent(p) == p \in event /\ p \in uiWaitEventMask /\ Pending(p, "WAIT") # {}

\* "any serial wait event must be done before read block will be sent", if one
\* port at a time has an event (the two passes of rdpdr_check_fds).
EventFirst ==
    [][\A p \in Ports :
          {q \in Ports : HasEvent(q)} = {p} =>
              \A i \in DOMAIN sent' :
                  sent'[i].port = p /\ sent'[i].major = "READ" /\ ~sent'[i].ended
                      => \E j \in 1..(i - 1) : sent'[j].port = p /\ sent'[j].major = "WAIT"]_vars

\* A read for which bytes are there is answered, unless its port is closed,
\* whatever else is in the list (rdpdr_check_fds skips a request after each
\* one it removes, and stops after the first of the list).
ReadAnswered ==
    \A p \in Ports : (p \in Readable) ~> (p \notin Readable)
=============================================================================
