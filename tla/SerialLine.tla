----------------------------- MODULE SerialLine -----------------------------
(***************************************************************************)
(* The settings of a redirected serial port in both drivers: serial.c of   *)
(* the Unix builds and os2/serial.c.  The server sets the rate, the line,  *)
(* the handshake, the characters and the time-outs one at a time, and each *)
(* driver writes more than it was asked for: that of Unix all of its       *)
(* struct termios, made from what it remembers of earlier requests, that   *)
(* of OS/2 all of the DCB, which it reads first.                           *)
(*                                                                         *)
(* What the port does is modelled where it decides about settings: it may  *)
(* refuse all or some of what it is given, which no driver looks at.  Of   *)
(* the handshake, the bits CTS, XON and XOFF are modelled; time-outs are   *)
(* such that none of the sums leaves 32 bits.  Speeds are written as where *)
(* there is CBAUD.  Data, events and the pending requests are those of     *)
(* SerialPort; as there, the server opens a port once at a time.           *)
(***************************************************************************)
EXTENDS Integers

CONSTANTS
    Rates, Lines, Flows, Characters, Timeouts,    \* what the server asks for
    Found,         \* settings a port may have when it is opened
    Takes,         \* what a port may take of the settings it is given
    Signals        \* those of DTR and RTS that a port has

CharNames == {"EOF", "ERROR", "BREAK", "EVENT", "XON", "XOFF"}
Flow == SUBSET {"CTS", "XON", "XOFF"}
Line == [stop_bits : Nat, parity : Nat, word_length : Nat]
PortTimeouts == [interval : Nat, multiplier : Nat, constant : Nat,
            writeMultiplier : Nat, writeConstant : Nat]

\* The time-outs of the port: reads and writes wait so long, or not at all ("none").
Waits == [read : Nat, write : Nat, none : SUBSET {"read", "write"}]

\* The settings of a port, in struct termios or in the driver of OS/2.
Settings == [rate : Nat, line : Line, flow : Flow, chars : [CharNames -> Nat], timeouts : Waits]
Groups == {"rate", "line", "flow", "chars", "timeouts"}

ASSUME RequestAssumption ==
    /\ Rates \subseteq Nat /\ Lines \subseteq Line /\ Flows \subseteq Flow
    /\ Characters \subseteq [CharNames -> Nat] /\ Timeouts \subseteq PortTimeouts
ASSUME PortAssumption ==
    /\ Found \subseteq Settings /\ Found # {}
    /\ Takes \subseteq SUBSET Groups /\ Signals \subseteq {"DTR", "RTS"}

VARIABLES
    build,         \* "unix" or "os2"
    isOpen,
    port,          \* the settings the port has
    signals,       \* DTR and RTS, where they are on
    pser_inf,      \* what the driver remembers: SERIAL_DEVICE or PORTDATA
    ptermios,      \* pser_inf->ptermios
    asked          \* what the server last asked for since it opened the port, if the
                   \* port took it: one value, or none

lineVars == <<build, isOpen, port, signals, pser_inf, ptermios, asked>>

Remembered == [rate : Nat, line : Line, flow : Flow, chars : [CharNames -> Nat],
               timeouts : PortTimeouts]

LineInit ==
    /\ build \in {"unix", "os2"}
    /\ isOpen = FALSE
    /\ port \in Found /\ signals \in SUBSET Signals
    /\ pser_inf = [rate |-> 0, line |-> [stop_bits |-> 0, parity |-> 0, word_length |-> 0],
                   flow |-> {}, chars |-> [c \in CharNames |-> 0],
                   timeouts |-> [interval |-> 0, multiplier |-> 0, constant |-> 0,
                                 writeMultiplier |-> 0, writeConstant |-> 0]]
    /\ ptermios = port
    /\ asked = [g \in Groups \cup Signals |-> {}]

\* The port takes some of the settings it is given.
Taken(settings, took) == [g \in Groups |-> IF g \in took THEN settings[g] ELSE port[g]]

\* The server asked for a setting; one that the port refused is nobody's concern.
Note(group, value, took) ==
    asked' = [asked EXCEPT ![group] = IF group \in took THEN {value} ELSE {}]

-----------------------------------------------------------------------------
(* Unix: struct termios *)

KnownRates == {75, 110, 134, 150, 300, 600, 1200, 1800, 2400, 4800, 9600, 19200, 38400, 57600,
               115200, 230400, 460800}

\* The two tables: of set_termios, and of get_termios.
Speed(rate) ==
    IF rate \in {230400, 460800} THEN 115200 ELSE IF rate \in KnownRates THEN rate ELSE 9600

\* Mutant: the table of get_termios ends at 57600.
RateUpTo57600(speed) ==
    IF speed \in KnownRates \ {115200, 230400, 460800} THEN speed ELSE 9600

RateOf(speed) == IF speed \in KnownRates THEN speed ELSE 9600

\* c_cflag: one stop bit or two, a parity or none, five to eight bits.
LineFlags(line) ==
    [stop_bits |-> IF line.stop_bits = 2 THEN 2 ELSE 0,
     parity |-> IF line.parity \in {1, 2} THEN line.parity ELSE 0,
     word_length |-> IF line.word_length \in {5, 6, 7} THEN line.word_length ELSE 8]

\* CRTSCTS follows what is asked; IXON and IXOFF are set where asked for, and
\* cleared only together.
FlowFlags(old, flow) ==
    (flow \cap {"CTS"}) \cup
    IF flow \cap {"XON", "XOFF"} = {} THEN {} ELSE (old \cup flow) \cap {"XON", "XOFF"}

\* set_termios
TermiosOf(known) ==
    [rate |-> Speed(known.rate), line |-> LineFlags(known.line),
     flow |-> FlowFlags(ptermios.flow, known.flow),
     chars |-> [known.chars EXCEPT !["EVENT"] = ptermios.chars["EVENT"]],
     timeouts |-> ptermios.timeouts]

set_termios(known, group, value) ==
    \E took \in Takes :
        /\ pser_inf' = known
        /\ ptermios' = TermiosOf(known)
        /\ port' = Taken(TermiosOf(known), took)
        /\ Note(group, value, took)
        /\ UNCHANGED <<build, isOpen, signals>>

\* get_termios, what it makes of the settings of the port.
KnownOf(settings) ==
    [rate |-> RateOf(settings.rate), line |-> settings.line, flow |-> settings.flow,
     chars |-> [settings.chars EXCEPT !["EVENT"] = pser_inf.chars["EVENT"]],
     timeouts |-> pser_inf.timeouts]

\* The line is given no parity, eight bits and no XON, which pser_inf is not told.
Raw(settings) ==
    [rate |-> settings.rate,
     line |-> [stop_bits |-> settings.line.stop_bits, parity |-> 0, word_length |-> 8],
     flow |-> settings.flow \ {"XON"}, chars |-> settings.chars, timeouts |-> settings.timeouts]

UnixCreate ==
    /\ build = "unix" /\ ~isOpen
    /\ isOpen' = TRUE
    /\ \E took \in Takes : port' = Taken(Raw(port), took)
    /\ ptermios' = Raw(port)
    /\ pser_inf' = [KnownOf(port) EXCEPT !.timeouts.constant = 5]
    /\ UNCHANGED <<build, signals, asked>>

\* SERIAL_SET_BAUD_RATE, SERIAL_SET_LINE_CONTROL, SERIAL_SET_CHARS, SERIAL_SET_HANDFLOW
UnixSet ==
    /\ build = "unix" /\ isOpen
    /\ \/ \E rate \in Rates : set_termios([pser_inf EXCEPT !.rate = rate], "rate", rate)
       \/ \E line \in Lines : set_termios([pser_inf EXCEPT !.line = line], "line", line)
       \/ \E chars \in Characters : set_termios([pser_inf EXCEPT !.chars = chars], "chars", chars)
       \/ \E flow \in Flows : set_termios([pser_inf EXCEPT !.flow = flow], "flow", flow)

\* SERIAL_GET_HANDFLOW reads all settings of the port again, if it can.
UnixGetHandflow ==
    /\ build = "unix" /\ isOpen
    /\ pser_inf' = KnownOf(port)
    /\ ptermios' = port
    /\ UNCHANGED <<build, isOpen, port, signals, asked>>

\* SERIAL_SET_TIMEOUTS is remembered, for reads.
UnixSetTimeouts ==
    /\ build = "unix" /\ isOpen
    /\ \E timeouts \in Timeouts :
           /\ pser_inf' = [pser_inf EXCEPT !.timeouts = timeouts]
           /\ asked' = [asked EXCEPT !["timeouts"] = {timeouts}]
    /\ UNCHANGED <<build, isOpen, port, signals, ptermios>>

\* VTIME and VMIN for a read of one byte.
ReadWait(timeouts) ==
    LET total == timeouts.multiplier + timeouts.constant
        wait == IF total # 0 THEN (total + 99) \div 100
                ELSE IF timeouts.interval # 0 THEN (timeouts.interval + 99) \div 100 ELSE 90
    IN  [read |-> wait % 256, write |-> 0, none |-> IF wait = 0 THEN {"read"} ELSE {}]

\* serial_read gives the port all settings again.
UnixRead ==
    /\ build = "unix" /\ isOpen
    /\ ptermios' = [ptermios EXCEPT !.timeouts = ReadWait(pser_inf.timeouts)]
    /\ \E took \in Takes : port' = Taken(ptermios', took)
    /\ UNCHANGED <<build, isOpen, signals, pser_inf, asked>>

-----------------------------------------------------------------------------
(* OS/2: the DCB *)

Os2Create ==
    /\ build = "os2" /\ ~isOpen
    /\ isOpen' = TRUE
    /\ UNCHANGED <<build, port, signals, pser_inf, ptermios, asked>>

Os2Kept == UNCHANGED <<build, isOpen, signals, ptermios>>

\* ASYNC_SETBAUDRATE is given the lower half of the rate, ASYNC_SETLINECTRL the
\* three bytes as they came.
Os2SetLine ==
    /\ build = "os2" /\ isOpen
    /\ \E took \in Takes :
           \/ \E rate \in Rates :
                  /\ port' = Taken([port EXCEPT !.rate = rate % 65536], took)
                  /\ Note("rate", rate, took)
           \/ \E line \in Lines :
                  /\ port' = Taken([port EXCEPT !.line = line], took)
                  /\ Note("line", line, took)
    /\ UNCHANGED pser_inf /\ Os2Kept

\* Mutant: the DCB is not read before it is written.
DcbWithZeroFlow(chars) ==
    [port EXCEPT !.chars = [chars EXCEPT !["EOF"] = port.chars["EOF"],
                                         !["EVENT"] = port.chars["EVENT"]],
                 !.flow = {}]

\* SERIAL_SET_CHARS: the DCB has no place for two of the six.
DcbWithChars(chars) ==
    [port EXCEPT !.chars = [chars EXCEPT !["EOF"] = port.chars["EOF"],
                                         !["EVENT"] = port.chars["EVENT"]]]

\* SERIAL_SET_TIMEOUTS: hundredths of a second, in 16 bits.  What was set stays
\* where there is to be no waiting.
DcbWaits(old, timeouts) ==
    LET noWrite == timeouts.writeMultiplier = 0 /\ timeouts.writeConstant = 0
        noRead == timeouts.interval = 0 /\ timeouts.multiplier = 0 /\ timeouts.constant = 0
        write == (timeouts.writeMultiplier * 5 + timeouts.writeConstant) \div 10
        read == (IF timeouts.interval # 0 THEN timeouts.interval
                 ELSE timeouts.multiplier * 5 + timeouts.constant) \div 10
    IN  [write |-> IF noWrite THEN old.write ELSE write % 65536,
         read |-> IF noRead THEN old.read ELSE read % 65536,
         none |-> (IF noWrite THEN {"write"} ELSE {}) \cup (IF noRead THEN {"read"} ELSE {})]

\* The DCB is read, changed and written; reading it may fail.
WriteDcb(dcb, group, value) ==
    \/ \E took \in Takes : port' = Taken(dcb, took) /\ Note(group, value, took)
    \/ UNCHANGED port /\ Note(group, value, {})

Os2SetDcb ==
    /\ build = "os2" /\ isOpen
    /\ \/ \E chars \in Characters :
              WriteDcb(DcbWithChars(chars), "chars", chars) /\ UNCHANGED pser_inf
       \/ \E flow \in Flows :
              WriteDcb([port EXCEPT !.flow = flow], "flow", flow) /\ UNCHANGED pser_inf
       \/ \E timeouts \in Timeouts :
              /\ WriteDcb([port EXCEPT !.timeouts = DcbWaits(@, timeouts)], "timeouts", timeouts)
              /\ pser_inf' = [pser_inf EXCEPT !.timeouts = timeouts]
    /\ Os2Kept

-----------------------------------------------------------------------------
(* Both *)

\* SERIAL_SET_DTR and its like, which may fail.  TIOCMSET writes both signals as
\* TIOCMGET gave them, ASYNC_SETMODEMCTRL the one.
SetSignal(signal, on) ==
    /\ isOpen
    /\ \/ /\ signals' = IF on THEN signals \cup {signal} ELSE signals \ {signal}
          /\ asked' = [asked EXCEPT ![signal] = {on}]
       \/ UNCHANGED signals /\ asked' = [asked EXCEPT ![signal] = {}]
    /\ UNCHANGED <<build, isOpen, port, pser_inf, ptermios>>

LineClose ==
    /\ isOpen
    /\ isOpen' = FALSE
    /\ asked' = [g \in Groups \cup Signals |-> {}]
    /\ UNCHANGED <<build, port, signals, pser_inf, ptermios>>

\* Other programs use the port.
UsedElsewhere ==
    /\ ~isOpen
    /\ port' \in Found
    /\ UNCHANGED <<build, isOpen, signals, pser_inf, ptermios, asked>>

LineNext ==
    \/ UnixCreate \/ UnixSet \/ UnixGetHandflow \/ UnixSetTimeouts \/ UnixRead
    \/ Os2Create \/ Os2SetLine \/ Os2SetDcb
    \/ \E signal \in Signals, on \in BOOLEAN : SetSignal(signal, on)
    \/ LineClose \/ UsedElsewhere

LineSpec == LineInit /\ [][LineNext]_lineVars

-----------------------------------------------------------------------------
(* Properties *)

LineTypeOK ==
    /\ build \in {"unix", "os2"} /\ isOpen \in BOOLEAN
    /\ port \in Settings /\ signals \subseteq Signals
    /\ pser_inf \in Remembered /\ ptermios \in Settings
    /\ \A timeouts \in asked["timeouts"] : timeouts \in PortTimeouts

\* Is a setting what the server asked for, as far as the driver can say it?
RateFits(rate, value) == rate = IF build = "unix" THEN Speed(value) ELSE value % 65536
LineFits(line, value) == line = IF build = "unix" THEN LineFlags(value) ELSE value
FlowFits(flow, value) ==
    /\ value \subseteq flow
    /\ "CTS" \in flow => "CTS" \in value
    /\ build = "os2" \/ value \cap {"XON", "XOFF"} = {} => flow \ {"CTS"} \subseteq value
CharsKept == CharNames \ IF build = "unix" THEN {"EVENT"} ELSE {"EOF", "EVENT"}
CharsFit(chars, value) == \A c \in CharsKept : chars[c] = value[c]
WaitsFit(waits, value) == build = "os2" => waits = DcbWaits(waits, value)

\* What the server asked for and the port took stays so until the server asks
\* for something else, whatever it sets, reads or asks in between, although
\* each request writes settings of others too ("some sane information"): in
\* the port and, read back, in what the driver tells the server.
LineAsAsked ==
    /\ \A rate \in asked["rate"] : RateFits(port.rate, rate)
    /\ \A line \in asked["line"] : LineFits(port.line, line)
    /\ \A flow \in asked["flow"] : FlowFits(port.flow, flow)
    /\ \A chars \in asked["chars"] : CharsFit(port.chars, chars)
    /\ \A timeouts \in asked["timeouts"] :
           WaitsFit(port.timeouts, timeouts) /\ pser_inf.timeouts = timeouts
    /\ \A s \in Signals : \A on \in asked[s] : s \in signals <=> on
    /\ build = "unix" =>
           /\ \A rate \in asked["rate"] : pser_inf.rate \in {rate, Speed(rate)}
           /\ \A line \in asked["line"] : LineFlags(pser_inf.line) = LineFlags(line)
           /\ \A chars \in asked["chars"] : pser_inf.chars = chars
=============================================================================
