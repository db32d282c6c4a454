----------------------------- MODULE Clipboard -----------------------------
(***************************************************************************)
(* The clipboard of the OS/2 front end: cliprdr.c, which speaks with the   *)
(* server, and os2/xclip.c, which speaks with the system.  Two threads     *)
(* share the globals of xclip.c without a lock: the main thread, which     *)
(* handles messages of the server and calls xclipProcess between them, and *)
(* the thread of the clipboard window, which the system calls when a local *)
(* program wants data (WM_RENDERFMT) or changed the clipboard              *)
(* (WM_DRAWCLIPBOARD).  A step is what a thread does between two accesses  *)
(* to shared state whose order matters.                                    *)
(*                                                                         *)
(* The system lets one thread at a time open the clipboard; who wants to   *)
(* open it waits, and goes on receiving messages meanwhile.  Data is told  *)
(* apart by the format the server sent it in.  Only the mode with a        *)
(* clipboard viewer is modelled, the default, and no other program becomes *)
(* a viewer.                                                               *)
(***************************************************************************)
EXTENDS Integers, FiniteSets, Sequences

CONSTANTS
    Announcements,   \* the lists of formats the server may announce
    Copies,          \* the lists of formats a local program may copy
    MaxOutstanding   \* bounds the data requests the server has not answered

Remote == {"RDP_CF_TEXT", "RDP_CF_UNICODETEXT", "RDP_CF_DIB", "RDP_CF_DIBV5"}
Local == {"CF_TEXT", "text/unicode", "CF_BITMAP"}
NoFormat == "0"

ASSUME FormatAssumption == Announcements \subseteq SUBSET Remote /\ Copies \subseteq SUBSET Local
ASSUME BoundAssumption == MaxOutstanding \in Nat \ {0}

VARIABLES
    hevRequest,               \* is the semaphore posted?
    ulRequestedRDFmt,
    fRequestedRDFmtChanged,
    aulRDCbFormats,           \* a set
    aHaveFmt,                 \* a set
    cHaveFmt,                 \* is it not 0?
    fMainThreadClipboardOpen,
    clip,                     \* where the thread of the window is
    main,                     \* where the main thread is, and what it handles
    last_formats,
    fFirstTime,               \* of ui_clip_sync
    holder,                   \* who has the clipboard open
    contents,                 \* of each local format: "none", "local", "delayed", or a remote format
    viewer,
    wanted,                   \* the local format a program waits for
    draw,                     \* WM_DRAWCLIPBOARD waits to be handled
    outstanding,              \* data requests the server has not answered
    asks,                     \* the format the server wants, if it waits for data
    known,                    \* the formats the server thinks it can have
    refused,                  \* a FORMAT_ACK with an error is on its way
    crossed                   \* did an announcement cross a request?

shared == <<hevRequest, ulRequestedRDFmt, fRequestedRDFmtChanged, aulRDCbFormats>>
have == <<aHaveFmt, cHaveFmt>>
system == <<holder, contents, viewer, wanted, draw>>
server == <<outstanding, asks, known, refused, crossed>>
vars == <<shared, have, fMainThreadClipboardOpen, clip, main, last_formats, fFirstTime,
          system, server>>

Idle == [at |-> "idle", format |-> NoFormat]

Init ==
    /\ hevRequest = TRUE /\ ulRequestedRDFmt = NoFormat /\ fRequestedRDFmtChanged = FALSE
    /\ aulRDCbFormats = {} /\ aHaveFmt = {} /\ cHaveFmt = FALSE
    /\ fMainThreadClipboardOpen = FALSE
    /\ clip = "idle" /\ main = Idle
    /\ last_formats = {} /\ fFirstTime = TRUE
    /\ holder = "nobody" /\ contents = [l \in Local |-> "none"]
    /\ viewer = "nobody" /\ wanted = NoFormat /\ draw = FALSE
    /\ outstanding = <<>> /\ asks = NoFormat /\ known = {}
    /\ refused = FALSE /\ crossed = FALSE

\* The local format for a remote one, and the remote ones a local one is
\* announced as and may be asked for as, the best first.
LocalOf(r) == CASE r = "RDP_CF_TEXT" -> "CF_TEXT"
                [] r = "RDP_CF_UNICODETEXT" -> "text/unicode"
                [] OTHER -> "CF_BITMAP"
RemoteOf(l) == IF l = "CF_BITMAP" THEN "RDP_CF_DIBV5" ELSE "RDP_CF_UNICODETEXT"
Choices(l) == IF l = "CF_BITMAP" THEN <<"RDP_CF_DIBV5", "RDP_CF_DIB">>
              ELSE <<"RDP_CF_UNICODETEXT", "RDP_CF_TEXT">>

\* Where data that came in remote format r is put, taken for format "as".
Targets(as) == IF as = "RDP_CF_UNICODETEXT" THEN {"text/unicode", "CF_TEXT"} ELSE {LocalOf(as)}

-----------------------------------------------------------------------------
(* The thread of the clipboard window *)

\* _wmRenderFmt: the flag and the semaphore are looked at.
Refuse == wanted' = NoFormat /\ clip' = "idle"

RenderTest ==
    /\ clip = "idle" /\ wanted # NoFormat
    /\ IF fMainThreadClipboardOpen \/ ~hevRequest
       THEN Refuse
       ELSE clip' = "tested" /\ UNCHANGED wanted
    /\ UNCHANGED <<shared, have, fMainThreadClipboardOpen, main, last_formats, fFirstTime,
                   holder, contents, viewer, draw, server>>

\* The best of the announced formats.  With none, what an earlier request left
\* in ulRequestedRDFmt is asked for.
Best(l, default) ==
    LET fit == {i \in DOMAIN Choices(l) : Choices(l)[i] \in aulRDCbFormats}
    IN  IF fit = {} THEN default ELSE Choices(l)[CHOOSE i \in fit : \A j \in fit : i <= j]

RenderChoose ==
    /\ clip = "tested"
    /\ ulRequestedRDFmt' = Best(wanted, ulRequestedRDFmt)
    /\ IF ulRequestedRDFmt' = NoFormat THEN Refuse ELSE clip' = "chosen" /\ UNCHANGED wanted
    /\ UNCHANGED <<hevRequest, fRequestedRDFmtChanged, aulRDCbFormats, have, main, last_formats,
                   fMainThreadClipboardOpen, fFirstTime, holder, contents, viewer, draw, server>>

RenderReset ==
    /\ clip = "chosen"
    /\ hevRequest' = FALSE /\ clip' = "reset"
    /\ UNCHANGED <<ulRequestedRDFmt, fRequestedRDFmtChanged, aulRDCbFormats, have, main,
                   last_formats, fMainThreadClipboardOpen, fFirstTime, system, server>>

RenderAsk ==
    /\ clip = "reset"
    /\ fRequestedRDFmtChanged' = TRUE /\ clip' = "waiting"
    /\ UNCHANGED <<hevRequest, ulRequestedRDFmt, aulRDCbFormats, have, main, last_formats,
                   fMainThreadClipboardOpen, fFirstTime, system, server>>

\* The semaphore is posted, or 60 seconds are over.
RenderEnds ==
    /\ clip = "waiting"
    /\ aulRDCbFormats' = {}
    /\ Refuse
    /\ UNCHANGED <<hevRequest, ulRequestedRDFmt, fRequestedRDFmtChanged, have, main, last_formats,
                   fMainThreadClipboardOpen, fFirstTime, holder, contents, viewer, draw, server>>

\* _wmDrawClipboard opens the clipboard, clears the list and fills it.
DrawStart ==
    /\ clip = "idle" /\ draw /\ holder = "nobody"
    /\ clip' = "drawing" /\ holder' = "window" /\ draw' = FALSE
    /\ aHaveFmt' = {}
    /\ UNCHANGED <<shared, cHaveFmt, fMainThreadClipboardOpen, main, last_formats, fFirstTime,
                   contents, viewer, wanted, server>>

Present == {l \in Local : contents[l] # "none"}

DrawEnd ==
    /\ clip = "drawing"
    /\ aHaveFmt' = {RemoteOf(l) : l \in Present}
    /\ cHaveFmt' = (Present # {})
    /\ clip' = "idle" /\ holder' = "nobody"
    /\ UNCHANGED <<shared, fMainThreadClipboardOpen, main, last_formats, fFirstTime,
                   contents, viewer, wanted, draw, server>>

Window == RenderTest \/ RenderChoose \/ RenderReset \/ RenderAsk \/ RenderEnds
          \/ DrawStart \/ DrawEnd

-----------------------------------------------------------------------------
(* The main thread between messages: xclipProcess *)

\* cliprdr_send_native_format_announce: the server takes the list, or answers
\* with an error, "while the server is still processing a paste".
Announce(formats) ==
    /\ last_formats' = formats
    /\ \/ known' = formats /\ UNCHANGED refused
       \/ refused' = TRUE /\ UNCHANGED known

\* Mutant: without the "WTF" branch.
OnlyAsk ==
    IF ulRequestedRDFmt = NoFormat THEN UNCHANGED <<hevRequest, outstanding>>
    ELSE outstanding' = Append(outstanding, ulRequestedRDFmt) /\ UNCHANGED hevRequest

\* The format may have been taken away since the window thread chose it; then
\* nobody would ever wake that thread.
AskOrWake ==
    IF ulRequestedRDFmt = NoFormat
    THEN hevRequest' = TRUE /\ UNCHANGED outstanding
    ELSE outstanding' = Append(outstanding, ulRequestedRDFmt) /\ UNCHANGED hevRequest

SendRequest ==
    /\ main = Idle /\ fRequestedRDFmtChanged
    /\ Len(outstanding) < MaxOutstanding
    /\ AskOrWake
    /\ fRequestedRDFmtChanged' = FALSE
    /\ UNCHANGED <<ulRequestedRDFmt, aulRDCbFormats, have, fMainThreadClipboardOpen, clip, main,
                   last_formats, fFirstTime, system, asks, known, refused, crossed>>

SendFormats ==
    /\ main = Idle /\ cHaveFmt
    /\ Announce(aHaveFmt)
    /\ main' = [at |-> "sent", format |-> NoFormat]
    /\ UNCHANGED <<shared, have, fMainThreadClipboardOpen, clip, fFirstTime, system,
                   outstanding, asks, crossed>>

ForgetFormats ==
    /\ main.at = "sent"
    /\ cHaveFmt' = FALSE
    /\ main' = Idle
    /\ UNCHANGED <<shared, aHaveFmt, fMainThreadClipboardOpen, clip, last_formats, fFirstTime,
                   system, server>>

-----------------------------------------------------------------------------
(* The main thread: messages of the server, cliprdr_process *)

\* ui_clip_sync becomes the viewer if there is none, which sends the window
\* WM_DRAWCLIPBOARD, and at the first time, with nothing in the clipboard,
\* announces a text.  (A thread that has the clipboard open closes it soon.)
ui_clip_sync ==
    IF viewer # "nobody"
    THEN UNCHANGED <<viewer, draw, fFirstTime, last_formats, known, refused>>
    ELSE /\ viewer' = "window" /\ draw' = TRUE /\ fFirstTime' = FALSE
         /\ IF fFirstTime /\ Present = {}
            THEN Announce({"RDP_CF_UNICODETEXT"})
            ELSE UNCHANGED <<last_formats, known, refused>>

Connect ==
    /\ main = Idle
    /\ ui_clip_sync
    /\ UNCHANGED <<shared, have, fMainThreadClipboardOpen, clip, main, holder, contents, wanted,
                   outstanding, asks, crossed>>

\* FORMAT_ACK with an error
Refused ==
    /\ main = Idle /\ refused
    /\ \/ known' = last_formats /\ refused' = FALSE
       \/ UNCHANGED <<known, refused>>
    /\ UNCHANGED <<shared, have, fMainThreadClipboardOpen, clip, main, last_formats, fFirstTime,
                   system, outstanding, asks, crossed>>

\* The server owes an answer, or is about to.
Owed == outstanding # <<>> \/ fRequestedRDFmtChanged \/ clip \in {"chosen", "reset"}

\* ui_clip_format_announce posts the semaphore and waits for the clipboard.
FormatAnnounce ==
    /\ main = Idle
    /\ \E formats \in Announcements : main' = [at |-> "announced", format |-> formats]
    /\ fMainThreadClipboardOpen' = TRUE
    /\ hevRequest' = TRUE
    /\ known' = {}
    /\ crossed' = (crossed \/ Owed)
    /\ UNCHANGED <<ulRequestedRDFmt, fRequestedRDFmtChanged, aulRDCbFormats, have, clip,
                   last_formats, fFirstTime, system, outstanding, asks, refused>>

\* fSkipWMDrawClipboard: the message that closing the clipboard sends to the
\* window is not handled.
OpenAnnounced ==
    /\ main.at = "announced" /\ holder = "nobody"
    /\ main' = Idle /\ fMainThreadClipboardOpen' = FALSE
    /\ aulRDCbFormats' = main.format
    /\ crossed' = (crossed /\ Owed)
    /\ contents' = [l \in Local |->
            IF \E r \in main.format : LocalOf(r) = l THEN "delayed" ELSE "none"]
    /\ UNCHANGED <<hevRequest, ulRequestedRDFmt, fRequestedRDFmtChanged, have, clip, last_formats,
                   fFirstTime, holder, viewer, wanted, draw, outstanding, asks, known,
                   refused>>

\* WinOpenClipbrd fails: the formats are not taken over.
OpenFails ==
    /\ main.at = "announced"
    /\ main' = Idle /\ fMainThreadClipboardOpen' = FALSE
    /\ UNCHANGED <<shared, have, clip, last_formats, fFirstTime, system, server>>

\* ui_clip_request_data waits for the clipboard, answers, and calls
\* ui_clip_sync.  Data still to be had from the server counts as none,
\* because fMainThreadClipboardOpen makes _wmRenderFmt return.
DataRequest ==
    /\ main = Idle /\ asks = NoFormat
    /\ \E r \in known : asks' = r /\ main' = [at |-> "asked", format |-> r]
    /\ fMainThreadClipboardOpen' = TRUE
    /\ UNCHANGED <<shared, have, clip, last_formats, fFirstTime, system,
                   outstanding, known, refused, crossed>>

OpenAsked ==
    /\ main.at = "asked" /\ holder = "nobody"
    /\ main' = Idle /\ fMainThreadClipboardOpen' = FALSE
    /\ asks' = NoFormat
    /\ ui_clip_sync
    /\ UNCHANGED <<shared, have, clip, holder, contents, wanted, outstanding, crossed>>

\* Mutant: no answer, if the clipboard cannot be opened.
NoAnswer == UNCHANGED asks

EmptyAnswer == asks' = NoFormat

AskFails ==
    /\ main.at = "asked"
    /\ main' = Idle /\ fMainThreadClipboardOpen' = FALSE
    /\ EmptyAnswer
    /\ UNCHANGED <<shared, have, clip, last_formats, fFirstTime, system,
                   outstanding, known, refused, crossed>>

\* ui_clip_handle_data takes the format that was asked for, unless there is
\* none, or one that has not been sent yet.
HandleData ==
    /\ main = Idle /\ outstanding # <<>>
    /\ outstanding' = Tail(outstanding)
    /\ IF ulRequestedRDFmt = NoFormat \/ fRequestedRDFmtChanged
       THEN UNCHANGED <<main, ulRequestedRDFmt>>
       ELSE /\ main' = [at |-> "data", format |-> <<Head(outstanding), ulRequestedRDFmt>>]
            /\ ulRequestedRDFmt' = NoFormat
    /\ UNCHANGED <<hevRequest, fRequestedRDFmtChanged, aulRDCbFormats, have, clip, last_formats,
                   fMainThreadClipboardOpen, fFirstTime, system, asks, known, refused,
                   crossed>>

\* Mutant: text is put under every format.
PutEverywhere(data, as) == [l \in Local |-> IF contents[l] = "delayed" THEN data ELSE contents[l]]

\* WinSetClipbrdData, which only helps while some program has the clipboard
\* open and waits.  The data may also be empty or not convertible.
Put(data, as) ==
    [l \in Local |-> IF l \in Targets(as) THEN data ELSE contents[l]]

SetData ==
    /\ main.at = "data"
    /\ main' = Idle
    /\ hevRequest' = TRUE
    /\ \/ holder = "program" /\ contents' = Put(main.format[1], main.format[2])
       \/ UNCHANGED contents
    /\ UNCHANGED <<ulRequestedRDFmt, fRequestedRDFmtChanged, aulRDCbFormats, have, clip,
                   fMainThreadClipboardOpen, last_formats, fFirstTime, holder, viewer, wanted,
                   draw, server>>

\* ui_clip_request_failed: ulRequestedRDFmt stays.
RequestFailed ==
    /\ main = Idle /\ outstanding # <<>>
    /\ outstanding' = Tail(outstanding)
    /\ hevRequest' = TRUE
    /\ UNCHANGED <<ulRequestedRDFmt, fRequestedRDFmtChanged, aulRDCbFormats, have, clip, main,
                   last_formats, fMainThreadClipboardOpen, fFirstTime, system,
                   asks, known, refused, crossed>>

Open == OpenAnnounced \/ OpenAsked
Main == SendRequest \/ SendFormats \/ ForgetFormats \/ SetData \/ Refused
Messages == Connect \/ FormatAnnounce \/ OpenFails \/ DataRequest \/ AskFails
            \/ HandleData \/ RequestFailed

-----------------------------------------------------------------------------
(* Local programs *)

Copy(formats) ==
    /\ holder = "nobody"
    /\ contents' = [l \in Local |-> IF l \in formats THEN "local" ELSE "none"]
    /\ draw' = (viewer = "window")
    /\ UNCHANGED <<shared, have, fMainThreadClipboardOpen, clip, main, last_formats, fFirstTime,
                   holder, viewer, wanted, server>>

\* A program opens the clipboard and asks for data that is still to be had.
Paste(l) ==
    /\ holder = "nobody" /\ contents[l] = "delayed"
    /\ holder' = "program" /\ wanted' = l
    /\ UNCHANGED <<shared, have, fMainThreadClipboardOpen, clip, main, last_formats, fFirstTime,
                   contents, viewer, draw, server>>

\* It closes the clipboard, after which the viewer may be told of the change.
Close ==
    /\ holder = "program" /\ wanted = NoFormat
    /\ holder' = "nobody"
    /\ draw' \in {draw} \cup {viewer = "window" /\ Present \cap {l \in Local : contents[l] \in Remote} # {}}
    /\ UNCHANGED <<shared, have, fMainThreadClipboardOpen, clip, main, last_formats, fFirstTime,
                   contents, viewer, wanted, server>>

Programs == \/ \E formats \in Copies : Copy(formats)
            \/ \E l \in Local : Paste(l)
            \/ Close

Next == Window \/ Main \/ Messages \/ Open \/ Programs

Spec == Init /\ [][Next]_vars

\* Both threads run, programs close the clipboard, the server answers requests,
\* and who waits for the clipboard gets it in the end.
FairSpec == Spec /\ WF_vars(Window) /\ WF_vars(Main) /\ WF_vars(HandleData)
            /\ WF_vars(Close) /\ SF_vars(Open)

-----------------------------------------------------------------------------
(* Properties *)
TypeOK ==
    /\ ulRequestedRDFmt \in Remote \cup {NoFormat}
    /\ aulRDCbFormats \subseteq Remote /\ aHaveFmt \subseteq Remote
    /\ last_formats \subseteq Remote /\ known \subseteq Remote
    /\ clip \in {"idle", "tested", "chosen", "reset", "waiting", "drawing"}
    /\ holder \in {"nobody", "window", "program"}
    /\ contents \in [Local -> {"none", "local", "delayed"} \cup Remote]
    /\ viewer \in {"nobody", "window"}
    /\ wanted \in Local \cup {NoFormat} /\ asks \in Remote \cup {NoFormat}
    /\ Len(outstanding) <= MaxOutstanding

\* While _wmRenderFmt waits, somebody is bound to post the semaphore: a request
\* is still to be sent, or the server still to answer one.  Only a server
\* that answers nothing makes a local program wait for the 60 seconds.
WaitsForSomebody ==
    (clip = "waiting" /\ ~hevRequest) =>
        fRequestedRDFmtChanged \/ outstanding # <<>> \/ main.at = "data"

\* Data comes under the local format it was sent for, unless the server
\* announced new formats while it owed an answer.
DataUnderItsFormat ==
    ~crossed => \A l \in Local : contents[l] \in Remote => l \in Targets(contents[l])

\* The server gets an answer to every request for data.
ServerAnswered == (asks # NoFormat) ~> (asks = NoFormat)
=============================================================================
