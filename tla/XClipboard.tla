----------------------------- MODULE XClipboard -----------------------------
(***************************************************************************)
(* The clipboard of the X11 front end, xclip.c.  Local programs offer data *)
(* by owning a selection of the X server, PRIMARY or CLIPBOARD; whoever    *)
(* wants it asks the owner to put it into a property of a window, and gets *)
(* a SelectionNotify when it is there.  xclip.c is on both sides: it owns  *)
(* the selections for the server, and asks their owners for the server.    *)
(*                                                                         *)
(* Everything is asynchronous and nothing is numbered.  One property and   *)
(* two flags stand for all that is on its way: the probe, which finds out  *)
(* whether another rdesktop owns the selections, and the requests for data *)
(* wait for the same notifications, and take each other's.                 *)
(*                                                                         *)
(* An owner is this window ("self"), another rdesktop ("fellow"), a plain  *)
(* program ("app") or nobody.  Text stands for every format but the native *)
(* ones that only another rdesktop has.  The mode is PRIMARYCLIPBOARD.     *)
(***************************************************************************)
EXTENDS Integers, Sequences, FiniteSets

CONSTANTS
    MaxChanges,   \* bounds how often other programs act of themselves
    MaxPending,   \* the server asks while fewer requests and events are on their way
    Pasters       \* local programs that want the data of the server

ASSUME XclipAssumption ==
    /\ MaxChanges \in Nat /\ MaxPending \in Nat
    /\ "self" \notin Pasters

Selections == {"PRIMARY", "CLIPBOARD"}
Others == {"app", "fellow"}
Nobody == "nobody"

VARIABLES
    probing_selections,
    reprobe_selections,
    rdesktop_is_selection_owner,
    rdp_clipboard_request_format,   \* does the server wait for data?
    stamps,            \* the selections whose timestamp is known
    selection_request, \* the one request of which the server was told, if any
    g_waiting_for_INCR,
    g_clip_buflen,     \* is anything in g_clip_buffer?
    owner,             \* of each selection
    asked,             \* what other owners are asked for and have not handled
    xevents,           \* what the X server has for this program
    property,          \* _RDESKTOP_CLIPBOARD_TARGET of the window
    stampProperties,   \* the two properties for timestamps that are there
    sending,           \* does a program send a long text in pieces?
    crossed,           \* did a probe or a long text cross the server's request?
    pasting,           \* the programs that wait for data of the server
    changes            \* how often other programs acted of themselves

probeVars == <<probing_selections, reprobe_selections, rdesktop_is_selection_owner, stamps>>
incrVars == <<g_waiting_for_INCR, g_clip_buflen>>
properties == <<property, stampProperties>>
outside == <<sending, crossed, changes>>
xclipVars == <<probeVars, rdp_clipboard_request_format, selection_request, incrVars, owner,
               asked, xevents, properties, outside, pasting>>

XclipInit ==
    /\ probing_selections = FALSE /\ reprobe_selections = FALSE
    /\ rdesktop_is_selection_owner = FALSE
    /\ rdp_clipboard_request_format = FALSE
    /\ stamps = {} /\ selection_request = <<>>
    /\ g_waiting_for_INCR = FALSE /\ g_clip_buflen = FALSE
    /\ owner \in [Selections -> {"app", "self"}]
    /\ asked = <<>> /\ xevents = <<>>
    /\ property = "none" /\ stampProperties = {}
    /\ sending = FALSE /\ crossed = FALSE /\ pasting = {} /\ changes = 0

-----------------------------------------------------------------------------
(* The X server *)

Notify(selection, target, done) ==
    [type |-> "SelectionNotify", selection |-> selection, target |-> target, done |-> done]
AskedFor(selection, target, who) ==
    [type |-> "SelectionRequest", selection |-> selection, target |-> target, who |-> who]
RootNotify == [type |-> "PropertyNotify", root |-> TRUE]
WindowNotify == [type |-> "PropertyNotify", root |-> FALSE]
Clear == [type |-> "SelectionClear"]

\* XConvertSelection: the owner is asked; without one the X server refuses.
ToEvents(selection, target) ==
    CASE owner[selection] = "self" -> <<AskedFor(selection, target, "self")>>
      [] owner[selection] = Nobody -> <<Notify(selection, target, FALSE)>>
      [] OTHER -> <<>>
ToOthers(selection, target) ==
    IF owner[selection] \in Others
    THEN <<[who |-> owner[selection], selection |-> selection, target |-> target]>>
    ELSE <<>>

\* "before" are the events there are already.
Ask(before, selection, target) ==
    /\ xevents' = before \o ToEvents(selection, target)
    /\ asked' = asked \o ToOthers(selection, target)

\* The window has the event next, if it is of the type.
Event(type) == xevents # <<>> /\ Head(xevents).type = type

-----------------------------------------------------------------------------
(* Asking for the server *)

xclip_clear_target_props == property' = "none" /\ stampProperties' = {}

\* cliprdr_send_data, if the server waits.
helper_cliprdr_send_response == rdp_clipboard_request_format' = FALSE

\* Both selections have owners: which is the newer?  Else the one there is.
AskForTimestamps(before) ==
    /\ stamps' = {}
    /\ xevents' = before \o ToEvents("PRIMARY", "TIMESTAMP") \o ToEvents("CLIPBOARD", "TIMESTAMP")
    /\ asked' = asked \o ToOthers("PRIMARY", "TIMESTAMP") \o ToOthers("CLIPBOARD", "TIMESTAMP")

AskOwner(before) ==
    IF \A selection \in Selections : owner[selection] # Nobody
    THEN AskForTimestamps(before)
    ELSE /\ UNCHANGED stamps
         /\ \E selection \in Selections :
               owner[selection] # Nobody /\ Ask(before, selection, "TARGETS")

\* The body of xclip_probe_selections when no probe runs.
Probe(before) ==
    /\ reprobe_selections' = FALSE
    /\ xclip_clear_target_props
    /\ IF \A selection \in Selections : owner[selection] = "self"
          \/ \A other \in Selections : owner[other] = Nobody
       THEN probing_selections' = FALSE /\ xevents' = before /\ UNCHANGED <<stamps, asked>>
       ELSE probing_selections' = TRUE /\ AskOwner(before)

xclip_probe_selections(before) ==
    /\ UNCHANGED rdesktop_is_selection_owner
    /\ IF probing_selections
       THEN /\ reprobe_selections' = TRUE /\ xevents' = before
            /\ UNCHANGED <<probing_selections, stamps, properties, asked>>
       ELSE Probe(before)

\* The label "fail": a probe ends with the announcement of text, else the
\* server gets an empty answer, if it waits for one.
Fail(before) ==
    /\ xclip_clear_target_props
    /\ xevents' = before
    /\ IF probing_selections
       THEN /\ probing_selections' = FALSE /\ rdesktop_is_selection_owner' = FALSE
            /\ UNCHANGED rdp_clipboard_request_format
       ELSE /\ helper_cliprdr_send_response
            /\ UNCHANGED <<probing_selections, rdesktop_is_selection_owner>>
    /\ UNCHANGED <<reprobe_selections, stamps, asked, incrVars>>

\* A timestamp has come; with both, the newer owner is asked for its targets.
\* (Timestamps are compared, never kept, so either may be the newer.)
TimestampCame(event, before) ==
    IF event.selection \notin stampProperties THEN Fail(before)
    ELSE /\ stamps' = stamps \cup {event.selection}
         /\ stampProperties' = stampProperties \ {event.selection}
         /\ IF stamps' = Selections
            THEN \E newer \in Selections : Ask(before, newer, "TARGETS")
            ELSE xevents' = before /\ UNCHANGED asked
         /\ UNCHANGED <<probing_selections, reprobe_selections, rdesktop_is_selection_owner,
                        property, rdp_clipboard_request_format, incrVars>>

\* The targets have come: a probe goes on if the native formats are among
\* them, a request of the server if there is a text.
TargetsCame(event, before) ==
    LET wish == CASE probing_selections /\ property = "native targets" -> "FORMATS"
                  [] ~probing_selections /\ property \in {"native targets", "text targets"} -> "TEXT"
                  [] OTHER -> "none"
    IN IF wish = "none" THEN Fail(before)
       ELSE /\ Ask(before, event.selection, wish)
            /\ xclip_clear_target_props
            /\ UNCHANGED <<probeVars, rdp_clipboard_request_format, incrVars>>

\* Anything else a probe takes for the formats it asked for, if one program
\* owns both selections; a request takes it for its data.
FormatsCame(before) ==
    IF \E s, t \in Selections : owner[s] # owner[t] THEN Fail(before)
    ELSE /\ probing_selections' = FALSE /\ rdesktop_is_selection_owner' = TRUE
         /\ xclip_clear_target_props /\ xevents' = before
         /\ UNCHANGED <<reprobe_selections, stamps, asked, rdp_clipboard_request_format, incrVars>>

\* xclip_send_data_with_convert sends it or fails; the server is answered.
DataCame(before) ==
    /\ xclip_clear_target_props /\ xevents' = before
    /\ helper_cliprdr_send_response
    /\ UNCHANGED <<probeVars, asked, incrVars>>

\* A long text is announced, in place of whatever was asked for.
IncrCame(before) ==
    /\ g_waiting_for_INCR' = TRUE
    /\ xclip_clear_target_props /\ xevents' = before
    /\ UNCHANGED <<probeVars, asked, rdp_clipboard_request_format, g_clip_buflen>>

xclip_handle_SelectionNotify ==
    LET event == Head(xevents)
        rest == Tail(xevents)
    IN /\ Event("SelectionNotify")
       /\ \/ ~event.done /\ Fail(rest)
          \/ event.done /\ event.target = "TIMESTAMP" /\ TimestampCame(event, rest)
          \/ /\ event.done /\ event.target # "TIMESTAMP"
             /\ \/ /\ probing_selections /\ reprobe_selections
                   /\ Probe(rest)
                   /\ UNCHANGED <<rdesktop_is_selection_owner, rdp_clipboard_request_format, incrVars>>
                \/ /\ ~(probing_selections /\ reprobe_selections)
                   /\ \/ property = "INCR" /\ IncrCame(rest)
                      \/ property # "INCR" /\ event.target = "TARGETS" /\ TargetsCame(event, rest)
                      \/ /\ property # "INCR" /\ event.target # "TARGETS"
                         /\ \/ probing_selections /\ FormatsCame(rest)
                            \/ ~probing_selections /\ DataCame(rest)
       /\ UNCHANGED <<selection_request, owner, outside, pasting>>

\* A request of the server for data.  The server sends the next one when the
\* last was answered.
ui_clip_request_data ==
    /\ ~rdp_clipboard_request_format /\ Len(asked) + Len(xevents) < MaxPending
    /\ rdp_clipboard_request_format' = ~probing_selections
    /\ IF probing_selections
       THEN UNCHANGED <<properties, stamps, asked, xevents>>
       ELSE /\ stampProperties' = {}
            /\ \/ /\ rdesktop_is_selection_owner
                  /\ property' = "format"
                  /\ Ask(xevents, "PRIMARY", "NATIVE")
                  /\ UNCHANGED stamps
               \/ /\ ~rdesktop_is_selection_owner
                  /\ \E s \in Selections : owner[s] # Nobody
                  /\ property' = "none"
                  /\ AskOwner(xevents)
    /\ crossed' = FALSE
    /\ UNCHANGED <<probing_selections, reprobe_selections, rdesktop_is_selection_owner,
                   selection_request, incrVars, owner, sending, changes, pasting>>

\* While a long text comes, every new value of any property is taken for its
\* next piece; none, or an empty one, for its end.
PieceCame ==
    /\ Event("PropertyNotify") /\ g_waiting_for_INCR
    /\ xevents' = Tail(xevents)
    /\ property' = "none"
    /\ IF property \in {"none", "empty"}
       THEN /\ g_waiting_for_INCR' = FALSE /\ g_clip_buflen' = FALSE
            /\ IF g_clip_buflen THEN helper_cliprdr_send_response
               ELSE UNCHANGED rdp_clipboard_request_format
       ELSE g_clip_buflen' = TRUE /\ UNCHANGED <<g_waiting_for_INCR, rdp_clipboard_request_format>>
    /\ UNCHANGED <<probeVars, selection_request, owner, asked, stampProperties, outside, pasting>>

\* Another rdesktop says that the selections changed.
RootChanged ==
    /\ Event("PropertyNotify") /\ ~g_waiting_for_INCR
    /\ IF Head(xevents).root
       THEN xclip_probe_selections(Tail(xevents)) /\ crossed' = TRUE
       ELSE xevents' = Tail(xevents) /\ UNCHANGED <<probeVars, properties, asked, crossed>>
    /\ UNCHANGED <<rdp_clipboard_request_format, selection_request, incrVars, owner, sending,
                   changes, pasting>>

\* A selection was lost to another program.  The others are told, and so is
\* this one.
xclip_handle_SelectionClear ==
    /\ Event("SelectionClear")
    /\ xclip_probe_selections(Append(Tail(xevents), RootNotify))
    /\ crossed' = TRUE
    /\ UNCHANGED <<rdp_clipboard_request_format, selection_request, incrVars, owner, sending,
                   changes, pasting>>

-----------------------------------------------------------------------------
(* Asking the server *)

\* xclip_provide_selection and xclip_refuse_selection: the requestor may be this
\* program itself, or a program that pastes.
Reply(request, before, content) ==
    IF request.who = "self"
    THEN /\ xevents' = Append(before, Notify(request.selection, request.target, content # "none"))
         /\ IF content = "TIMESTAMP"
            THEN stampProperties' = stampProperties \cup {request.selection} /\ UNCHANGED property
            ELSE property' = (IF content = "none" THEN property ELSE content)
                 /\ UNCHANGED stampProperties
         /\ UNCHANGED pasting
    ELSE xevents' = before /\ pasting' = pasting \ {request.who} /\ UNCHANGED properties

AtHand(target) == CASE target = "TIMESTAMP" -> "TIMESTAMP"
                   [] target = "TARGETS" -> "native targets"
                   [] target = "FORMATS" -> "data"

\* What the server can be asked for: text, and a native format that the property
\* names.
Named(request) == request.target = "NATIVE" /\ request.who = "self" /\ property = "format"
Understood(request) == request.target = "TEXT" \/ Named(request)

\* Mutant: a second request takes the place of the first.
TakeAny(request) == Understood(request)

\* Only one request is at the server at a time; another one is refused.
MayTake(request) == Understood(request) /\ selection_request = <<>>

\* What the server need not be asked for is answered at once.
xclip_handle_SelectionRequest ==
    LET request == Head(xevents)
        rest == Tail(xevents)
    IN /\ Event("SelectionRequest")
       /\ \/ /\ request.target \in {"TIMESTAMP", "TARGETS", "FORMATS"}
             /\ Reply(request, rest, AtHand(request.target))
             /\ UNCHANGED selection_request
          \/ /\ request.target \in {"TEXT", "NATIVE"}
             /\ IF MayTake(request)
                THEN /\ selection_request' = <<request>> /\ xevents' = rest
                     /\ property' = (IF Named(request) THEN "none" ELSE property)
                     /\ UNCHANGED <<stampProperties, pasting>>
                ELSE Reply(request, rest, "none") /\ UNCHANGED selection_request
       /\ UNCHANGED <<probeVars, rdp_clipboard_request_format, incrVars, owner, asked, outside>>

\* ui_clip_handle_data, or with no data ui_clip_request_failed.
ui_clip_handle_data ==
    /\ selection_request # <<>>
    /\ selection_request' = <<>>
    /\ LET request == Head(selection_request)
       IN \E content \in {"none", "data"} : Reply(request, xevents, content)
    /\ UNCHANGED <<probeVars, rdp_clipboard_request_format, incrVars, owner, asked, outside>>

\* The server has something new.  A selection is not taken when its owner is
\* younger than the user's last gesture here, as PRIMARY often is.
ui_clip_format_announce ==
    /\ changes < MaxChanges /\ changes' = changes + 1
    /\ \E taken \in {Selections, {"CLIPBOARD"}} :
          owner' = [selection \in Selections |-> IF selection \in taken THEN "self" ELSE owner[selection]]
    /\ xevents' = Append(xevents, RootNotify)
    /\ UNCHANGED <<probeVars, rdp_clipboard_request_format, selection_request, incrVars, asked,
                   properties, sending, crossed, pasting>>

\* ui_clip_sync, at the start of a session.
ui_clip_sync ==
    /\ xclip_probe_selections(xevents) /\ crossed' = TRUE
    /\ changes < MaxChanges /\ changes' = changes + 1
    /\ UNCHANGED <<rdp_clipboard_request_format, selection_request, incrVars, owner, sending,
                   pasting>>

-----------------------------------------------------------------------------
(* Other programs of the X server *)

\* A program takes or gives up selections; another rdesktop takes both, and
\* says so.  Who loses one is told.
TakeOver(who, taken) ==
    /\ changes < MaxChanges /\ changes' = changes + 1
    /\ owner' = [selection \in Selections |-> IF selection \in taken THEN who ELSE owner[selection]]
    /\ LET lost == {selection \in taken : owner[selection] = "self"}
       IN xevents' = xevents \o [k \in 1..Cardinality(lost) |-> Clear]
                             \o (IF who = "fellow" THEN <<RootNotify>> ELSE <<>>)
    /\ UNCHANGED <<probeVars, rdp_clipboard_request_format, selection_request, incrVars, asked,
                   properties, sending, crossed, pasting>>

\* What the owner may put into the property, "none" if it refuses.
Contents(request) ==
    CASE request.target = "TIMESTAMP" -> {"TIMESTAMP"}
      [] request.target = "TARGETS" -> {IF request.who = "fellow" THEN "native targets" ELSE "text targets"}
      [] request.target = "FORMATS" /\ request.who = "fellow" -> {"data"}
      [] request.target = "NATIVE" /\ request.who = "fellow" /\ property = "format" -> {"data"}
      [] request.target = "TEXT" -> {"data", "INCR"}
      [] OTHER -> {}

\* An owner handles the oldest request it has.
Provide(who) ==
    \E i \in DOMAIN asked : \E content \in Contents(asked[i]) \cup {"none"} :
        /\ asked[i].who = who /\ \A j \in 1..(i - 1) : asked[j].who # who
        /\ asked' = SubSeq(asked, 1, i - 1) \o SubSeq(asked, i + 1, Len(asked))
        /\ Reply(AskedFor(asked[i].selection, asked[i].target, "self"), xevents, content)
        /\ sending' = (sending \/ content = "INCR")
        /\ crossed' = (crossed \/ content = "INCR")
        /\ UNCHANGED <<probeVars, rdp_clipboard_request_format, selection_request, incrVars, owner,
                       changes>>

\* A piece of a long text, or its end, when the last one was taken.  Nobody may
\* be told, because the window does not watch its properties yet.
SendPiece ==
    /\ sending /\ property = "none"
    /\ \E piece \in {"data", "empty"} : property' = piece /\ sending' = (piece = "data")
    /\ \/ g_waiting_for_INCR /\ xevents' = Append(xevents, WindowNotify)
       \/ ~g_clip_buflen /\ UNCHANGED xevents
    /\ UNCHANGED <<probeVars, rdp_clipboard_request_format, selection_request, incrVars, owner,
                   asked, stampProperties, crossed, pasting, changes>>

Paste(p) ==
    /\ p \notin pasting /\ pasting' = pasting \cup {p}
    /\ owner["CLIPBOARD"] = "self"
    /\ xevents' = Append(xevents, AskedFor("CLIPBOARD", "TEXT", p))
    /\ UNCHANGED <<probeVars, rdp_clipboard_request_format, selection_request, incrVars, owner,
                   asked, properties, outside>>

ThisProgram == \/ xclip_handle_SelectionNotify \/ xclip_handle_SelectionRequest
               \/ xclip_handle_SelectionClear \/ PieceCame \/ RootChanged

XclipNext ==
    \/ ThisProgram \/ ui_clip_request_data \/ ui_clip_handle_data
    \/ ui_clip_format_announce \/ ui_clip_sync \/ SendPiece
    \/ \E selection \in Selections : TakeOver("app", {selection})
    \/ TakeOver("fellow", Selections)
    \/ \E who \in Others : TakeOver(Nobody, {selection \in Selections : owner[selection] = who})
    \/ \E who \in Others : Provide(who)
    \/ \E p \in Pasters : Paste(p)

XclipSpec == XclipInit /\ [][XclipNext]_xclipVars

-----------------------------------------------------------------------------
(* Properties *)

XclipTypeOK ==
    /\ {probing_selections, reprobe_selections, rdesktop_is_selection_owner} \subseteq BOOLEAN
    /\ rdp_clipboard_request_format \in BOOLEAN
    /\ owner \in [Selections -> Others \cup {"self", Nobody}]
    /\ stamps \subseteq Selections /\ stampProperties \subseteq Selections
    /\ pasting \subseteq Pasters

\* Is somebody bound to answer the server?
OnItsWay ==
    \/ asked # <<>>
    \/ \E i \in DOMAIN xevents : xevents[i].type = "SelectionNotify"
    \/ \E i \in DOMAIN xevents : xevents[i].type = "SelectionRequest" /\ xevents[i].who = "self"
    \/ selection_request # <<>> /\ selection_request[1].who = "self"

\* The places where a program that pastes is still known.
Places(p) ==
    {i \in DOMAIN xevents : xevents[i].type = "SelectionRequest" /\ xevents[i].who = p}
    \cup {0 : i \in {j \in DOMAIN selection_request : selection_request[j].who = p}}

\* Nobody who asks is forgotten.  A program that pastes the server's data is
\* known in one place until it gets an answer, however many paste and whoever
\* takes the selections meanwhile.  While the server waits for local data a
\* notification is to come, unless a probe started meanwhile (it forgets a
\* timestamp that has come), or the text comes in pieces (any property can
\* feign their end).
NobodyForgotten ==
    /\ \A p \in Pasters : Cardinality(Places(p)) = IF p \in pasting THEN 1 ELSE 0
    /\ rdp_clipboard_request_format => crossed \/ OnItsWay
=============================================================================
