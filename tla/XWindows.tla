------------------------------ MODULE XWindows ------------------------------
(***************************************************************************)
(* Seamless windows of the X11 front end, xwin.c and seamless.c: each      *)
(* window of the server is one of X, and both sides may move it.  What     *)
(* happens locally comes as ConfigureNotify; a short time after the last   *)
(* one the position is sent, and until the server has acknowledged just    *)
(* that one its own positions are ignored.                                 *)
(*                                                                         *)
(* The server is external, known from the lines it sends and takes: it     *)
(* puts a window where POSITION says, acknowledges, and answers SYNC with  *)
(* SYNCBEGIN and all its windows.  XPlaces stand for position and size;     *)
(* the stacking order, the focus, titles and hints are left out.           *)
(***************************************************************************)
EXTENDS Integers, Sequences, FiniteSets, Functions, FiniteSetsExt

CONSTANTS
    XWins,          \* by their identifiers
    XPlaces,
    MaxSteps        \* bound: things the user and the programs of the server do

ASSUME StepsAssumption == MaxSteps \in Nat

VARIABLES
    g_seamless_windows,     \* identifier |-> seamless_window, see NewWindow
    xplace,                 \* identifier |-> where X has the window
    configured,             \* windows with a ConfigureNotify that waits
    g_seamless_active, g_seamless_started, g_seamless_hidden,
    seamless_serial,
    up, down,               \* lines on their way to the server and to the program
    remote,                 \* identifier |-> where the server has the window
    usersPlace,             \* identifier |-> where the user put it last, unless the server moved it since
    remoteHidden,           \* does the server hide the desktop (a locked screen)?
    icons,                  \* identifier |-> icon the server is sending: [version, chunk]
    steps

modesOfX == <<g_seamless_active, g_seamless_started, g_seamless_hidden>>
xwindowVars == <<g_seamless_windows, xplace, configured, modesOfX, seamless_serial, up, down, remote,
                 usersPlace, remoteHidden, icons, steps>>

Nowhere == "nowhere"
Unopened == -1
Chunks == 2
NewWindow == [place |-> Nowhere, state |-> "not yet mapped", outstanding |-> FALSE, serial |-> 0,
              outpos |-> Nowhere, timer |-> FALSE, byUser |-> FALSE, icon |-> <<>>, receiving |-> FALSE, shown |-> <<>>]

Verb(verb) == [verb |-> verb]
About(verb, w) == [verb |-> verb, id |-> w]
Position(w, place) == [verb |-> "POSITION", id |-> w, place |-> place]
State(w, state) == [verb |-> "STATE", id |-> w, state |-> state]

\* SYNCBEGIN, and every window with its place and state
Everything(windows) ==
    LET Tell(lines, w) == lines \o <<About("CREATE", w), Position(w, remote[w]), State(w, "normal")>>
    IN  <<Verb("SYNCBEGIN")>> \o FoldSet(LAMBDA w, lines : Tell(lines, w), <<>>, windows)

XWindowsInit ==
    /\ g_seamless_windows = [w \in {} |-> NewWindow] /\ xplace = [w \in {} |-> Nowhere]
    /\ configured = {} /\ seamless_serial = 0 /\ up = <<>> /\ steps = 0
    /\ g_seamless_active = FALSE /\ g_seamless_started = FALSE /\ g_seamless_hidden = FALSE
    /\ remote = [w \in {} |-> Nowhere] /\ usersPlace = [w \in {} |-> Nowhere] /\ remoteHidden \in BOOLEAN
    /\ icons = [w \in XWins |-> [version |-> Unopened, chunk |-> 0]]
    /\ down = <<Verb(IF remoteHidden THEN "HELLO hidden" ELSE "HELLO")>>

WindowKnown(w) == w \in DOMAIN g_seamless_windows
Set(w, window) == g_seamless_windows' = [g_seamless_windows EXCEPT ![w] = window]
Drop(function, gone) == Restrict(function, DOMAIN function \ gone)

-----------------------------------------------------------------------------
(* Positions *)

\* seamless_send returns the number of the line it sent.
seamless_send(line) == up' = up \o <<line>> /\ seamless_serial' = seamless_serial + 1

\* sw_update_position.  byUser is no part of the line: is it of the user's own
\* making, or the echo of a place the server chose?
sw_update_position(w, byUser, timer) ==
    /\ seamless_send([verb |-> "POSITION", id |-> w, place |-> xplace[w], serial |-> seamless_serial,
                      byUser |-> byUser])
    /\ Set(w, [g_seamless_windows[w] EXCEPT !.outstanding = TRUE, !.serial = seamless_serial,
                                            !.outpos = xplace[w], !.timer = timer, !.byUser = FALSE])

\* Mutant: positions of the server are taken at any time.
MoveAnyway(w, place) ==
    /\ Set(w, [g_seamless_windows[w] EXCEPT !.place = place, !.byUser = FALSE])
    /\ xplace' = [xplace EXCEPT ![w] = place] /\ configured' = configured \cup {w}
    /\ UNCHANGED <<up, seamless_serial>>

\* ui_seamless_move_window, for a window that is known.  A window that is not
\* in its normal state stays where it is, and the server is told.
ui_seamless_move_window(w, place) ==
    IF g_seamless_windows[w].outstanding
    THEN UNCHANGED <<g_seamless_windows, xplace, configured, up, seamless_serial>>
    ELSE IF g_seamless_windows[w].state \in {"minimized", "maximized"}
    THEN sw_update_position(w, TRUE, g_seamless_windows[w].timer) /\ UNCHANGED <<xplace, configured>>
    ELSE /\ Set(w, [g_seamless_windows[w] EXCEPT !.place = place, !.byUser = FALSE])
         /\ xplace' = [xplace EXCEPT ![w] = place] /\ configured' = configured \cup {w}
         /\ UNCHANGED <<up, seamless_serial>>

\* Mutant: any acknowledgement ends the wait.
AckAny(serial) ==
    g_seamless_windows' =
        [w \in DOMAIN g_seamless_windows |->
            IF ~g_seamless_windows[w].outstanding THEN g_seamless_windows[w]
            ELSE [g_seamless_windows[w] EXCEPT !.outstanding = FALSE, !.place = g_seamless_windows[w].outpos]]

\* ui_seamless_ack, also when seamless mode is off
ui_seamless_ack(serial) ==
    g_seamless_windows' =
        [w \in DOMAIN g_seamless_windows |->
            LET sw == g_seamless_windows[w]
            IN  IF sw.outstanding /\ sw.serial = serial
                THEN [sw EXCEPT !.outstanding = FALSE, !.place = sw.outpos] ELSE sw]

-----------------------------------------------------------------------------
(* Windows, states, icons *)

\* "Ignore CREATEs for existing windows."
ui_seamless_create_window(w) ==
    IF ~g_seamless_active \/ WindowKnown(w) THEN UNCHANGED <<g_seamless_windows, xplace>>
    ELSE /\ g_seamless_windows' = [v \in DOMAIN g_seamless_windows \cup {w} |->
                                      IF v = w THEN NewWindow ELSE g_seamless_windows[v]]
         /\ xplace' = [v \in DOMAIN xplace \cup {w} |-> IF v = w THEN Nowhere ELSE xplace[v]]

\* XDestroyWindow and sw_remove_window
RemoveWindows(gone) ==
    /\ g_seamless_windows' = Drop(g_seamless_windows, gone)
    /\ xplace' = Drop(xplace, gone) /\ configured' = configured \ gone

\* ui_seamless_destroy_window
ui_seamless_destroy_window(w) ==
    IF g_seamless_active THEN RemoveWindows({w}) ELSE UNCHANGED <<g_seamless_windows, xplace, configured>>

ui_seamless_syncbegin ==
    IF g_seamless_active THEN RemoveWindows(DOMAIN g_seamless_windows)
    ELSE UNCHANGED <<g_seamless_windows, xplace, configured>>

ui_seamless_setstate(w, state) == Set(w, [g_seamless_windows[w] EXCEPT !.state = state])

\* Chunks of an icon, all of the same size here; the first starts it anew.
ui_seamless_seticon(w, version, chunk) ==
    LET sw == g_seamless_windows[w]
        icon == (IF chunk = 1 THEN <<>> ELSE sw.icon) \o <<version>>
    IN  Set(w, IF chunk # 1 /\ ~sw.receiving THEN sw
               ELSE IF Len(icon) = Chunks
               THEN [sw EXCEPT !.icon = <<>>, !.receiving = FALSE, !.shown = icon]
               ELSE [sw EXCEPT !.icon = icon, !.receiving = TRUE])

-----------------------------------------------------------------------------
(* Seamless mode *)

\* ui_seamless_toggle
Toggled(hidden) ==
    IF ~g_seamless_started' \/ hidden
    THEN UNCHANGED <<g_seamless_windows, xplace, configured, g_seamless_active, up, seamless_serial>>
    ELSE /\ g_seamless_active' = ~g_seamless_active
         /\ IF g_seamless_active THEN RemoveWindows(DOMAIN g_seamless_windows) /\ UNCHANGED <<up, seamless_serial>>
            ELSE /\ seamless_send(Verb("SYNC"))
                 /\ UNCHANGED <<g_seamless_windows, xplace, configured>>

ui_seamless_toggle == UNCHANGED <<g_seamless_started, g_seamless_hidden>> /\ Toggled(g_seamless_hidden)

\* ui_seamless_begin (SPAWN and PERSISTENT are left out)
ui_seamless_begin(hidden) ==
    IF g_seamless_started
    THEN UNCHANGED <<modesOfX, g_seamless_windows, xplace, configured, up, seamless_serial>>
    ELSE g_seamless_started' = TRUE /\ g_seamless_hidden' = hidden /\ Toggled(hidden)

ui_seamless_hide_desktop ==
    /\ g_seamless_hidden' = TRUE /\ UNCHANGED g_seamless_started
    /\ Toggled(g_seamless_hidden \/ ~g_seamless_active)

ui_seamless_unhide_desktop ==
    g_seamless_hidden' = FALSE /\ UNCHANGED g_seamless_started /\ Toggled(FALSE)

\* With the windows SYNCBEGIN forgets the moves that wait for an answer, which
\* the echoes of what follows may undo.
Forgotten ==
    /\ UNCHANGED seamless_serial
    /\ up' = [i \in DOMAIN up |-> IF up[i].verb = "POSITION" THEN [up[i] EXCEPT !.byUser = FALSE] ELSE up[i]]

WindowsKept == UNCHANGED <<g_seamless_windows, xplace, configured>>
SentNothing == UNCHANGED <<up, seamless_serial>>

\* seamless_process_line; lines about unknown windows are ignored.
seamless_process_line(line) ==
    CASE line.verb = "HELLO" -> ui_seamless_begin(FALSE)
      [] line.verb = "HELLO hidden" -> ui_seamless_begin(TRUE)
      [] line.verb = "HIDE" -> ui_seamless_hide_desktop
      [] line.verb = "UNHIDE" -> ui_seamless_unhide_desktop
      [] line.verb = "SYNCBEGIN" -> ui_seamless_syncbegin /\ Forgotten /\ UNCHANGED modesOfX
      [] line.verb = "CREATE" -> ui_seamless_create_window(line.id) /\ SentNothing /\ UNCHANGED <<configured, modesOfX>>
      [] line.verb = "DESTROY" -> ui_seamless_destroy_window(line.id) /\ SentNothing /\ UNCHANGED modesOfX
      [] line.verb = "ACK" -> ui_seamless_ack(line.serial) /\ SentNothing /\ UNCHANGED <<xplace, configured, modesOfX>>
      [] OTHER ->
            /\ UNCHANGED modesOfX
            /\ IF ~g_seamless_active \/ ~WindowKnown(line.id) THEN WindowsKept /\ SentNothing
               ELSE CASE line.verb = "POSITION" -> ui_seamless_move_window(line.id, line.place)
                      [] line.verb = "STATE" -> /\ ui_seamless_setstate(line.id, line.state) /\ SentNothing
                                                /\ UNCHANGED <<xplace, configured>>
                      [] line.verb = "SETICON" -> /\ ui_seamless_seticon(line.id, line.version, line.chunk)
                                                  /\ SentNothing /\ UNCHANGED <<xplace, configured>>

ProcessLine ==
    /\ down # <<>> /\ down' = Tail(down)
    /\ seamless_process_line(Head(down))
    /\ usersPlace' = IF Head(down).verb = "SYNCBEGIN" THEN [w \in {} |-> Nowhere] ELSE usersPlace
    /\ UNCHANGED <<remote, remoteHidden, icons, steps>>

-----------------------------------------------------------------------------
(* What happens locally *)

Step == steps < MaxSteps /\ steps' = steps + 1
ServerKept == UNCHANGED <<down, remote, usersPlace, remoteHidden, icons>>

\* The user or the window manager moves a window that is on the screen.
LocalMove(w, place) ==
    /\ Step /\ xplace[w] # place
    /\ g_seamless_windows[w].state \notin {"not yet mapped", "minimized"}
    /\ xplace' = [xplace EXCEPT ![w] = place] /\ configured' = configured \cup {w}
    /\ Set(w, [g_seamless_windows[w] EXCEPT !.byUser = TRUE])
    /\ SentNothing /\ ServerKept /\ UNCHANGED modesOfX

ConfigureNotify(w) ==
    /\ configured' = configured \ {w}
    /\ Set(w, [g_seamless_windows[w] EXCEPT !.timer = TRUE])
    /\ SentNothing /\ ServerKept /\ UNCHANGED <<xplace, modesOfX, steps>>

\* sw_check_timers, when the time of w is over
CheckTimers(w) ==
    /\ g_seamless_windows[w].timer /\ sw_update_position(w, g_seamless_windows[w].byUser, FALSE)
    /\ ServerKept /\ UNCHANGED <<xplace, configured, modesOfX, steps>>

\* PropertyNotify: the window manager gave a window another state; the server is told.
LocalState(w, state) ==
    /\ Step /\ g_seamless_windows[w].state \notin {"not yet mapped", state}
    /\ Set(w, [g_seamless_windows[w] EXCEPT !.state = state])
    /\ seamless_send(State(w, state))
    /\ ServerKept /\ UNCHANGED <<xplace, configured, modesOfX>>

\* WM_DELETE_WINDOW: the server is asked to end the program.
LocalClose(w) ==
    /\ Step /\ seamless_send(About("DESTROY", w))
    /\ ServerKept /\ UNCHANGED <<g_seamless_windows, xplace, configured, modesOfX>>

\* The key that toggles seamless mode
ToggleKey == Step /\ ui_seamless_toggle /\ ServerKept

\* The connection is lost, and the next begins: ui_seamless_end, seamless_reset_state
ui_seamless_end ==
    /\ Step /\ RemoveWindows(DOMAIN g_seamless_windows)
    /\ g_seamless_started' = FALSE /\ g_seamless_active' = FALSE /\ g_seamless_hidden' = FALSE
    /\ up' = <<>> /\ seamless_serial' = seamless_serial
    /\ down' = <<Verb(IF remoteHidden THEN "HELLO hidden" ELSE "HELLO")>>
    /\ icons' = [w \in XWins |-> [icons[w] EXCEPT !.chunk = 0]]
    /\ UNCHANGED <<remote, usersPlace, remoteHidden>>

-----------------------------------------------------------------------------
(* The server *)

ClientKept == UNCHANGED <<g_seamless_windows, xplace, configured, modesOfX, seamless_serial>>

ServerHandle ==
    LET line == Head(up)
        there == line.verb \in {"POSITION", "STATE", "DESTROY"} /\ line.id \in DOMAIN remote
    IN  /\ up # <<>> /\ up' = Tail(up)
        /\ remote' = CASE line.verb = "POSITION" /\ there -> [remote EXCEPT ![line.id] = line.place]
                       [] line.verb = "DESTROY" /\ there -> Drop(remote, {line.id})
                       [] OTHER -> remote
        /\ usersPlace' = IF ~there \/ line.verb = "STATE" THEN usersPlace
                         ELSE IF line.verb = "DESTROY" THEN Drop(usersPlace, {line.id})
                         ELSE IF line.byUser
                         THEN [v \in DOMAIN usersPlace \cup {line.id} |->
                                  IF v = line.id THEN line.place ELSE usersPlace[v]]
                         ELSE usersPlace
        /\ down' = down \o CASE line.verb = "SYNC" -> Everything(DOMAIN remote)
                             [] line.verb = "POSITION" -> <<[verb |-> "ACK", serial |-> line.serial]>>
                             [] line.verb = "DESTROY" /\ there -> <<About("DESTROY", line.id)>>
                             [] OTHER -> <<>>
        /\ ClientKept /\ UNCHANGED <<remoteHidden, icons, steps>>

\* An identifier is not used again.
ServerOpens(w, place) ==
    /\ Step /\ icons[w].version = Unopened
    /\ icons' = [icons EXCEPT ![w].version = 0]
    /\ remote' = [v \in DOMAIN remote \cup {w} |-> IF v = w THEN place ELSE remote[v]]
    /\ down' = down \o <<About("CREATE", w), Position(w, place), State(w, "normal")>>
    /\ ClientKept /\ UNCHANGED <<up, usersPlace, remoteHidden>>

ServerMoves(w, place) ==
    /\ Step /\ w \in DOMAIN remote /\ remote[w] # place
    /\ remote' = [remote EXCEPT ![w] = place]
    /\ down' = down \o <<Position(w, place)>> /\ usersPlace' = Drop(usersPlace, {w})
    /\ ClientKept /\ UNCHANGED <<up, remoteHidden, icons>>

ServerHides ==
    /\ Step /\ remoteHidden' = ~remoteHidden
    /\ down' = down \o <<Verb(IF remoteHidden THEN "UNHIDE" ELSE "HIDE")>>
    /\ ClientKept /\ UNCHANGED <<up, remote, usersPlace, icons>>

\* An icon goes out in chunks, with other lines in between.
ServerSendsIcon(w) ==
    LET icon == icons[w]
        now == IF icon.chunk = Chunks \/ icon.chunk = 0 THEN [version |-> icon.version + 1, chunk |-> 1]
               ELSE [icon EXCEPT !.chunk = @ + 1]
    IN  /\ w \in DOMAIN remote
        /\ IF now.chunk = 1 THEN Step ELSE UNCHANGED steps
        /\ icons' = [icons EXCEPT ![w] = now]
        /\ down' = down \o <<[verb |-> "SETICON", id |-> w, version |-> now.version, chunk |-> now.chunk]>>
        /\ ClientKept /\ UNCHANGED <<up, remote, usersPlace, remoteHidden>>

XWindowsNext ==
    \/ ProcessLine \/ ServerHandle \/ ToggleKey \/ ui_seamless_end \/ ServerHides
    \/ \E w \in DOMAIN g_seamless_windows :
          \/ \E place \in XPlaces : LocalMove(w, place)
          \/ \E state \in {"normal", "maximized", "minimized"} : LocalState(w, state)
          \/ CheckTimers(w) \/ LocalClose(w)
    \/ \E w \in configured : ConfigureNotify(w)
    \/ \E w \in XWins : \/ \E place \in XPlaces : ServerOpens(w, place) \/ ServerMoves(w, place)
                        \/ ServerSendsIcon(w)

-----------------------------------------------------------------------------
(* The property *)

Settled ==
    /\ up = <<>> /\ down = <<>> /\ configured = {}
    /\ \A w \in DOMAIN g_seamless_windows : ~g_seamless_windows[w].timer

\* However moves of the user and of the server cross, once nothing is on its
\* way every window of the server is one of X in seamless mode, it stands at
\* the same place on both sides, which is the one things are drawn for
\* (xoffset, yoffset), and no answer is waited for that will not come.  Where
\* the user put a window it stays at the server, until the server itself moves
\* it or a SYNC starts over: no echo of an older place undoes the move.  An icon that is shown is
\* one icon of the server in full.
WindowsAgree ==
    /\ Settled /\ g_seamless_active =>
          /\ DOMAIN g_seamless_windows = DOMAIN remote
          /\ \A w \in DOMAIN remote :
                /\ xplace[w] = remote[w] /\ g_seamless_windows[w].place = remote[w]
                /\ ~g_seamless_windows[w].outstanding
    /\ \A w \in DOMAIN usersPlace : remote[w] = usersPlace[w]
    /\ \A w \in DOMAIN g_seamless_windows :
          \A i, j \in DOMAIN g_seamless_windows[w].shown :
             g_seamless_windows[w].shown[i] = g_seamless_windows[w].shown[j]
=============================================================================
