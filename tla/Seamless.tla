------------------------------ MODULE Seamless ------------------------------
(***************************************************************************)
(* Seamless windows: seamless.c, which takes the lines of the server's     *)
(* channel apart, and os2/os2seamless.c, which has a local window for each *)
(* window of the server, or, when seamless mode is off, one window with    *)
(* the whole desktop.  Lines reach the program in order; several may come  *)
(* in one packet, and ui_select looks between packets whether the last     *)
(* window is gone.                                                         *)
(*                                                                         *)
(* Positions, stacking, titles, states, icons and acknowledgements are     *)
(* left out: they change no window's existence.                            *)
(***************************************************************************)
EXTENDS Integers, Sequences, FiniteSets

CONSTANTS
    Windows,        \* by their identifiers
    GroupOf,        \* the group (application) of each
    MaxLines,       \* bounds the lines on their way
    MaxLocal        \* bounds the local windows when the server makes another

ASSUME MaxLinesAssumption == MaxLines \in Nat /\ MaxLocal \in Nat

VARIABLES
    pSeamlessWindows,    \* as a sequence, the newest first
    fSeamlessActive, fSeamlessStarted, fSeamlessHidden, fLastWinRemoved,
    desktop,             \* is there a window with the desktop (hwndFrame)?
    seamless_rest,       \* is a part of a line left from an earlier packet?
    ended,               \* did ui_select return 0?
    serverWindows, serverHidden,
    lines,               \* on their way to the program
    told,                \* the windows the lines handled so far speak of
    synced,              \* has a SYNCBEGIN been handled in this seamless mode?
    reactivated          \* did a connection come up in seamless mode?

modes == <<fSeamlessActive, fSeamlessStarted, fSeamlessHidden, desktop>>
seamlessVars == <<pSeamlessWindows, modes, fLastWinRemoved, seamless_rest, ended,
                  serverWindows, serverHidden, lines, told, synced, reactivated>>

Groups == {GroupOf[w] : w \in Windows}
Lines == [verb : {"CREATE", "DESTROY"}, window : Windows]
         \cup [verb : {"DESTROYGRP"}, group : Groups]
         \cup [verb : {"SYNCBEGIN", "HELLO", "HELLO hidden", "HIDE", "UNHIDE"}]

Line(verb) == [verb |-> verb]
Hello == Line(IF serverHidden THEN "HELLO hidden" ELSE "HELLO")

SeamlessInit ==
    /\ pSeamlessWindows = <<>>
    /\ fSeamlessActive = FALSE /\ fSeamlessStarted = FALSE /\ fSeamlessHidden = FALSE
    /\ fLastWinRemoved = FALSE
    /\ desktop = TRUE /\ seamless_rest = FALSE /\ ended = FALSE
    /\ serverWindows = {} /\ serverHidden \in BOOLEAN /\ lines = <<Hello>>
    /\ told = {} /\ synced = FALSE /\ reactivated = FALSE

LineOf(verb, window) == [verb |-> verb, window |-> window]

\* What the server sends for SYNC: SYNCBEGIN and all its windows.
SyncLines ==
    LET order == CHOOSE s \in [1..Cardinality(serverWindows) -> serverWindows] :
                     \A i, j \in DOMAIN s : i # j => s[i] # s[j]
    IN  <<Line("SYNCBEGIN")>> \o [i \in DOMAIN order |-> LineOf("CREATE", order[i])]

-----------------------------------------------------------------------------
(* The lines of the server *)

\* _swGetWindowById finds nothing when seamless mode is off.
Found(window) == IF fSeamlessActive
                 THEN {i \in DOMAIN pSeamlessWindows : pSeamlessWindows[i] = window} ELSE {}

\* Mutant: a window that exists is made again.
CreateAgain(window) == pSeamlessWindows' = <<window>> \o pSeamlessWindows

\* "Ignore CREATEs for existing windows."
CreateWindow(window) ==
    pSeamlessWindows' = IF Found(window) # {} THEN pSeamlessWindows
                        ELSE <<window>> \o pSeamlessWindows

\* _swRemoveWindow: the first window with the identifier.
DestroyWindow(window) ==
    IF Found(window) = {}
    THEN UNCHANGED <<pSeamlessWindows, fLastWinRemoved>>
    ELSE \E i \in Found(window) :
            /\ \A j \in Found(window) : i <= j
            /\ pSeamlessWindows' = SubSeq(pSeamlessWindows, 1, i - 1)
                                   \o SubSeq(pSeamlessWindows, i + 1, Len(pSeamlessWindows))
            /\ fLastWinRemoved' = (pSeamlessWindows' = <<>>)

\* The windows of the list but those of the group.
KeepUnless(kept, window, group) == IF GroupOf[window] = group THEN kept ELSE Append(kept, window)
WithoutGroup(windows, group) ==
    LET kept[i \in 0..Len(windows)] ==
            IF i = 0 THEN <<>> ELSE KeepUnless(kept[i - 1], windows[i], group)
    IN kept[Len(windows)]

\* Whether or not seamless mode is on.
DestroyGroup(group) == pSeamlessWindows' = WithoutGroup(pSeamlessWindows, group)

\* Mutant: the desktop stays when seamless mode begins.
ToggleBoth ==
    IF ~fSeamlessStarted \/ fSeamlessHidden
    THEN UNCHANGED <<pSeamlessWindows, fSeamlessActive, fLastWinRemoved, desktop, seamless_rest,
                     lines, synced>>
    ELSE /\ fSeamlessActive' = ~fSeamlessActive /\ fLastWinRemoved' = FALSE /\ synced' = FALSE
         /\ desktop' = TRUE
         /\ UNCHANGED <<pSeamlessWindows, seamless_rest>>
         /\ lines' = IF fSeamlessActive THEN lines ELSE lines \o SyncLines

\* swSeamlessToggle: on the way out all windows are destroyed and the desktop
\* is made (which resets the channel's rest), on the way in the desktop is
\* destroyed and the server asked for its windows.
Toggle ==
    IF ~fSeamlessStarted \/ fSeamlessHidden
    THEN UNCHANGED <<pSeamlessWindows, fSeamlessActive, fLastWinRemoved, desktop, seamless_rest,
                     lines, synced>>
    ELSE /\ fSeamlessActive' = ~fSeamlessActive
         /\ fLastWinRemoved' = FALSE
         /\ synced' = FALSE
         /\ IF fSeamlessActive
            THEN /\ pSeamlessWindows' = <<>> /\ desktop' = TRUE /\ seamless_rest' = FALSE
                 /\ UNCHANGED lines
            ELSE /\ desktop' = FALSE
                 /\ lines' = lines \o SyncLines
                 /\ UNCHANGED <<pSeamlessWindows, seamless_rest>>

Next1(verb) == lines # <<>> /\ lines[1].verb = verb /\ ~seamless_rest
Kept == UNCHANGED <<ended, serverWindows, serverHidden, reactivated>>
NoToggle == lines' = Tail(lines) /\ UNCHANGED <<modes, seamless_rest>>

LineCreate ==
    /\ Next1("CREATE") /\ NoToggle /\ Kept
    /\ CreateWindow(lines[1].window)
    /\ told' = told \cup {lines[1].window}
    /\ UNCHANGED <<fLastWinRemoved, synced>>

LineDestroy ==
    /\ Next1("DESTROY") /\ NoToggle /\ Kept
    /\ DestroyWindow(lines[1].window)
    /\ told' = told \ {lines[1].window}
    /\ UNCHANGED synced

LineDestroyGroup ==
    /\ Next1("DESTROYGRP") /\ NoToggle /\ Kept
    /\ DestroyGroup(lines[1].group)
    /\ told' = {w \in told : GroupOf[w] # lines[1].group}
    /\ UNCHANGED <<fLastWinRemoved, synced>>

\* ui_seamless_syncbegin
LineSyncBegin ==
    /\ Next1("SYNCBEGIN") /\ NoToggle /\ Kept
    /\ IF fSeamlessActive
       THEN pSeamlessWindows' = <<>> /\ fLastWinRemoved' = FALSE
       ELSE UNCHANGED <<pSeamlessWindows, fLastWinRemoved>>
    /\ told' = {} /\ synced' = fSeamlessActive

\* ui_seamless_begin: a second HELLO changes nothing.
LineHello ==
    /\ lines # <<>> /\ lines[1].verb \in {"HELLO", "HELLO hidden"} /\ ~seamless_rest
    /\ IF fSeamlessStarted
       THEN NoToggle /\ UNCHANGED <<pSeamlessWindows, fLastWinRemoved, synced>>
       ELSE /\ fSeamlessStarted' = TRUE
            /\ fSeamlessHidden' = (lines[1].verb = "HELLO hidden")
            /\ fLastWinRemoved' = FALSE
            /\ UNCHANGED <<pSeamlessWindows, seamless_rest>>
            /\ IF fSeamlessHidden'
               THEN lines' = Tail(lines) /\ UNCHANGED <<fSeamlessActive, desktop, synced>>
               ELSE /\ fSeamlessActive' = TRUE /\ desktop' = FALSE /\ synced' = FALSE
                    /\ lines' = Tail(lines) \o SyncLines
    /\ UNCHANGED told /\ Kept

\* ui_seamless_hide_desktop leaves seamless mode, ui_seamless_unhide_desktop
\* toggles it.  The line that asks for it goes first.
LineHide ==
    /\ Next1("HIDE") /\ fSeamlessStarted
    /\ fSeamlessHidden' = TRUE /\ fSeamlessStarted' = fSeamlessStarted
    /\ lines' = Tail(lines)
    /\ IF fSeamlessActive
       THEN /\ fSeamlessActive' = FALSE /\ pSeamlessWindows' = <<>> /\ desktop' = TRUE
            /\ seamless_rest' = FALSE /\ fLastWinRemoved' = FALSE /\ synced' = FALSE
       ELSE UNCHANGED <<fSeamlessActive, pSeamlessWindows, desktop, seamless_rest,
                        fLastWinRemoved, synced>>
    /\ UNCHANGED told /\ Kept

LineUnhide ==
    /\ Next1("UNHIDE") /\ fSeamlessStarted
    /\ fSeamlessHidden' = FALSE /\ fSeamlessStarted' = fSeamlessStarted
    /\ fSeamlessActive' = ~fSeamlessActive /\ desktop' = fSeamlessActive
    /\ fLastWinRemoved' = FALSE /\ synced' = FALSE
    /\ IF fSeamlessActive
       THEN pSeamlessWindows' = <<>> /\ lines' = Tail(lines) /\ seamless_rest' = FALSE
       ELSE /\ lines' = Tail(lines) \o SyncLines
            /\ UNCHANGED <<pSeamlessWindows, seamless_rest>>
    /\ UNCHANGED told /\ Kept

\* The rest of an earlier packet spoils the line, or HIDE and UNHIDE come
\* before HELLO.
LineIgnored ==
    /\ lines # <<>>
    /\ seamless_rest \/ (lines[1].verb \in {"HIDE", "UNHIDE"} /\ ~fSeamlessStarted)
    /\ lines' = Tail(lines) /\ seamless_rest' = FALSE
    /\ synced' = (synced /\ ~seamless_rest)
    /\ UNCHANGED <<pSeamlessWindows, modes, fLastWinRemoved, told>> /\ Kept

-----------------------------------------------------------------------------
(* The program, the user and the server *)

\* ui_select looks at swNoWindowsLeft before each packet.
NoWindowsLeft ==
    /\ fSeamlessStarted /\ fSeamlessActive /\ fLastWinRemoved
    /\ ended' = TRUE
    /\ UNCHANGED <<pSeamlessWindows, modes, fLastWinRemoved, seamless_rest, serverWindows, serverHidden,
                   lines, told, synced, reactivated>>

\* The user toggles with Ctrl-Alt-Enter (outside of seamless mode, or hidden,
\* the window is made anew, which resets the channel's rest).
UserToggles ==
    /\ Len(lines) <= MaxLines
    /\ Toggle
    /\ UNCHANGED <<fSeamlessStarted, fSeamlessHidden, told>> /\ Kept

\* A connection is lost and another comes up, for which rd_create_ui makes a
\* window if there is none.  What was on its way is lost, perhaps within a
\* line; the server says HELLO again.
Reconnect ==
    /\ lines # <<>>
    /\ lines' = <<Hello>>
    /\ reactivated' = (reactivated \/ fSeamlessActive)
    /\ IF desktop THEN seamless_rest' \in BOOLEAN ELSE seamless_rest' = FALSE
    /\ desktop' = TRUE
    /\ synced' = FALSE
    /\ UNCHANGED <<pSeamlessWindows, fSeamlessActive, fSeamlessStarted, fSeamlessHidden,
                   fLastWinRemoved, ended, serverWindows, serverHidden, told>>

\* A resize ends seamless mode before it reconnects.
ResizeReconnect ==
    /\ pSeamlessWindows' = <<>>
    /\ fSeamlessActive' = FALSE /\ fSeamlessStarted' = FALSE /\ fSeamlessHidden' = FALSE
    /\ fLastWinRemoved' = FALSE /\ desktop' = TRUE /\ seamless_rest' = FALSE
    /\ lines' = <<Hello>> /\ synced' = FALSE
    /\ UNCHANGED <<ended, serverWindows, serverHidden, told, reactivated>>

Send(line) ==
    /\ Len(lines) < MaxLines
    /\ lines' = Append(lines, line)
    /\ UNCHANGED <<pSeamlessWindows, modes, fLastWinRemoved, seamless_rest, ended, told, synced,
                   reactivated>>

\* A window may be reported again: its hooks and its enumeration run side by side.
Server ==
    \/ /\ UNCHANGED serverHidden
       /\ \/ \E window \in Windows :
                /\ Len(pSeamlessWindows) < MaxLocal
                /\ serverWindows' = serverWindows \cup {window}
                /\ Send(LineOf("CREATE", window))
          \/ \E window \in serverWindows :
                serverWindows' = serverWindows \ {window} /\ Send(LineOf("DESTROY", window))
          \/ \E group \in Groups :
                /\ serverWindows' = {w \in serverWindows : GroupOf[w] # group}
                /\ Send([verb |-> "DESTROYGRP", group |-> group])
    \/ /\ serverHidden' = ~serverHidden /\ UNCHANGED serverWindows
       /\ Send(Line(IF serverHidden THEN "UNHIDE" ELSE "HIDE"))

HandleLine ==
    LineCreate \/ LineDestroy \/ LineDestroyGroup \/ LineSyncBegin \/ LineHello \/ LineHide
    \/ LineUnhide \/ LineIgnored

SeamlessNext ==
    ~ended /\ (HandleLine \/ NoWindowsLeft \/ UserToggles \/ Reconnect \/ ResizeReconnect \/ Server)

SeamlessSpec == SeamlessInit /\ [][SeamlessNext]_seamlessVars

-----------------------------------------------------------------------------
(* Properties *)

SeamlessTypeOK ==
    /\ pSeamlessWindows \in Seq(Windows) /\ lines \in Seq(Lines)
    /\ serverWindows \subseteq Windows /\ serverHidden \in BOOLEAN /\ told \subseteq Windows
    /\ {fSeamlessActive, fSeamlessStarted, fSeamlessHidden, fLastWinRemoved, desktop,
        seamless_rest, ended, synced, reactivated} \subseteq BOOLEAN

\* In seamless mode, from the synchronization on, there is one local window for
\* each window the server spoke of, and no other; windows made while the mode
\* was off, when nothing is found by its identifier, do not stay.  Either the
\* desktop is shown or its windows, unless a connection came up in seamless mode.
WindowsMirror ==
    /\ (fSeamlessActive /\ synced) =>
          /\ {pSeamlessWindows[i] : i \in DOMAIN pSeamlessWindows} = told
          /\ Len(pSeamlessWindows) = Cardinality(told)
    /\ ~reactivated => (desktop <=> ~fSeamlessActive)
=============================================================================
