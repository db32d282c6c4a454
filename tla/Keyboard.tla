------------------------------ MODULE Keyboard ------------------------------
(***************************************************************************)
(* The keyboard of the OS/2 front end, os2/os2win.c: which keys and locks  *)
(* the server thinks are down or on, while the user presses and releases   *)
(* keys in the window and outside of it.  _wmChar remembers the keys that  *)
(* are down in aucKeysPressed, the latest first; when the window becomes   *)
(* active again, _wmActivate releases those that went up meanwhile.  Locks *)
(* (Caps, Num, Scroll) are kept equal by a SYNCHRONIZE event, sent only if *)
(* they differ from what was sent last (option -N).                        *)
(*                                                                         *)
(* The server turns a lock over when it sees its key go down, as the local *)
(* system does.  Keys with sequences of their own (Print Screen, Pause)    *)
(* and the translation of scan codes are left out.                         *)
(***************************************************************************)
EXTENDS Integers, Sequences, FiniteSets

CONSTANTS
    Keys,
    LockKeys,       \* keys that turn over a lock
    Chord,          \* the keys that together toggle full screen (Ctrl, Alt, Enter)
    Enter,
    Slots           \* ARRAY_SIZE(aucKeysPressed)

ASSUME KeyAssumption == LockKeys \subseteq Keys /\ Chord \subseteq Keys
                        /\ Enter \in Chord \ LockKeys
ASSUME SlotAssumption == Slots \in Nat \ {0}

VARIABLES
    keyboard,       \* what os2win.c and the server know, see Keyboards
    physical,       \* the keys the user holds down
    locks,          \* the local locks that are on
    active,         \* does the window have the focus?
    missed          \* was a lock key down while the focus changed, or the first key of all?

keyboardVars == <<keyboard, physical, locks, active, missed>>

\* pressed is aucKeysPressed without the empty places at its end; need and sent
\* are the two parts of ulSyncKbdFlags; down and on are the server's.
Keyboards == [pressed : Seq(Keys), need : BOOLEAN, sent : SUBSET SUBSET LockKeys,
              down : SUBSET Keys, on : SUBSET LockKeys]

\* At the start ulSyncKbdFlags equals no combination of locks.
KeyboardInit ==
    /\ \E on \in SUBSET LockKeys :
           keyboard = [pressed |-> <<>>, need |-> FALSE, sent |-> {}, down |-> {}, on |-> on]
    /\ physical = {} /\ locks \in SUBSET LockKeys
    /\ active = FALSE /\ missed = FALSE

Turn(on, key) ==
    IF key \notin LockKeys THEN on ELSE IF key \in on THEN on \ {key} ELSE on \cup {key}

Known(k) == {k.pressed[i] : i \in DOMAIN k.pressed}

-----------------------------------------------------------------------------
(* What _wmChar does with a key *)

\* Mutant: the flags are noted, but sent only if some lock is on.
SyncIfOn(k, now) ==
    [k EXCEPT !.need = FALSE, !.sent = {now}, !.on = IF now = {} THEN k.on ELSE now]

\* _kbdSync, with locks "now"
KbdSync(k, now) ==
    IF k.sent = {now} THEN [k EXCEPT !.need = FALSE]
    ELSE [k EXCEPT !.need = FALSE, !.sent = {now}, !.on = now]

\* Entry n is given up, and the later ones move up.
MoveUp(pressed, n) ==
    [i \in 1..(Len(pressed) - 1) |-> pressed[IF i < n THEN i ELSE i + 1]]

Unregister(pressed, key) ==
    LET place == {n \in DOMAIN pressed : pressed[n] = key}
    IN  IF place = {} THEN pressed
        ELSE MoveUp(pressed, CHOOSE n \in place : \A m \in place : n <= m)

KeyUp(k, key) == [k EXCEPT !.pressed = Unregister(@, key), !.down = @ \ {key}]

CharUp(k, key, now) ==
    KeyUp(IF k.need \/ key \in LockKeys THEN KbdSync(k, now) ELSE k, key)

\* The oldest key falls out when all places are taken.
Register(pressed, key) == SubSeq(<<key>> \o pressed, 1,
                                 IF Len(pressed) < Slots THEN Len(pressed) + 1 ELSE Slots)

Registered(k, key) ==
    IF key \in Known(k) THEN k ELSE [k EXCEPT !.pressed = Register(@, key)]

\* The key that completes Ctrl-Alt-Enter is registered, but not sent.
Toggles(k, key) == key = Enter /\ key \notin Known(k) /\ Chord \subseteq Known(Registered(k, key))

CharDown(k, key, now) ==
    LET noted == Registered(k, key)
        synced == IF k.need THEN KbdSync(noted, now) ELSE noted
    IN  [synced EXCEPT !.down = @ \cup {key},
                       !.on = IF key \in synced.down THEN @ ELSE Turn(@, key)]

-----------------------------------------------------------------------------
(* The user *)

\* A key goes down, or repeats; its lock is turned over at once.  If it
\* completes the chord, the window is destroyed and another made, which
\* becomes active later, or, when the sizes of the desktops differ, nothing
\* happens.
Press(key) ==
    /\ physical' = physical \cup {key}
    /\ locks' = IF key \in physical THEN locks ELSE Turn(locks, key)
    /\ IF ~active THEN UNCHANGED <<keyboard, active>>
       ELSE IF Toggles(keyboard, key)
       THEN \/ /\ keyboard' = [Registered(keyboard, key) EXCEPT !.need = TRUE]
               /\ active' = FALSE
            \/ keyboard' = Registered(keyboard, key) /\ UNCHANGED active
       ELSE keyboard' = CharDown(keyboard, key, locks') /\ UNCHANGED active
    /\ missed' = (missed \/ (active /\ ~active' /\ physical' \cap LockKeys # {})
                       \/ (active /\ keyboard.need /\ key \in LockKeys))

Release(key) ==
    /\ key \in physical
    /\ physical' = physical \ {key}
    /\ keyboard' = IF active THEN CharUp(keyboard, key, locks) ELSE keyboard
    /\ UNCHANGED <<locks, active, missed>>

\* Mutant: the loop ends at the first key that is still held.
ReleaseToHeld(k) ==
    LET gone(n) == \A i \in 1..n : k.pressed[i] \notin physical
    IN  [k EXCEPT !.down = @ \ {k.pressed[i] : i \in {n \in DOMAIN k.pressed : gone(n)}}]

\* A key that went up is released, which moves the later ones up, and the
\* loop of _wmActivate goes on with the next place.
ReleasePlace(k, n) ==
    IF n > Len(k.pressed) \/ k.pressed[n] \in physical THEN k
    ELSE KeyUp(IF k.need THEN KbdSync(k, locks) ELSE k, k.pressed[n])

ReleaseGone(k) ==
    LET after[n \in 0..Slots] == IF n = 0 THEN k ELSE ReleasePlace(after[n - 1], n)
    IN  after[Slots]

\* Without a deactivation before, locks are compared at the next key only.
Activate ==
    /\ ~active
    /\ LET released == [ReleaseGone(keyboard) EXCEPT !.pressed = <<>>]
       IN  keyboard' = IF released.need THEN KbdSync(released, locks)
                       ELSE [released EXCEPT !.need = TRUE]
    /\ active' = TRUE
    /\ missed' = (missed \/ physical \cap LockKeys # {})
    /\ UNCHANGED <<physical, locks>>

Deactivate ==
    /\ active
    /\ active' = FALSE
    /\ keyboard' = [keyboard EXCEPT !.need = TRUE]
    /\ missed' = (missed \/ physical \cap LockKeys # {})
    /\ UNCHANGED <<physical, locks>>

KeyboardNext ==
    \/ \E key \in Keys : Press(key) \/ Release(key)
    \/ Activate \/ Deactivate

KeyboardSpec == KeyboardInit /\ [][KeyboardNext]_keyboardVars

-----------------------------------------------------------------------------
(* Properties *)

KeyboardTypeOK ==
    /\ keyboard \in Keyboards /\ Len(keyboard.pressed) <= Slots
    /\ physical \subseteq Keys /\ locks \subseteq LockKeys
    /\ active \in BOOLEAN /\ missed \in BOOLEAN

\* While the window is active and no lock key is down, the server has the locks
\* of the user, unless a lock key was down when the focus came or went, or was
\* the first key of all; its press is then counted on one side only.
LocksAgree ==
    (active /\ ~keyboard.need /\ ~missed /\ physical \cap LockKeys = {})
        => keyboard.on = locks

\* When the focus comes back, the latest key that went up meanwhile goes up on
\* the server, and no key goes up there that the user still holds.
FocusReturns ==
    [][(~active /\ active') =>
          /\ keyboard.down \cap physical \subseteq keyboard'.down
          /\ \A i \in DOMAIN keyboard.pressed :
                (/\ keyboard.pressed[i] \notin physical
                 /\ \A j \in 1..(i - 1) : keyboard.pressed[j] \in physical)
                    => keyboard.pressed[i] \notin keyboard'.down]_keyboardVars
=============================================================================
