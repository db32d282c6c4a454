------------------------------ MODULE XKeyboard ------------------------------
(***************************************************************************)
(* The keyboard of the X11 front end, xkeymap.c: a keymap file says which  *)
(* scan code stands for a keysym, and with which modifiers the server must *)
(* see it.  Around every ordinary key the modifiers of the server are      *)
(* brought to what the keymap asks for and back; remote_modifier_state is  *)
(* what the client believes of them.                                       *)
(*                                                                         *)
(* The server is external: it holds the keys that were sent down, and a    *)
(* SYNCHRONIZE event sets its NumLock and lets go of all keys, as          *)
(* ensure_remote_modifiers takes it.  Keys are named by what they type,    *)
(* modifiers by their scan code; the Windows keys are those of RDP 5.      *)
(***************************************************************************)
EXTENDS Integers, Sequences, SequencesExt, FiniteSets

CONSTANTS
    XKeys,          \* the keys of the keyboard
    KeymapLines,    \* the lines of the keymap file, included files in place
    KeysymOf(_, _, _),  \* what Xlib makes of a key, the modifiers held, and the local NumLock
    RawScancode,    \* keys of the main block |-> scan code guessed from the key code
    MaxNesting,     \* 32: sequences within sequences
    MaxHeld,        \* bound: keys held at the same time
    MaxBreaks       \* bound: times the focus is lost or the session activated anew

ASSUME NestingAssumption == MaxNesting \in Nat \ {0}
ASSUME HeldAssumption == MaxHeld \in Nat \ {0} /\ MaxBreaks \in Nat

VARIABLES
    xkeys,          \* what xkeymap.c and the server know, see XKeysInit
    keypress_keysyms,
    xheld,          \* the keys the user holds down
    xnum,           \* the NumLock of the X server
    g_focused,
    g_numlock_sync, \* option -N
    breaks

xkeyboardVars == <<xkeys, keypress_keysyms, xheld, xnum, g_focused, g_numlock_sync, breaks>>

ShiftMask == {"LSHIFT", "RSHIFT"}
CtrlMask == {"LCTRL", "RCTRL"}
ModifierCodes == ShiftMask \cup CtrlMask \cup {"LALT", "RALT", "LWIN", "RWIN"}
None == "none"

Has(mask, bits) == mask \cap bits # {}

-----------------------------------------------------------------------------
(* The keymap: keysym |-> translation.  An inhibited key has no scan code. *)

Without(keymap, keysym) == [s \in DOMAIN keymap \ {keysym} |-> keymap[s]]
With(keymap, keysym, tr) == [s \in DOMAIN keymap \cup {keysym} |-> IF s = keysym THEN tr ELSE keymap[s]]

\* A later line for the same keysym replaces the earlier one.
add_to_keymap(keymap, keysym, scancode, flags) ==
    With(keymap, keysym, [scancode |-> scancode, modifiers |-> flags, seq |-> <<>>])

\* A name that X does not know ends the line and takes the entry away.
add_sequence(keymap, keysym, elements) ==
    IF \E i \in DOMAIN elements : elements[i] = None THEN Without(keymap, keysym)
    ELSE With(keymap, keysym, [scancode |-> None, modifiers |-> {}, seq |-> elements])

Upper(keysym) == KeysymOf(keysym, {"LSHIFT"}, FALSE)

ReadLine(keymap, line) ==
    IF line.sequence # <<>> THEN add_sequence(keymap, line.keysym, line.sequence)
    ELSE LET lower == add_to_keymap(keymap, line.keysym, line.scancode, line.flags \ {"addupper"})
         IN  IF "addupper" \in line.flags
             THEN add_to_keymap(lower, Upper(line.keysym), line.scancode, (line.flags \ {"addupper"}) \cup {"LSHIFT"})
             ELSE lower

xkeymap_read == FoldLeft(ReadLine, [s \in {} |-> None], KeymapLines)

\* An entry that ended up without elements counts as no entry.
xkeymap_translate_key(k, keysym, key, state) ==
    LET local == IF Has(state, ShiftMask) THEN {"LSHIFT"} ELSE {}
    IN  IF keysym \notin DOMAIN xkeymap_read
        THEN IF key \in DOMAIN RawScancode
             THEN [scancode |-> RawScancode[key], modifiers |-> local, seq |-> <<>>]
             ELSE [scancode |-> None, modifiers |-> {}, seq |-> <<>>]
        ELSE LET tr == xkeymap_read[keysym]
                 wanted == IF "localstate" \in tr.modifiers /\ Has(state, ShiftMask) THEN local ELSE tr.modifiers
             IN  IF tr.seq # <<>> THEN tr
                 ELSE IF "inhibit" \in tr.modifiers THEN [tr EXCEPT !.scancode = None]
                 ELSE IF Has(wanted, ShiftMask) /\ Has(k.remote, CtrlMask) /\ ~Has(state, ShiftMask)
                 THEN [tr EXCEPT !.modifiers = wanted \ ShiftMask]
                 ELSE [tr EXCEPT !.modifiers = wanted]

-----------------------------------------------------------------------------
(* What is sent *)

is_modifier(scancode) == scancode \in ModifierCodes \cup {"NUMLOCK"}

\* Mutant: a modifier that is let go is still believed to be down.
UpdateOnPress(remote, scancode, pressed) ==
    IF pressed /\ scancode \in ModifierCodes THEN remote \cup {scancode} ELSE remote

\* update_modifier_state; NUMLOCK stands for MapNumLockMask, and turns over.
update_modifier_state(remote, scancode, pressed) ==
    IF scancode \in ModifierCodes THEN IF pressed THEN remote \cup {scancode} ELSE remote \ {scancode}
    ELSE IF scancode = "NUMLOCK" /\ pressed /\ ~g_numlock_sync
    THEN IF "NUMLOCK" \in remote THEN remote \ {"NUMLOCK"} ELSE remote \cup {"NUMLOCK"}
    ELSE remote

\* The server takes the key as it comes; its event says again what is down.
rdp_send_scancode(k, pressed, scancode) ==
    [k EXCEPT !.remote = update_modifier_state(@, scancode, pressed),
              !.down = IF pressed THEN @ \cup {scancode} ELSE @ \ {scancode},
              !.num = IF pressed /\ scancode = "NUMLOCK" THEN ~@ ELSE @,
              !.astray = @ \ {scancode},
              !.unseen = @ \ {scancode}]

\* A SYNCHRONIZE event on its own: what the client believes to be down is kept.
Synchronize(k, num) ==
    [k EXCEPT !.down = {}, !.num = num,
              !.astray = @ \cup (k.remote \cap ModifierCodes)
                         \cup (IF num = ("NUMLOCK" \in k.remote) THEN {} ELSE {"NUMLOCK"})]

EnsureNumLock(k, wanted) ==
    IF g_numlock_sync \/ ("NUMLOCK" \in wanted) = ("NUMLOCK" \in k.remote) THEN k
    ELSE [k EXCEPT !.remote = wanted \cap {"NUMLOCK"}, !.down = {}, !.num = "NUMLOCK" \in wanted,
                   !.astray = {}]

\* Left and right Shift are treated as equal; only one of two is let go.
EnsureShift(k, wanted) ==
    IF Has(wanted, ShiftMask) = Has(k.remote, ShiftMask) THEN k
    ELSE IF "LSHIFT" \in wanted THEN rdp_send_scancode(k, TRUE, "LSHIFT")
    ELSE IF "RSHIFT" \in wanted THEN rdp_send_scancode(k, TRUE, "RSHIFT")
    ELSE rdp_send_scancode(k, FALSE, IF "LSHIFT" \in k.remote THEN "LSHIFT" ELSE "RSHIFT")

EnsureAltGr(k, wanted) ==
    IF ("RALT" \in wanted) = ("RALT" \in k.remote) THEN k
    ELSE rdp_send_scancode(k, "RALT" \in wanted, "RALT")

ensure_remote_modifiers(k, scancode, wanted) ==
    IF is_modifier(scancode) THEN k ELSE EnsureAltGr(EnsureShift(EnsureNumLock(k, wanted), wanted), wanted)

\* Did a key reach the server under the Shift, AltGr and NumLock the keymap asks for?
AsMeant(k, wanted) ==
    /\ Has(wanted, ShiftMask) = Has(k.down, ShiftMask)
    /\ ("RALT" \in wanted) = ("RALT" \in k.down)
    /\ ~g_numlock_sync => ("NUMLOCK" \in wanted) = k.num

\* Left alone: two Shifts, of which one is let go, and modifiers that a
\* SYNCHRONIZE let go behind the back of remote.
Noted(k, wanted, before) ==
    [k EXCEPT !.typed = k.astray # {} \/ ShiftMask \subseteq before \/ AsMeant(k, wanted)]

\* save_remote_modifiers, the key, and restore_remote_modifiers
SendKey(k, tr, pressed) ==
    LET saved == k.remote
        ready == ensure_remote_modifiers(k, tr.scancode, tr.modifiers)
        noted == IF pressed /\ ~is_modifier(tr.scancode) THEN Noted(ready, tr.modifiers, saved) ELSE ready
    IN  IF tr.scancode = None THEN k
        ELSE ensure_remote_modifiers(rdp_send_scancode(noted, pressed, tr.scancode), tr.scancode, saved)

\* A sequence is typed in full when its key goes down; nesting counts the elements too.
RECURSIVE xkeymap_send_keys(_, _, _, _, _, _)
xkeymap_send_keys(k, keysym, key, state, pressed, nesting) ==
    LET tr == xkeymap_translate_key(k, keysym, key, state)
        Element(sofar, i) ==
            LET deeper == nesting + i
                typed == xkeymap_send_keys(sofar, tr.seq[i], key, state, TRUE, deeper)
            IN  IF deeper - 1 > MaxNesting THEN sofar
                ELSE xkeymap_send_keys(typed, tr.seq[i], key, state, FALSE, deeper)
    IN  IF tr.seq = <<>> THEN SendKey(k, tr, pressed)
        ELSE IF pressed THEN FoldLeft(Element, k, [i \in DOMAIN tr.seq |-> i])
        ELSE k

-----------------------------------------------------------------------------
(* Events *)

\* The modifiers X reports: a bit for both Shifts, one for both Ctrls.
get_key_state(state, code) ==
    CASE code \in ShiftMask -> Has(state, ShiftMask)
      [] code \in CtrlMask -> Has(state, CtrlMask)
      [] OTHER -> code \in state

StateOf(held) == held \cap ModifierCodes

\* send_winkey
send_winkey(k, pressed, code) == rdp_send_scancode(k, pressed, code)

\* Keys that are not sent as the keymap says: {} for those that are.
SpecialKey(k, keysym, state, pressed) ==
    CASE keysym = "Return" /\ "LALT" \in state /\ Has(state, CtrlMask) -> {k}   \* xwin_toggle_fullscreen
      [] keysym = "Pause" -> {[k EXCEPT !.down = IF pressed THEN @ \cup {"LCTRL"} ELSE @ \ {"LCTRL"},
                                        !.astray = IF pressed = ("LCTRL" \in k.remote) THEN @ \ {"LCTRL"}
                                                   ELSE @ \cup {"LCTRL"}]}
      [] keysym = "Super_L" -> {send_winkey(k, pressed, "LWIN")}
      [] keysym = "Num_Lock" -> {IF g_numlock_sync /\ ~pressed THEN Synchronize(k, xnum) ELSE k}
      [] OTHER -> {}

handle_special_keys(k, keysym, state, pressed) == SpecialKey(k, keysym, state, pressed)

\* reset_winkey
reset_winkey(k) == rdp_send_scancode(k, FALSE, "LWIN")

\* reset_modifier_keys: one modifier after the other, then a SYNCHRONIZE with option -N.
reset_modifier_keys(k, state, num) ==
    LET gone == {m \in k.remote \cap (ModifierCodes \ {"LWIN", "RWIN"}) : ~get_key_state(state, m)}
        up == [k EXCEPT !.remote = @ \ gone, !.down = @ \ gone, !.astray = @ \ gone]
        won == reset_winkey(up)
    IN  IF g_numlock_sync THEN Synchronize(won, num) ELSE won

XKeysInit ==
    [remote |-> {}, down |-> {}, num |-> FALSE,
     astray |-> {},     \* modifiers of which the server was told something behind the back of remote
     typed |-> TRUE,    \* did the last key reach the server as it was meant?
     unseen |-> {}]     \* scan codes whose key went up without the server being told

XKeyboardInit ==
    /\ xkeys = XKeysInit
    /\ keypress_keysyms = [key \in XKeys |-> None]
    /\ xheld = {} /\ xnum \in BOOLEAN
    /\ g_focused = FALSE /\ g_numlock_sync \in BOOLEAN /\ breaks = 0

set_keypress_keysym(key, keysym) == keypress_keysyms' = [keypress_keysyms EXCEPT ![key] = keysym]

\* Mutant: the release goes by the keysym of the moment.
ReleaseAsNow(key, keysym) == keysym

\* reset_keypress_keysym
reset_keypress_keysym(key, keysym) == IF keypress_keysyms[key] = None THEN keysym ELSE keypress_keysyms[key]

\* KeyPress (X repeats a key as a release and a press).  With an input context,
\* Xlib may keep the key for itself (XFilterEvent, or no keysym yet).
KeyPress(key, composed) ==
    LET state == StateOf(xheld)
        keysym == KeysymOf(key, state, xnum)
        special == handle_special_keys(xkeys, keysym, state, TRUE)
    IN  /\ key \notin xheld /\ Cardinality(xheld) < MaxHeld
        /\ xheld' = xheld \cup {key}
        /\ xnum' = IF key = "Num_Lock" THEN ~xnum ELSE xnum
        /\ IF ~g_focused \/ composed THEN UNCHANGED <<xkeys, keypress_keysyms>>
           ELSE /\ set_keypress_keysym(key, keysym)
                /\ IF special # {} THEN xkeys' \in special
                   ELSE xkeys' = xkeymap_send_keys(xkeys, keysym, key, state, TRUE, 0)
        /\ UNCHANGED <<g_focused, g_numlock_sync, breaks>>

ScancodeOf(key, keysym) == xkeymap_translate_key(xkeys, keysym, key, {}).scancode

KeyRelease(key) ==
    LET state == StateOf(xheld)
        keysym == reset_keypress_keysym(key, KeysymOf(key, state, xnum))
        special == handle_special_keys(xkeys, keysym, state, FALSE)
        Unseen(k) == [k EXCEPT !.unseen = @ \cup {ScancodeOf(key, keypress_keysyms[key])}]
    IN  /\ key \in xheld
        /\ xheld' = xheld \ {key}
        /\ IF ~g_focused THEN xkeys' = Unseen(xkeys) /\ UNCHANGED keypress_keysyms
           ELSE /\ set_keypress_keysym(key, None)
                /\ IF special # {} THEN \E k \in special : xkeys' = IF keysym = "Return" THEN Unseen(k) ELSE k
                   ELSE xkeys' = xkeymap_send_keys(xkeys, keysym, key, state, FALSE, 0)
        /\ UNCHANGED <<xnum, g_focused, g_numlock_sync, breaks>>

\* FocusIn, FocusOut, not those of a grab
FocusIn ==
    /\ ~g_focused /\ g_focused' = TRUE
    /\ xkeys' = reset_modifier_keys(xkeys, StateOf(xheld), xnum)
    /\ UNCHANGED <<keypress_keysyms, xheld, xnum, g_numlock_sync, breaks>>

Break == breaks < MaxBreaks /\ breaks' = breaks + 1

FocusOut ==
    /\ g_focused /\ g_focused' = FALSE /\ Break
    /\ UNCHANGED <<xkeys, keypress_keysyms, xheld, xnum, g_numlock_sync>>

\* process_demand_active, at the start of a connection and after each deactivation
Activated ==
    /\ Break
    /\ xkeys' = Synchronize(xkeys, g_numlock_sync /\ xnum)
    /\ UNCHANGED <<keypress_keysyms, xheld, xnum, g_focused, g_numlock_sync>>

XKeyboardNext ==
    \/ \E key \in XKeys : \/ \E composed \in BOOLEAN : KeyPress(key, composed)
                          \/ KeyRelease(key)
    \/ FocusIn \/ FocusOut \/ Activated

-----------------------------------------------------------------------------
(* Properties *)

\* The last key that went down reached the server under the Shift, the AltGr
\* and (without option -N) the NumLock that the keymap asks for, whatever the
\* user holds, whatever went on while the focus was elsewhere.  Not promised:
\* with both Shifts down, of which one is let go, and while a SYNCHRONIZE
\* that remote_modifier_state knows nothing of has let go of a modifier.
TypedAsMeant == xkeys.typed

\* An ordinary key that is down at the server is one the user holds, under
\* the keysym it was pressed with, unless it went up unseen: keys are let go
\* as what they were pressed as, and sequences leave nothing down.
NothingStuck ==
    \A scancode \in xkeys.down \ ModifierCodes :
        \/ scancode \in xkeys.unseen
        \/ \E key \in xheld : ScancodeOf(key, keypress_keysyms[key]) = scancode

\* What rdp_send_scancode and the keymap are for: the server sees the keys
\* that were typed, as they were meant, and sees them go up.
KeysAsTyped == TypedAsMeant /\ NothingStuck
=============================================================================
