----------------------------- MODULE MCFrontEnd -----------------------------
(***************************************************************************)
(* The instance of Keyboard, Seamless, XClipboard, XKeyboard and XWindows  *)
(* for TLC.  These parts of the front ends share no state, so a behaviour  *)
(* is one of a single part.                                                *)
(*                                                                         *)
(* Four keys: one that turns over a lock, the chord that toggles full      *)
(* screen, here of two keys, and an ordinary one; a table of three, so     *)
(* that it can overflow.  Three windows in two groups, two lines on their  *)
(* way.  Two local programs that paste, one change of owner, and a server  *)
(* that asks when nothing else is on its way.  Seven X keys, two of them   *)
(* held at a time: two modifiers, AltGr, a key of the keypad, NumLock, one *)
(* that is typed as a sequence; a keymap with addupper, localstate and     *)
(* inhibit lines.  One X window and two places for it.  What varies at the *)
(* start of one part is fixed in the behaviours of another.                *)
(***************************************************************************)
EXTENDS Keyboard, Seamless, XClipboard, XKeyboard, XWindows

MCGroupOf == [w \in Windows |-> IF w = 3 THEN "other" ELSE "group"]

MCKeysymOf(key, state, num) ==
    CASE key = "a" -> IF state \cap {"LSHIFT", "RSHIFT"} # {} THEN "A" ELSE IF "RALT" \in state THEN "ae" ELSE "a"
      [] key = "keypad" -> IF num THEN "KP_0" ELSE "KP_Insert"
      [] OTHER -> key

KeymapLine(keysym, scancode, flags) == [keysym |-> keysym, scancode |-> scancode, flags |-> flags, sequence |-> <<>>]

MCKeymapLines == <<
    KeymapLine("LSHIFT", "LSHIFT", {}), KeymapLine("RSHIFT", "RSHIFT", {}), KeymapLine("LCTRL", "LCTRL", {}),
    KeymapLine("LALT", "LALT", {}), KeymapLine("RALT", "RALT", {}),
    KeymapLine("a", "0x1e", {"addupper"}), KeymapLine("ae", "0x28", {"RALT"}),
    KeymapLine("KP_0", "0x52", {"NUMLOCK"}), KeymapLine("KP_Insert", "0x52", {}), KeymapLine("Return", "0x1c", {"localstate"}),
    KeymapLine("dead_acute", "0x0d", {"inhibit"}), KeymapLine("dead_acute", "0x0d", {"LSHIFT"}),
    [keysym |-> "eacute", scancode |-> None, flags |-> {}, sequence |-> <<"dead_acute", "a">>],
    [keysym |-> "caron", scancode |-> None, flags |-> {}, sequence |-> <<"dead_acute", None>>] >>

MCRaw == [key \in {"caron", "a"} |-> "0x2b"]

VARIABLE part

FrontEndInit ==
    /\ part \in {"keyboard", "seamless", "clipboard", "xkeyboard", "xwindows"}
    /\ KeyboardInit /\ SeamlessInit /\ XclipInit /\ XKeyboardInit /\ XWindowsInit
    /\ part = "keyboard" \/ (locks = {} /\ keyboard.on = {})
    /\ part = "seamless" \/ serverHidden
    /\ part = "clipboard" \/ owner = [selection \in Selections |-> "self"]
    /\ part = "xkeyboard" \/ (xnum /\ g_numlock_sync)
    /\ part = "xwindows" \/ remoteHidden

FrontEndNext ==
    /\ UNCHANGED part
    /\ \/ /\ part = "keyboard" /\ KeyboardNext
          /\ UNCHANGED <<seamlessVars, xclipVars, xkeyboardVars, xwindowVars>>
       \/ /\ part = "seamless" /\ SeamlessNext
          /\ UNCHANGED <<keyboardVars, xclipVars, xkeyboardVars, xwindowVars>>
       \/ /\ part = "clipboard" /\ XclipNext
          /\ UNCHANGED <<keyboardVars, seamlessVars, xkeyboardVars, xwindowVars>>
       \/ /\ part = "xkeyboard" /\ XKeyboardNext
          /\ UNCHANGED <<keyboardVars, seamlessVars, xclipVars, xwindowVars>>
       \/ /\ part = "xwindows" /\ XWindowsNext
          /\ UNCHANGED <<keyboardVars, seamlessVars, xclipVars, xkeyboardVars>>

FrontEndSpec ==
    FrontEndInit
    /\ [][FrontEndNext]_<<part, keyboardVars, seamlessVars, xclipVars, xkeyboardVars, xwindowVars>>
=============================================================================
