CONSTANTS
    Keys = {"ctrl", "enter", "caps", "a"}
    LockKeys = {"caps"}
    Chord = {"ctrl", "enter"}
    Enter = "enter"
    Slots = 3
    Windows = {1, 2, 3}
    GroupOf <- MCGroupOf
    MaxLines = 2
    MaxLocal = 2
    MaxChanges = 1
    MaxPending = 1
    Pasters = {"p", "q"}
    XKeys = {"LSHIFT", "LCTRL", "RALT", "a", "keypad", "eacute", "Num_Lock"}
    KeymapLines <- MCKeymapLines
    KeysymOf <- MCKeysymOf
    RawScancode <- MCRaw
    MaxNesting = 3
    MaxHeld = 2
    MaxBreaks = 1
    XWins = {1}
    XPlaces = {"p", "q"}
    MaxSteps = 4
SPECIFICATION FrontEndSpec
INVARIANTS
    
    WindowsMirror
    NobodyForgotten
    KeysAsTyped
    
PROPERTIES
    FocusReturns
CHECK_DEADLOCK FALSE
