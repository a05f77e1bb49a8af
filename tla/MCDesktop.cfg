\* one window more than slots, and one slot more than there is room for
\* taskbar buttons beside the Start button
CONSTANTS
    MAX_NUM_OF_WINDOWS = 2
    MAX_NUM_OF_BUTTONS = 2
    MaxObjects = 3
SPECIFICATION Spec
CHECK_DEADLOCK FALSE
INVARIANTS
    NoClosedWindowReferenced
    OneActiveWindow
    TaskbarMirrorsWindows
    KeysReachActiveConsole
    PressProtocol
