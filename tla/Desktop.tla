------------------------------ MODULE Desktop ------------------------------
(***************************************************************************)
(* The desktop: the window registry (window.cpp), the taskbar and the      *)
(* start menu (GUI.cpp), the button registry (button.cpp) and the handler  *)
(* that turns mouse packets into presses, releases and drags               *)
(* (GUI_input.cpp).  Mouse, touchpad and keyboard handlers run with        *)
(* interrupts disabled, so each is one step.  gui holds the globals of     *)
(* these files; the functions of the code are operators on it.             *)
(*                                                                         *)
(* Where things are on the screen is left out: a pointer may be over any   *)
(* set of windows, and over any button or icon.                            *)
(***************************************************************************)
EXTENDS Integers, FiniteSets

CONSTANTS MAX_NUM_OF_WINDOWS,   \* slots of window_arr
          MAX_NUM_OF_BUTTONS,   \* slots of button_arr
          MaxObjects            \* bound: window objects alive at once

ASSUME DesktopAssumption ==
    {MAX_NUM_OF_WINDOWS, MAX_NUM_OF_BUTTONS, MaxObjects} \subseteq Nat \ {0}

NULL  == 0
Freed == -1    \* a pointer to an object that was freed
Boot  == -2    \* the console of the kernel itself, which has no window

Slots   == 1 .. MAX_NUM_OF_WINDOWS
Windows == 1 .. MaxObjects

VARIABLES gui,        \* the globals of the desktop
          edited,     \* a shell command opened a window since the left button went down
          undefined   \* a handler used memory that was freed: nothing more is said

vars == <<gui, edited, undefined>>

NoButton == [kind |-> "none", of |-> NULL]

Dead == [live |-> FALSE, active |-> FALSE, minimized |-> FALSE, type |-> "none"]

Live(g)       == {w \in Windows : g.windows[w].live}
Registered(g) == {w \in Windows : \E i \in Slots : g.window_arr[i] = w}
UsedSlots(g)  == {i \in Slots : g.window_arr[i] # NULL}

Lowest(S)  == CHOOSE i \in S : \A j \in S : i <= j
Highest(S) == CHOOSE i \in S : \A j \in S : j <= i

(***************************************************************************)
(* The active window; the callback of a console window (which runs once    *)
(* the window has its context) also makes its console the active one.      *)
(***************************************************************************)
\* Planted bug: the flag of the window that was active stays set.
set_active_xp_window_keep(g, win) ==
    [g EXCEPT !.active_xp_window = win,
              !.windows[win].active = TRUE,
              !.active_console = IF g.windows[win].type = "console" THEN win ELSE @]

\* Planted bug: the callback of the window is not run.
set_active_xp_window_silent(g, win) ==
    [g EXCEPT !.active_xp_window = win,
              !.windows = [w \in Windows |->
                  [g.windows[w] EXCEPT !.active =
                      IF w = win THEN TRUE ELSE @ /\ w \notin Registered(g)]]]

set_active_xp_window(g, win) ==
    [g EXCEPT !.active_xp_window = win,
              !.windows = [w \in Windows |->
                  [g.windows[w] EXCEPT !.active =
                      IF w = win THEN TRUE ELSE @ /\ w \notin Registered(g)]],
              !.active_console = IF g.windows[win].type = "console" THEN win ELSE @]

(***************************************************************************)
(* The taskbar frees its buttons and makes one per window; they are        *)
(* registered for hit-testing while button_arr, which holds the Start      *)
(* button already, has room.  button_arr is the set of slots whose taskbar *)
(* button is registered.                                                   *)
(***************************************************************************)
register_xp_button(g, i) ==
    Cardinality({j \in UsedSlots(g) : j <= i}) < MAX_NUM_OF_BUTTONS

taskbar_sync_windows(g) ==
    [g EXCEPT !.window_buttons = g.window_arr,
              !.button_arr = {i \in UsedSlots(g) : register_xp_button(g, i)},
              !.pressed_button = IF @.kind = "task" THEN [@ EXCEPT !.kind = "freed"] ELSE @]

create_xp_window(g, win) ==
    LET free == Slots \ UsedSlots(g)
        made == [g EXCEPT !.windows[win] = [Dead EXCEPT !.live = TRUE]]
    IN  taskbar_sync_windows(set_active_xp_window(
            IF free = {} THEN made ELSE [made EXCEPT !.window_arr[Lowest(free)] = win],
            win))

(***************************************************************************)
(* Opening an application: the window is created, then given its type and  *)
(* context, then activated again so that its callback runs.                *)
(***************************************************************************)
Unused(g) == Windows \ Live(g)

open_window(g, type) ==
    LET win == Lowest(Unused(g))
    IN  set_active_xp_window(
            [create_xp_window(g, win) EXCEPT !.windows[win].type = type], win)

Opened(g, types) == IF Unused(g) = {} THEN {} ELSE {open_window(g, t) : t \in types}

(***************************************************************************)
(* Closing frees the window with its context.  Then the first window left  *)
(* becomes the active one.                                                 *)
(***************************************************************************)
Remove(g, win) ==
    [g EXCEPT !.window_arr = [i \in Slots |-> IF @[i] = win THEN NULL ELSE @[i]],
              !.windows[win] = Dead,
              !.active_console = IF @ = win THEN Freed ELSE @]

\* Planted bug: the last window closed stays the active one.
promote_first_stale(g) ==
    IF UsedSlots(g) = {} THEN g
    ELSE set_active_xp_window(g, g.window_arr[Lowest(UsedSlots(g))])

promote_first(g) ==
    IF UsedSlots(g) = {} THEN [g EXCEPT !.active_xp_window = NULL]
    ELSE set_active_xp_window(g, g.window_arr[Lowest(UsedSlots(g))])

\* Planted bug: the taskbar is not told that the window is gone.
close_xp_window_no_sync(g, win) == promote_first(Remove(g, win))

close_xp_window(g, win) == promote_first(taskbar_sync_windows(Remove(g, win)))

minimize_xp_window(g, win) == [g EXCEPT !.windows[win].minimized = ~ @]

on_taskbar_window_click(g, win) ==
    [set_active_xp_window(g, win) EXCEPT !.windows[win].minimized = FALSE]

on_start_click(g) == [g EXCEPT !.g_start_menu_open = ~ @]

(***************************************************************************)
(* What a button does when it is released; maximizing only changes where   *)
(* the window is.                                                          *)
(***************************************************************************)
Fire(g, b) ==
    CASE b.kind = "start"    -> on_start_click(g)
      [] b.kind = "task"     -> on_taskbar_window_click(g, b.of)
      [] b.kind = "close"    -> close_xp_window(g, b.of)
      [] b.kind = "minimize" -> minimize_xp_window(g, b.of)
      [] OTHER               -> g

(***************************************************************************)
(* The window a press goes to: the active one if the pointer is over it,   *)
(* else the one in the last slot that the pointer is over.                 *)
(***************************************************************************)
get_window_at(g, over) ==
    LET hit == {i \in UsedSlots(g) : g.window_arr[i] \in over}
        act == {i \in hit : g.windows[g.window_arr[i]].active}
    IN  CASE act # {} -> g.window_arr[Lowest(act)]
          [] act = {} /\ hit # {} -> g.window_arr[Highest(hit)]
          [] OTHER -> NULL

(***************************************************************************)
(* The start menu, if open, sees the pointer first.  A press outside it    *)
(* closes it and goes on to what is below; a press on an item opens an     *)
(* application, and a pointer inside the menu reaches nothing else.        *)
(***************************************************************************)
StartItems == {"console", "explorer", "app"}

\* Planted bug: a press outside the menu leaves it open.
start_menu_outside_keep(g, clicked) == g

start_menu_outside(g, clicked) == [g EXCEPT !.g_start_menu_open = @ /\ ~ clicked]

start_menu_inside(g, clicked) ==
    {g} \cup (IF clicked THEN Opened([g EXCEPT !.g_start_menu_open = FALSE], StartItems)
              ELSE {})

(***************************************************************************)
(* A left press.  In the client area of a file explorer it may open an     *)
(* image in a window of its own.                                           *)
(***************************************************************************)
TitleButtons == {"close", "maximize", "minimize"}

press_window(g, win) ==
    LET s == set_active_xp_window(g, win)
    IN  {[s EXCEPT !.pressed_button = [kind |-> k, of |-> win]] : k \in TitleButtons}
        \cup {[s EXCEPT !.grabbed_window = win]}
        \cup {s}
        \cup (IF g.windows[win].type = "explorer" THEN Opened(s, {"app"}) ELSE {})

press_desktop(g) ==
    {g}
    \cup {[g EXCEPT !.pressed_button = [kind |-> "start", of |-> NULL]]}
    \cup {[g EXCEPT !.pressed_button = [kind |-> "task", of |-> g.window_buttons[i]]] :
             i \in g.button_arr}
    \cup {[g EXCEPT !.pressed_icon = icon] : icon \in StartItems}

LeftPress(g, over) ==
    LET win == get_window_at(g, over)
    IN  IF win # NULL /\ ~ g.windows[win].minimized
        THEN press_window(g, win) ELSE press_desktop(g)

RightPress(g, over) ==
    LET win == get_window_at(g, over)
    IN  IF win # NULL /\ ~ g.windows[win].minimized
        THEN set_active_xp_window(g, win) ELSE g

(***************************************************************************)
(* A left release fires the button pressed before, wherever the pointer    *)
(* is, and the icon pressed before if the pointer is still over it.        *)
(***************************************************************************)
LeftRelease(g) ==
    LET r == [g EXCEPT !.grabbed_window = NULL]
        f == [Fire(r, r.pressed_button) EXCEPT !.pressed_button = NoButton]
        d == [f EXCEPT !.pressed_icon = "none"]
    IN  {d} \cup (IF f.pressed_icon = "none" THEN {} ELSE Opened(d, {f.pressed_icon}))

(***************************************************************************)
(* GUI_input_loop, for a packet with the given state of the two buttons    *)
(* and the pointer over the given windows.                                 *)
(***************************************************************************)
down(g, left)        == left /\ ~ g.old_clickedLeft
up(g, left)          == ~ left /\ g.old_clickedLeft
down_right(g, right) == right /\ ~ g.old_clickedRight

mouse_update(g, left, right) ==
    [g EXCEPT !.old_clickedLeft = left, !.old_clickedRight = right]

Below(g, left, right, over) ==
    LET pressed == IF down(g, left) THEN LeftPress(g, over) ELSE {g}
        righted == IF down_right(g, right) THEN {RightPress(h, over) : h \in pressed}
                   ELSE pressed
    IN  IF up(g, left) THEN UNION {LeftRelease(h) : h \in righted} ELSE righted

GUI_input_loop(g, left, right, over) ==
    LET inside == IF g.g_start_menu_open THEN start_menu_inside(g, down(g, left)) ELSE {}
        below  == Below(start_menu_outside(g, down(g, left)), left, right, over)
    IN  {mouse_update(h, left, right) : h \in inside \cup below}

UsesFreedButton(left) == up(gui, left) /\ gui.pressed_button.kind = "freed"

mouse(left, right) ==
    /\ ~ undefined
    /\ IF UsesFreedButton(left)
       THEN undefined' = TRUE /\ UNCHANGED <<gui, edited>>
       ELSE /\ \E over \in SUBSET Windows : gui' \in GUI_input_loop(gui, left, right, over)
            /\ edited' = (edited /\ left)
            /\ UNCHANGED undefined

(***************************************************************************)
(* The keyboard: keys go to the application of the active window, or else  *)
(* to the active console, whose shell can open a text editor.              *)
(***************************************************************************)
ToConsole(g) ==
    g.active_xp_window \notin {w \in Windows : g.windows[w].type \notin {"console", "none"}}

keyboard_handler ==
    /\ ~ undefined
    /\ ToConsole(gui)
    /\ IF gui.active_console = Freed
       THEN undefined' = TRUE /\ UNCHANGED <<gui, edited>>
       ELSE /\ gui' \in Opened(gui, {"app"})
            /\ edited' = gui.old_clickedLeft
            /\ UNCHANGED undefined

Init ==
    /\ gui = [window_arr        |-> [i \in Slots |-> NULL],
              windows           |-> [w \in Windows |-> Dead],
              active_xp_window  |-> NULL,
              active_console    |-> Boot,
              window_buttons    |-> [i \in Slots |-> NULL],
              button_arr        |-> {},
              pressed_button    |-> NoButton,
              grabbed_window    |-> NULL,
              pressed_icon      |-> "none",
              g_start_menu_open |-> FALSE,
              old_clickedLeft   |-> FALSE,
              old_clickedRight  |-> FALSE]
    /\ edited = FALSE
    /\ undefined = FALSE

Next ==
    \/ \E left, right \in BOOLEAN : mouse(left, right)
    \/ keyboard_handler

Spec == Init /\ [][Next]_vars

-----------------------------------------------------------------------------
(***************************************************************************)
(* Types of the desktop's globals.                                         *)
(***************************************************************************)
WindowTypes == StartItems \cup {"none"}

Gui ==
    [window_arr        : [Slots -> Windows \cup {NULL}],
     windows           : [Windows -> [live : BOOLEAN, active : BOOLEAN,
                                      minimized : BOOLEAN, type : WindowTypes]],
     active_xp_window  : Windows \cup {NULL},
     active_console    : Windows \cup {Boot, Freed},
     window_buttons    : [Slots -> Windows \cup {NULL}],
     button_arr        : SUBSET Slots,
     pressed_button    : [kind : TitleButtons \cup {"none", "start", "task", "freed"},
                          of : Windows \cup {NULL}],
     grabbed_window    : Windows \cup {NULL},
     pressed_icon      : WindowTypes,
     g_start_menu_open : BOOLEAN,
     old_clickedLeft   : BOOLEAN,
     old_clickedRight  : BOOLEAN]

TypeOK == gui \in Gui /\ edited \in BOOLEAN /\ undefined \in BOOLEAN

(***************************************************************************)
(* No global of the desktop points at a closed window: the registry, the   *)
(* active window, a grabbed window and the window of a pressed button are  *)
(* alive, and no window is registered twice (close_xp_window).             *)
(***************************************************************************)
RegistryLive(g) ==
    /\ \A i \in Slots : g.window_arr[i] # NULL => g.windows[g.window_arr[i]].live
    /\ \A i, j \in Slots : g.window_arr[i] = g.window_arr[j] /\ g.window_arr[i] # NULL => i = j

PointersLive(g) ==
    /\ g.active_xp_window # NULL => g.windows[g.active_xp_window].live
    /\ g.grabbed_window # NULL => g.windows[g.grabbed_window].live
    /\ g.pressed_button.kind \in TitleButtons \cup {"task"} =>
          g.pressed_button.of # NULL /\ g.windows[g.pressed_button.of].live

NoClosedWindowReferenced == RegistryLive(gui) /\ PointersLive(gui)

(***************************************************************************)
(* The renderer skips windows whose flag is set and draws active_xp_window *)
(* last: exactly the active window carries the flag, and there is an       *)
(* active window while any is registered, so no window is drawn twice or   *)
(* left out (draw_all_xp_windows_but_active, draw_active_xp_window).       *)
(***************************************************************************)
Activity(g) ==
    /\ \A w \in Registered(g) : g.windows[w].active <=> w = g.active_xp_window
    /\ Registered(g) # {} => g.active_xp_window # NULL

OneActiveWindow == TypeOK /\ Activity(gui)

(***************************************************************************)
(* The taskbar has a button for exactly the registered windows, each       *)
(* pointing at its window; all of them can be clicked while button_arr     *)
(* has room, so that a minimized window can be brought back.               *)
(***************************************************************************)
Mirror(g) ==
    /\ g.window_buttons = g.window_arr
    /\ g.button_arr \subseteq UsedSlots(g)

TaskbarMirrorsWindows ==
    /\ Mirror(gui)
    /\ Cardinality(UsedSlots(gui)) < MAX_NUM_OF_BUTTONS =>
          gui.button_arr = UsedSlots(gui)

(***************************************************************************)
(* While a console window is active, what is typed reaches that console,   *)
(* whatever was closed or opened before (Console_set_active).              *)
(***************************************************************************)
Typing(g) ==
    g.active_xp_window # NULL /\ g.windows[g.active_xp_window].type = "console" =>
        g.active_console = g.active_xp_window

KeysReachActiveConsole == Typing(gui)

(***************************************************************************)
(* At most one thing is held, only while the left button is down, and      *)
(* nothing while the start menu is open: the Start button cannot close the *)
(* menu, and no press survives its release (GUI_input_loop).  A pressed    *)
(* taskbar button is freed under the mouse only when a shell command opens *)
(* a window before the release: no sequence of mouse packets does it       *)
(* (taskbar_sync_windows).                                                 *)
(***************************************************************************)
Holding(g) == {k \in {"button", "window", "icon"} :
                  CASE k = "button" -> g.pressed_button # NoButton
                    [] k = "window" -> g.grabbed_window # NULL
                    [] k = "icon"   -> g.pressed_icon # "none"}

PressProtocol ==
    /\ \A k, l \in Holding(gui) : k = l
    /\ Holding(gui) # {} => gui.old_clickedLeft /\ ~ gui.g_start_menu_open
    /\ gui.pressed_button.kind = "freed" => edited
=============================================================================
