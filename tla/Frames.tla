------------------------------- MODULE Frames -------------------------------
(***************************************************************************)
(* Rendering: the kernel's main loop draws a frame into the back buffer    *)
(* (frame_loop, render_xp_desktop); the timer interrupt copies a finished  *)
(* frame to the screen and counts it (timer_irq_0).  Mouse and keyboard    *)
(* interrupts open, close and activate windows between any two steps of    *)
(* the drawing.  Both sides share frame_ready, GUI_frame and the window    *)
(* registry, without a lock.                                               *)
(*                                                                         *)
(* A window is alive exactly while it is registered, and the active flag   *)
(* is that of active_xp_window (module Desktop).                           *)
(***************************************************************************)
EXTENDS Naturals, Sequences, FiniteSets, Functions

CONSTANTS Windows,              \* window objects
          NULL,
          MAX_NUM_OF_WINDOWS,
          FrameRange            \* values of the uint64_t GUI_frame: 2^64 in the code

ASSUME FramesAssumption ==
    /\ MAX_NUM_OF_WINDOWS \in Nat \ {0}
    /\ FrameRange \in Nat \ {0, 1, 2}
    /\ NULL \notin Windows

VARIABLES GUI_frame, last_frame_time, frame_ready,
          current_frame_time,        \* what frame_loop read
          mainPc,                    \* where the main loop is
          index,                     \* i of draw_all_xp_windows_but_active
          win,                       \* the window being drawn
          window_arr, active_xp_window,
          \* history of the frame being drawn
          drawn, closed, disturbed,
          \* history of the frames: is the finished one the work of
          \* render_xp_desktop, and how many such were overwritten unseen
          rendered, dropped

framesVars == <<GUI_frame, last_frame_time, frame_ready, current_frame_time, mainPc, index,
                win, window_arr, active_xp_window, drawn, closed, disturbed, rendered, dropped>>

clock   == <<GUI_frame, last_frame_time, frame_ready, current_frame_time>>
windows == <<window_arr, active_xp_window>>
history == <<closed, disturbed, rendered, dropped>>

Slots      == 1 .. MAX_NUM_OF_WINDOWS
Registered == {w \in Windows : \E s \in Slots : window_arr[s] = w}
Counter    == 0 .. (FrameRange - 1)
Succ(n)    == (n + 1) % FrameRange

\* dropped counts to this bound and stays there
MaxDropped == 2

FramesInit ==
    /\ GUI_frame = 1
    /\ last_frame_time = 0
    /\ frame_ready = TRUE
    /\ current_frame_time = 0
    /\ mainPc = "check"
    /\ index = 1
    /\ win = NULL
    /\ window_arr = [s \in Slots |-> NULL]
    /\ active_xp_window = NULL
    /\ drawn = << >>
    /\ closed = {}
    /\ disturbed = FALSE
    /\ rendered = FALSE
    /\ dropped = 0

-----------------------------------------------------------------------------
(***************************************************************************)
(* The main loop.                                                          *)
(***************************************************************************)
get_frame_time ==
    /\ mainPc = "check"
    /\ current_frame_time' = GUI_frame
    /\ mainPc' = "compare"
    /\ UNCHANGED <<GUI_frame, last_frame_time, frame_ready, index, win, windows, drawn, history>>

\* Planted bug: a frame is rendered whether or not the last one was shown.
frame_loop_always ==
    /\ mainPc = "compare"
    /\ last_frame_time' = current_frame_time
    /\ mainPc' = "begin"
    /\ UNCHANGED <<GUI_frame, frame_ready, current_frame_time, index, win, windows, drawn, history>>

frame_loop ==
    /\ mainPc = "compare"
    /\ IF current_frame_time # last_frame_time
       THEN last_frame_time' = current_frame_time /\ mainPc' = "begin"
       ELSE mainPc' = "check" /\ UNCHANGED last_frame_time
    /\ UNCHANGED <<GUI_frame, frame_ready, current_frame_time, index, win, windows, drawn, history>>

\* Planted bug: the frame being drawn is not marked unfinished.
render_begin_ready ==
    /\ mainPc = "begin"
    /\ index' = 1
    /\ mainPc' = "windows"
    /\ drawn' = << >>
    /\ closed' = {}
    /\ disturbed' = FALSE
    /\ UNCHANGED <<clock, win, windows, rendered, dropped>>

render_begin ==
    /\ mainPc = "begin"
    /\ frame_ready' = FALSE
    /\ index' = 1
    /\ mainPc' = "windows"
    /\ drawn' = << >>
    /\ closed' = {}
    /\ disturbed' = FALSE
    /\ dropped' = IF frame_ready /\ rendered /\ dropped < MaxDropped THEN dropped + 1 ELSE dropped
    /\ UNCHANGED <<GUI_frame, last_frame_time, current_frame_time, win, windows, rendered>>

(***************************************************************************)
(* One iteration of draw_all_xp_windows_but_active: the pointer is read    *)
(* before the window is drawn, and an interrupt may come in between.       *)
(***************************************************************************)
\* Planted bug: the active window is drawn with the others.
draw_all_xp_windows ==
    /\ mainPc = "windows"
    /\ index <= MAX_NUM_OF_WINDOWS
    /\ IF window_arr[index] = NULL
       THEN index' = index + 1 /\ UNCHANGED <<mainPc, win>>
       ELSE win' = window_arr[index] /\ mainPc' = "draw_window" /\ UNCHANGED index
    /\ UNCHANGED <<clock, windows, drawn, history>>

draw_all_xp_windows_but_active ==
    /\ mainPc = "windows"
    /\ index <= MAX_NUM_OF_WINDOWS
    /\ IF window_arr[index] \in {NULL, active_xp_window}
       THEN index' = index + 1 /\ UNCHANGED <<mainPc, win>>
       ELSE win' = window_arr[index] /\ mainPc' = "draw_window" /\ UNCHANGED index
    /\ UNCHANGED <<clock, windows, drawn, history>>

draw_xp_window ==
    /\ mainPc = "draw_window"
    /\ drawn' = Append(drawn, win)
    /\ index' = index + 1
    /\ mainPc' = "windows"
    /\ UNCHANGED <<clock, win, windows, history>>

draw_active_xp_window ==
    /\ mainPc = "windows"
    /\ index > MAX_NUM_OF_WINDOWS
    /\ IF active_xp_window = NULL
       THEN mainPc' = "overlay" /\ UNCHANGED win
       ELSE mainPc' = "draw_active" /\ win' = active_xp_window
    /\ UNCHANGED <<clock, index, windows, drawn, history>>

draw_active ==
    /\ mainPc = "draw_active"
    /\ drawn' = Append(drawn, win)
    /\ mainPc' = "overlay"
    /\ UNCHANGED <<clock, index, win, windows, history>>

\* panels, taskbar, start menu and cursor; then the frame is finished
render_end ==
    /\ mainPc = "overlay"
    /\ frame_ready' = TRUE
    /\ rendered' = TRUE
    /\ mainPc' = "check"
    /\ UNCHANGED <<GUI_frame, last_frame_time, current_frame_time, index, win, windows, drawn,
                   closed, disturbed, dropped>>

main ==
    \/ get_frame_time \/ frame_loop \/ render_begin \/ draw_all_xp_windows_but_active
    \/ draw_xp_window \/ draw_active_xp_window \/ draw_active \/ render_end

-----------------------------------------------------------------------------
(***************************************************************************)
(* The interrupts.                                                         *)
(***************************************************************************)
\* Planted bug: the frame is shown and not counted.
timer_irq_0_uncounted ==
    /\ frame_ready
    /\ frame_ready' = FALSE
    /\ UNCHANGED <<GUI_frame, last_frame_time, current_frame_time, mainPc, index, win, windows,
                   drawn, history>>

\* With no frame ready the interrupt does nothing here.
timer_irq_0 ==
    /\ frame_ready
    /\ frame_ready' = FALSE
    /\ GUI_frame' = Succ(GUI_frame)
    /\ UNCHANGED <<last_frame_time, current_frame_time, mainPc, index, win, windows, drawn,
                   history>>

irq_open ==
    /\ \E w \in Windows \ Registered, s \in Slots :
          /\ window_arr[s] = NULL
          /\ \A t \in 1 .. (s - 1) : window_arr[t] # NULL
          /\ window_arr' = [window_arr EXCEPT ![s] = w]
          /\ active_xp_window' = w
    /\ disturbed' = TRUE
    /\ UNCHANGED <<clock, mainPc, index, win, drawn, closed, rendered, dropped>>

First(arr) ==
    LET taken == {s \in Slots : arr[s] # NULL}
    IN  IF taken = {} THEN NULL ELSE arr[CHOOSE s \in taken : \A t \in taken : s <= t]

\* Planted bug: the closed window stays the active one.
irq_close_stale ==
    /\ \E s \in Slots :
          /\ window_arr[s] # NULL
          /\ window_arr' = [window_arr EXCEPT ![s] = NULL]
          /\ closed' = closed \cup {window_arr[s]}
    /\ disturbed' = TRUE
    /\ UNCHANGED <<clock, mainPc, index, win, drawn, active_xp_window, rendered, dropped>>

irq_close ==
    /\ \E s \in Slots :
          /\ window_arr[s] # NULL
          /\ window_arr' = [window_arr EXCEPT ![s] = NULL]
          /\ closed' = closed \cup {window_arr[s]}
          /\ active_xp_window' = First(window_arr')
    /\ disturbed' = TRUE
    /\ UNCHANGED <<clock, mainPc, index, win, drawn, rendered, dropped>>

irq_activate ==
    /\ \E w \in Registered : active_xp_window' = w
    /\ disturbed' = TRUE
    /\ UNCHANGED <<clock, mainPc, index, win, window_arr, drawn, closed, rendered, dropped>>

FramesNext == main \/ timer_irq_0 \/ irq_open \/ irq_close \/ irq_activate

(***************************************************************************)
(* Handlers end and return to the main loop, which runs for ever, and the  *)
(* timer is periodic.                                                      *)
(***************************************************************************)
FramesSpec ==
    FramesInit /\ [][FramesNext]_framesVars /\ WF_framesVars(main) /\ WF_framesVars(timer_irq_0)

-----------------------------------------------------------------------------
(***************************************************************************)
(* Types of the renderer's state.                                          *)
(***************************************************************************)
FramesTypeOK ==
    /\ {GUI_frame, last_frame_time, current_frame_time} \subseteq Counter
    /\ {frame_ready, disturbed, rendered} \subseteq BOOLEAN
    /\ mainPc \in {"check", "compare", "begin", "windows", "draw_window", "draw_active", "overlay"}
    /\ index \in 1 .. (MAX_NUM_OF_WINDOWS + 1)
    /\ mainPc = "draw_window" => index \in Slots
    /\ mainPc \in {"draw_window", "draw_active"} => win # NULL
    /\ {win, active_xp_window} \subseteq Windows \cup {NULL}
    /\ window_arr \in [Slots -> Windows \cup {NULL}]
    /\ drawn \in Seq(Windows)
    /\ closed \subseteq Windows
    /\ dropped \in 0 .. MaxDropped

(***************************************************************************)
(* No tearing: a frame is offered to the timer interrupt only while the    *)
(* main loop is not drawing (frame_ready in render_xp_desktop).            *)
(***************************************************************************)
Drawing == mainPc \in {"windows", "draw_window", "draw_active", "overlay"}

CopiesWholeFrames == frame_ready => ~ Drawing

(***************************************************************************)
(* The loop waits for the screen: of all the frames rendered, at most one, *)
(* the first, is overwritten before it was shown.                          *)
(***************************************************************************)
AtMostOneFrameLost == dropped <= 1

(***************************************************************************)
(* A frame during which no interrupt touched the windows shows every       *)
(* window once, the active one last, on top of the others.                 *)
(***************************************************************************)
UndisturbedFrameIsWhole ==
    mainPc = "overlay" /\ ~ disturbed =>
        /\ IsInjective(drawn)
        /\ Range(drawn) = Registered
        /\ active_xp_window # NULL => drawn[Len(drawn)] = active_xp_window

(***************************************************************************)
(* The drawing code holds a pointer over interrupts, so it may draw a      *)
(* window that was freed; but only one closed during this very frame: no   *)
(* dangling pointer outlives the frame in which its window was closed.     *)
(***************************************************************************)
StaleOnlyWithinFrame ==
    mainPc \in {"draw_window", "draw_active"} /\ win \notin Registered => win \in closed

(***************************************************************************)
(* The screen never freezes: frames are shown again and again, also when   *)
(* the frame counter wraps (frame_loop and timer_irq_0 wait for each       *)
(* other).                                                                 *)
(***************************************************************************)
FramesKeepComing == []<><<timer_irq_0>>_framesVars
=============================================================================
