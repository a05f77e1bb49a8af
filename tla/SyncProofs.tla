----------------------------- MODULE SyncProofs -----------------------------
(***************************************************************************)
(* How the tasks and the handlers of the kernel wait for each other: the   *)
(* main loop and the timer interrupt hand over whole frames, no wake-up of *)
(* a futex is lost, the counting lock of Spinlock excludes, for every set  *)
(* of tasks, and so does the lock of the heap, for every set of pages.     *)
(* All of them test a word and act on it in two steps, so each proof needs *)
(* what keeps the others out in between.                                   *)
(***************************************************************************)
EXTENDS HeapLock, Frames, Futex, FiniteSetTheorems, NaturalsInduction, WellFoundedInduction,
        TLAPS

-----------------------------------------------------------------------------
\* A set of natural numbers has a least element.
LEMMA LeastExists ==
  ASSUME NEW S \in SUBSET Nat, S # {}
  PROVE  \E s \in S : \A t \in S : s <= t
<1>1. PICK s \in S : \A t \in S : ~ (<<t, s>> \in OpToRel(<, Nat))
  BY NatLessThanWellFounded, WFMin, Zenon
<1>2. ASSUME NEW t \in S PROVE s <= t
  <2>1. ~ (<<t, s>> \in {p \in Nat \X Nat : p[1] < p[2]})
    BY <1>1, Zenon DEF OpToRel
  <2> QED
    BY <2>1
<1> QED
  BY <1>2, Zenon

\* A property of the numbers of an interval, from each to the next.
LEMMA IntervalInduction ==
  ASSUME NEW hi \in Nat, NEW P \in SUBSET (0 .. hi), 0 \in P,
         \A k \in P : k < hi => k + 1 \in P
  PROVE  P = 0 .. hi
<1> DEFINE Missing == (0 .. hi) \ P
<1>1. SUFFICES ASSUME Missing # {} PROVE FALSE
  BY Zenon
<1>2. Missing \in SUBSET Nat
  OBVIOUS
<1>3. PICK m \in Missing : \A t \in Missing : m <= t
  <2> HIDE DEF Missing
  <2> QED
    BY <1>1, <1>2, LeastExists, Zenon
<1>4. m \in 0 .. hi /\ m \notin P /\ m # 0
  BY Zenon
<1>5. m - 1 \in 0 .. hi /\ m - 1 < hi /\ (m - 1) + 1 = m /\ ~ (m <= m - 1)
  BY <1>4
<1>6. m - 1 \in P
  BY <1>3, <1>5, Zenon
<1> QED
  BY <1>4, <1>5, <1>6, Zenon

-----------------------------------------------------------------------------
(***************************************************************************)
(* Frames, for any set of windows, any number of slots and any range of    *)
(* the frame counter.  The liveness property is left to TLC.               *)
(***************************************************************************)

(***************************************************************************)
(* The successor of a frame number is the next, or 0 after the last.       *)
(***************************************************************************)
LEMMA SuccIs ==
    ASSUME NEW n \in Counter
    PROVE  /\ Succ(n) = IF n + 1 = FrameRange THEN 0 ELSE n + 1
           /\ Succ(n) \in Counter
  BY FramesAssumption DEF Succ, Counter

(***************************************************************************)
(* So two steps of the counter are told apart by frame_loop's comparison.  *)
(***************************************************************************)
LEMMA SuccDiffers ==
    ASSUME NEW n \in Counter
    PROVE  /\ Succ(n) # n
           /\ Succ(Succ(n)) \in Counter
           /\ Succ(Succ(n)) # n
           /\ Succ(Succ(n)) # Succ(n)
<1>1. Succ(n) \in Counter /\ Succ(n) = IF n + 1 = FrameRange THEN 0 ELSE n + 1
    BY SuccIs, Zenon
<1>2. /\ Succ(Succ(n)) = IF Succ(n) + 1 = FrameRange THEN 0 ELSE Succ(n) + 1
      /\ Succ(Succ(n)) \in Counter
    BY <1>1, SuccIs, Zenon
<1> QED
    BY <1>1, <1>2, FramesAssumption DEF Counter

(***************************************************************************)
(* The first window left after a close is a registered one.                *)
(***************************************************************************)
LEMMA FirstIs ==
    ASSUME NEW arr \in [Slots -> Windows \cup {NULL}]
    PROVE  First(arr) = NULL \/ \E s \in Slots : First(arr) = arr[s] /\ arr[s] # NULL
<1> DEFINE taken == {s \in Slots : arr[s] # NULL}
<1>1. CASE taken = {}
    BY <1>1, Zenon DEF First
<1>2. CASE taken # {}
  <2>1. taken \in SUBSET Nat
    BY FramesAssumption DEF Slots
  <2>2. \E s \in taken : \A t \in taken : s <= t
    BY <1>2, <2>1, LeastExists, Zenon
  <2> DEFINE least == CHOOSE s \in taken : \A t \in taken : s <= t
  <2>3. least \in taken
    BY <2>2, Zenon
  <2>4. First(arr) = arr[least]
    BY <1>2, Zenon DEF First
  <2> QED
    BY <2>3, <2>4, Zenon
<1> QED
    BY <1>1, <1>2, Zenon

-----------------------------------------------------------------------------
(***************************************************************************)
(* The type invariant is preserved by every step.                          *)
(***************************************************************************)
LEMMA TypeStep ==
    FramesTypeOK /\ [FramesNext]_framesVars => FramesTypeOK'
<1> SUFFICES ASSUME FramesTypeOK, [FramesNext]_framesVars PROVE FramesTypeOK'
    BY Zenon
<1> USE FramesAssumption DEF FramesTypeOK, Slots, Counter, MaxDropped, clock, windows, history
<1>1. CASE get_frame_time
    BY <1>1, Zenon DEF get_frame_time
<1>2. CASE frame_loop
    BY <1>2, Zenon DEF frame_loop
<1>3. CASE render_begin
  <2>1. dropped' \in 0 .. MaxDropped
    BY <1>3 DEF render_begin
  <2>2. frame_ready' \in BOOLEAN /\ rendered' \in BOOLEAN /\ disturbed' \in BOOLEAN
    BY <1>3, Zenon DEF render_begin
  <2>3. drawn' \in Seq(Windows)
    BY <1>3 DEF render_begin
  <2> QED
    BY <1>3, <2>1, <2>2, <2>3 DEF render_begin
<1>4. CASE draw_all_xp_windows_but_active
    BY <1>4 DEF draw_all_xp_windows_but_active
<1>5. CASE draw_xp_window
  <2>1. win \in Windows
    BY <1>5, Zenon DEF draw_xp_window
  <2> QED
    BY <1>5, <2>1 DEF draw_xp_window
<1>6. CASE draw_active_xp_window
    BY <1>6, Zenon DEF draw_active_xp_window
<1>7. CASE draw_active
  <2>1. win \in Windows
    BY <1>7, Zenon DEF draw_active
  <2> QED
    BY <1>7, <2>1 DEF draw_active
<1>8. CASE render_end
    BY <1>8, Zenon DEF render_end
<1>9. CASE timer_irq_0
  <2>1. GUI_frame' \in Counter
    BY <1>9, SuccIs, Zenon DEF timer_irq_0
  <2> QED
    BY <1>9, <2>1, Zenon DEF timer_irq_0
<1>10. CASE irq_open
    BY <1>10 DEF irq_open
<1>11. CASE irq_close
  <2>1. window_arr' \in [Slots -> Windows \cup {NULL}]
    BY <1>11, Zenon DEF irq_close
  <2>2. First(window_arr') \in Windows \cup {NULL}
    BY <2>1, FirstIs, Zenon
  <2> QED
    BY <1>11, <2>1, <2>2 DEF irq_close
<1>12. CASE irq_activate
    BY <1>12, Zenon DEF irq_activate, Registered
<1>13. CASE UNCHANGED framesVars
    BY <1>13, Zenon DEF framesVars
<1> QED
    BY <1>1, <1>2, <1>3, <1>4, <1>5, <1>6, <1>7, <1>8, <1>9, <1>10, <1>11, <1>12, <1>13, Zenon
         DEF FramesNext, main


(***************************************************************************)
(* Every global of the renderer keeps its type, in every behaviour.        *)
(***************************************************************************)
THEOREM TypeCorrect ==
    FramesSpec => []FramesTypeOK
<1>1. FramesInit => FramesTypeOK
  <2> SUFFICES ASSUME FramesInit PROVE FramesTypeOK
    BY Zenon
  <2> USE FramesAssumption DEF FramesInit, Slots, Counter, MaxDropped
  <2>1. {GUI_frame, last_frame_time, current_frame_time} \subseteq Counter
    OBVIOUS
  <2>2. window_arr \in [Slots -> Windows \cup {NULL}] /\ drawn \in Seq(Windows)
    OBVIOUS
  <2>3. {frame_ready, disturbed, rendered} \subseteq BOOLEAN
    BY Zenon
  <2> QED
    BY <2>1, <2>2, <2>3 DEF FramesTypeOK
<1> QED
    BY <1>1, TypeStep, PTL DEF FramesSpec

-----------------------------------------------------------------------------
(***************************************************************************)
(* Where the frame counter is, seen from the main loop.  In step: the      *)
(* frame on offer is the one for the number the loop rendered last, and it *)
(* renders the next only once that was shown.                              *)
(***************************************************************************)
InStep ==
    \/ /\ mainPc = "check"
       /\ GUI_frame = IF frame_ready THEN last_frame_time ELSE Succ(last_frame_time)
    \/ /\ mainPc = "compare"
       /\ current_frame_time = last_frame_time
       /\ GUI_frame = IF frame_ready THEN last_frame_time ELSE Succ(last_frame_time)
    \/ /\ mainPc = "compare"
       /\ ~ frame_ready
       /\ current_frame_time = GUI_frame
       /\ GUI_frame = Succ(last_frame_time)
    \/ /\ mainPc = "begin" \/ Drawing
       /\ ~ frame_ready
       /\ GUI_frame = last_frame_time

(***************************************************************************)
(* Ahead: the counter, which starts one ahead of the loop, still is.  This *)
(* ends with the first frame that is rendered over one not shown yet.      *)
(***************************************************************************)
Ahead ==
    LET one == Succ(last_frame_time)
        two == Succ(one)
    IN  \/ /\ mainPc = "check"
           /\ GUI_frame = IF frame_ready THEN one ELSE two
        \/ /\ mainPc = "compare"
           /\ current_frame_time = one
           /\ GUI_frame = IF frame_ready THEN one ELSE two
        \/ /\ mainPc = "compare"
           /\ ~ frame_ready
           /\ current_frame_time = two
           /\ GUI_frame = two
        \/ /\ mainPc = "begin"
           /\ GUI_frame = IF frame_ready THEN last_frame_time ELSE one
        \/ /\ Drawing
           /\ ~ frame_ready
           /\ GUI_frame = one

Handover == dropped <= 1 /\ (InStep \/ (Ahead /\ dropped = 0))

(***************************************************************************)
(* Every step keeps the loop in step, or ahead with no frame lost so far.  *)
(***************************************************************************)
LEMMA HandoverStep ==
    FramesTypeOK /\ Handover /\ [FramesNext]_framesVars => Handover'
<1> SUFFICES ASSUME FramesTypeOK, Handover, [FramesNext]_framesVars PROVE Handover'
    BY Zenon
<1> DEFINE one == Succ(last_frame_time)
           two == Succ(one)
<1>a. /\ last_frame_time \in Counter /\ GUI_frame \in Counter
      /\ frame_ready \in BOOLEAN /\ dropped \in 0 .. 2
    BY Zenon DEF FramesTypeOK, MaxDropped
<1>b. one # last_frame_time /\ two # last_frame_time /\ two # one
    BY <1>a, SuccDiffers, Zenon
<1> USE DEF Handover, Drawing, clock, windows, history
<1>1. CASE get_frame_time
    BY <1>1, <1>a, <1>b, Zenon DEF get_frame_time, InStep, Ahead
<1>2. CASE frame_loop
    BY <1>2, <1>a, <1>b, Zenon DEF frame_loop, InStep, Ahead
<1>3. CASE render_begin
    BY <1>3, <1>a, <1>b DEF render_begin, InStep, Ahead, MaxDropped
<1>4. CASE draw_all_xp_windows_but_active
    BY <1>4, Zenon DEF draw_all_xp_windows_but_active, InStep, Ahead
<1>5. CASE draw_xp_window
    BY <1>5, Zenon DEF draw_xp_window, InStep, Ahead
<1>6. CASE draw_active_xp_window
    BY <1>6, Zenon DEF draw_active_xp_window, InStep, Ahead
<1>7. CASE draw_active
    BY <1>7, Zenon DEF draw_active, InStep, Ahead
<1>8. CASE render_end
    BY <1>8, <1>a, Zenon DEF render_end, InStep, Ahead
<1>9. CASE timer_irq_0
    BY <1>9, <1>a, <1>b, Zenon DEF timer_irq_0, InStep, Ahead
<1>10. CASE irq_open
    BY <1>10, Zenon DEF irq_open, InStep, Ahead
<1>11. CASE irq_close
    BY <1>11, Zenon DEF irq_close, InStep, Ahead
<1>12. CASE irq_activate
    BY <1>12, Zenon DEF irq_activate, InStep, Ahead
<1>13. CASE UNCHANGED framesVars
    BY <1>13, Zenon DEF framesVars, InStep, Ahead
<1> QED
    BY <1>1, <1>2, <1>3, <1>4, <1>5, <1>6, <1>7, <1>8, <1>9, <1>10, <1>11, <1>12, <1>13, Zenon
         DEF FramesNext, main


(***************************************************************************)
(* So the hand-over is in one of the two modes throughout.                 *)
(***************************************************************************)
LEMMA HandoverHolds ==
    FramesSpec => [](FramesTypeOK /\ Handover)
<1>1. FramesInit => Handover
  <2> SUFFICES ASSUME FramesInit PROVE Handover
    BY Zenon
  <2>1. 0 \in Counter
    BY FramesAssumption DEF Counter
  <2>2. Succ(0) = 1
    BY <2>1, SuccIs, FramesAssumption
  <2> QED
    BY <2>2 DEF FramesInit, Handover, Ahead
<1> QED
    BY <1>1, TypeCorrect, HandoverStep, PTL DEF FramesSpec

(***************************************************************************)
(* frame_ready in render_xp_desktop keeps the timer interrupt from copying *)
(* a half drawn frame.                                                     *)
(***************************************************************************)
THEOREM NoTearing ==
    FramesSpec => []CopiesWholeFrames
<1>1. Handover => CopiesWholeFrames
    BY Zenon DEF Handover, InStep, Ahead, CopiesWholeFrames, Drawing
<1> QED
    BY <1>1, HandoverHolds, PTL

(***************************************************************************)
(* frame_loop overwrites at most one rendered frame that was not shown,    *)
(* however the timer and the loop interleave and whenever GUI_frame wraps. *)
(***************************************************************************)
THEOREM OneFrameLost ==
    FramesSpec => []AtMostOneFrameLost
<1>1. Handover => AtMostOneFrameLost
    BY Zenon DEF Handover, AtMostOneFrameLost
<1> QED
    BY <1>1, HandoverHolds, PTL

-----------------------------------------------------------------------------
(***************************************************************************)
(* The pointers the renderer reads are those of windows alive: the active  *)
(* window is a registered one.                                             *)
(***************************************************************************)
ActiveRegistered == active_xp_window # NULL => active_xp_window \in Registered

Pointers == ActiveRegistered /\ StaleOnlyWithinFrame

(***************************************************************************)
(* No step leaves the renderer with a pointer to a window that was closed  *)
(* before the frame began.                                                 *)
(***************************************************************************)
LEMMA PointersStep ==
    FramesTypeOK /\ Pointers /\ [FramesNext]_framesVars => Pointers'
<1> SUFFICES ASSUME FramesTypeOK, Pointers, [FramesNext]_framesVars PROVE Pointers'
    BY Zenon
<1> USE DEF Pointers, ActiveRegistered, StaleOnlyWithinFrame, Registered,
            clock, windows, history
<1>1. CASE get_frame_time
    BY <1>1, Zenon DEF get_frame_time
<1>2. CASE frame_loop
    BY <1>2, Zenon DEF frame_loop
<1>3. CASE render_begin
    BY <1>3, Zenon DEF render_begin
<1>4. CASE draw_all_xp_windows_but_active
  <2>1. index \in Slots
    BY <1>4, FramesAssumption DEF draw_all_xp_windows_but_active, FramesTypeOK, Slots
  <2> QED
    BY <1>4, <2>1, Zenon DEF draw_all_xp_windows_but_active, FramesTypeOK
<1>5. CASE draw_xp_window
    BY <1>5, Zenon DEF draw_xp_window
<1>6. CASE draw_active_xp_window
    BY <1>6, Zenon DEF draw_active_xp_window
<1>7. CASE draw_active
    BY <1>7, Zenon DEF draw_active
<1>8. CASE render_end
    BY <1>8, Zenon DEF render_end
<1>9. CASE timer_irq_0
    BY <1>9, Zenon DEF timer_irq_0
<1>10. CASE irq_open
    BY <1>10, Zenon DEF irq_open, FramesTypeOK
<1>11. CASE irq_close
  <2>1. window_arr' \in [Slots -> Windows \cup {NULL}]
    BY <1>11, Zenon DEF irq_close, FramesTypeOK
  <2>2. ActiveRegistered'
    BY <1>11, <2>1, FirstIs, Zenon DEF irq_close
  <2>3. StaleOnlyWithinFrame'
    BY <1>11, Zenon DEF irq_close, FramesTypeOK
  <2> QED
    BY <2>2, <2>3, Zenon
<1>12. CASE irq_activate
    BY <1>12, Zenon DEF irq_activate
<1>13. CASE UNCHANGED framesVars
    BY <1>13, Zenon DEF framesVars
<1> QED
    BY <1>1, <1>2, <1>3, <1>4, <1>5, <1>6, <1>7, <1>8, <1>9, <1>10, <1>11, <1>12, <1>13, Zenon
         DEF FramesNext, main


(***************************************************************************)
(* A window the renderer draws is alive, or was closed by an interrupt     *)
(* during the frame being drawn.                                           *)
(***************************************************************************)
THEOREM StaleWithinFrame ==
    FramesSpec => []StaleOnlyWithinFrame
<1>1. FramesInit => Pointers
    BY Zenon DEF FramesInit, Pointers, ActiveRegistered, StaleOnlyWithinFrame
<1> QED
    BY <1>1, TypeCorrect, PointersStep, PTL DEF FramesSpec, Pointers

-----------------------------------------------------------------------------
(***************************************************************************)
(* No window is registered twice.                                          *)
(***************************************************************************)
Unique ==
    \A s, t \in Slots : window_arr[s] = window_arr[t] /\ window_arr[s] # NULL => s = t

(***************************************************************************)
(* While no interrupt has touched the windows, the frame so far shows the  *)
(* windows of the slots passed, but the active one, each once.             *)
(***************************************************************************)
Passed == {window_arr[s] : s \in {t \in Slots : t < index}} \ {NULL, active_xp_window}

SoFar ==
    ~ disturbed =>
        /\ mainPc \in {"windows", "draw_window", "draw_active"} =>
              IsInjective(drawn) /\ Range(drawn) = Passed
        /\ mainPc = "draw_window" =>
              win = window_arr[index] /\ window_arr[index] \notin {NULL, active_xp_window}
        /\ mainPc = "draw_active" => index > MAX_NUM_OF_WINDOWS /\ win = active_xp_window

Whole == Unique /\ SoFar /\ UndisturbedFrameIsWhole

(***************************************************************************)
(* Drawing a window not drawn before adds it, at the end.                  *)
(***************************************************************************)
LEMMA AppendNew ==
    ASSUME NEW seq \in Seq(Windows), NEW w \in Windows, w \notin Range(seq), IsInjective(seq)
    PROVE  /\ IsInjective(Append(seq, w))
           /\ Range(Append(seq, w)) = Range(seq) \cup {w}
           /\ Append(seq, w)[Len(Append(seq, w))] = w
<1> DEFINE new == Append(seq, w)
<1>1. /\ DOMAIN seq = 1 .. Len(seq) /\ Len(seq) \in Nat
      /\ DOMAIN new = 1 .. (Len(seq) + 1) /\ Len(new) = Len(seq) + 1
      /\ \A k \in 1 .. Len(seq) : new[k] = seq[k]
      /\ new[Len(seq) + 1] = w
    OBVIOUS
<1> HIDE DEF new
<1>2. \A k \in 1 .. Len(seq) : seq[k] # w
    BY <1>1, Zenon DEF Range
<1>3. IsInjective(new)
  <2> SUFFICES ASSUME NEW a \in 1 .. (Len(seq) + 1), NEW b \in 1 .. (Len(seq) + 1), new[a] = new[b]
               PROVE  a = b
    BY <1>1, Zenon DEF IsInjective
  <2>1. CASE a \in 1 .. Len(seq) /\ b \in 1 .. Len(seq)
    BY <1>1, <2>1, Zenon DEF IsInjective
  <2>2. CASE a = Len(seq) + 1 \/ b = Len(seq) + 1
    BY <1>1, <1>2, <2>2
  <2> QED
    BY <1>1, <2>1, <2>2
<1>4. Range(new) = Range(seq) \cup {w}
  <2>1. 1 .. (Len(seq) + 1) = (1 .. Len(seq)) \cup {Len(seq) + 1}
    BY <1>1
  <2> QED
    BY <1>1, <2>1 DEF Range
<1>5. new[Len(new)] = w
    BY <1>1, Zenon
<1> QED
    BY <1>3, <1>4, <1>5, Zenon DEF new

(***************************************************************************)
(* What was drawn stays complete for the slots passed, at every step.      *)
(***************************************************************************)
LEMMA WholeStep ==
    FramesTypeOK /\ ActiveRegistered /\ Whole /\ [FramesNext]_framesVars => Whole'
<1> SUFFICES ASSUME FramesTypeOK, ActiveRegistered, Whole, [FramesNext]_framesVars PROVE Whole'
    BY Zenon
<1> USE FramesAssumption DEF Whole, SoFar, UndisturbedFrameIsWhole, clock, windows, history
<1>0. ASSUME UNCHANGED window_arr PROVE Unique'
    BY <1>0, Zenon DEF Unique
<1>1. CASE get_frame_time
    BY <1>0, <1>1, Zenon DEF get_frame_time
<1>2. CASE frame_loop
    BY <1>0, <1>2, Zenon DEF frame_loop
<1>3. CASE render_begin
  <2>1. IsInjective(drawn') /\ Range(drawn') = {}
    BY <1>3 DEF render_begin, IsInjective, Range
  <2>2. Passed' = {}
    BY <1>3 DEF render_begin, Passed, Slots
  <2> QED
    BY <1>0, <1>3, <2>1, <2>2, Zenon DEF render_begin
<1>4. CASE draw_all_xp_windows_but_active
  <2>1. index \in Slots
    BY <1>4 DEF draw_all_xp_windows_but_active, FramesTypeOK, Slots
  <2>2. CASE window_arr[index] \in {NULL, active_xp_window}
    <3>1. Passed' = Passed
      BY <1>4, <2>1, <2>2 DEF draw_all_xp_windows_but_active, Passed, Slots
    <3> QED
      BY <1>0, <1>4, <2>2, <3>1, Zenon DEF draw_all_xp_windows_but_active
  <2>3. CASE window_arr[index] \notin {NULL, active_xp_window}
    <3>1. Passed' = Passed
      BY <1>4, <2>3, Zenon DEF draw_all_xp_windows_but_active, Passed
    <3> QED
      BY <1>0, <1>4, <2>3, <3>1, Zenon DEF draw_all_xp_windows_but_active
  <2> QED
    BY <2>2, <2>3, Zenon
<1>5. CASE draw_xp_window
  <2> SUFFICES ASSUME ~ disturbed PROVE Whole'
    BY <1>0, <1>5, Zenon DEF draw_xp_window
  <2>1. index \in Slots /\ win \in Windows /\ win = window_arr[index]
    BY <1>5, Zenon DEF draw_xp_window, FramesTypeOK
  <2>2. win \notin Passed
    BY <1>5, <2>1 DEF draw_xp_window, Passed, Unique, Slots
  <2>3. Passed' = Passed \cup {win}
    BY <1>5, <2>1 DEF draw_xp_window, Passed, Slots
  <2>4. IsInjective(drawn') /\ Range(drawn') = Range(drawn) \cup {win}
    BY <1>5, <2>1, <2>2, AppendNew, Zenon DEF draw_xp_window, FramesTypeOK
  <2> QED
    BY <1>0, <1>5, <2>3, <2>4, Zenon DEF draw_xp_window
<1>6. CASE draw_active_xp_window
  <2>1. Passed = Registered \ {active_xp_window}
    BY <1>6 DEF draw_active_xp_window, Passed, Registered, FramesTypeOK, Slots
  <2>2. Passed' = Passed /\ Registered' = Registered
    BY <1>6 DEF draw_active_xp_window, Passed, Registered
  <2> QED
    BY <1>0, <1>6, <2>1, <2>2 DEF draw_active_xp_window, Registered
<1>7. CASE draw_active
  <2> SUFFICES ASSUME ~ disturbed PROVE Whole'
    BY <1>0, <1>7, Zenon DEF draw_active
  <2>1. win \in Windows /\ win = active_xp_window /\ win \in Registered
    BY <1>7, Zenon DEF draw_active, FramesTypeOK, ActiveRegistered
  <2>2. Passed = Registered \ {active_xp_window}
    BY <1>7 DEF draw_active, Passed, Registered, FramesTypeOK, Slots
  <2>3. /\ IsInjective(drawn') /\ Range(drawn') = Range(drawn) \cup {win}
        /\ drawn'[Len(drawn')] = win
    BY <1>7, <2>1, <2>2, AppendNew, Zenon DEF draw_active, FramesTypeOK
  <2>4. Registered' = Registered
    BY <1>7, Zenon DEF draw_active, Registered
  <2> QED
    BY <1>0, <1>7, <2>1, <2>2, <2>3, <2>4, Zenon DEF draw_active
<1>8. CASE render_end
    BY <1>0, <1>8, Zenon DEF render_end
<1>9. CASE timer_irq_0
    BY <1>0, <1>9 DEF timer_irq_0, Passed, Registered
<1>10. CASE irq_open
    BY <1>10 DEF irq_open, Unique, Registered, FramesTypeOK
<1>11. CASE irq_close
    BY <1>11, Zenon DEF irq_close, Unique, FramesTypeOK
<1>12. CASE irq_activate
    BY <1>0, <1>12, Zenon DEF irq_activate
<1>13. CASE UNCHANGED framesVars
    BY <1>0, <1>13 DEF framesVars, Passed, Registered
<1> QED
    BY <1>1, <1>2, <1>3, <1>4, <1>5, <1>6, <1>7, <1>8, <1>9, <1>10, <1>11, <1>12, <1>13, Zenon
         DEF FramesNext, main


(***************************************************************************)
(* A frame that no interrupt disturbed shows every registered window once, *)
(* and the active one on top, whatever happened before the frame.          *)
(***************************************************************************)
THEOREM FramesAreWhole ==
    FramesSpec => []UndisturbedFrameIsWhole
<1>1. FramesInit => Pointers /\ Whole
    BY Zenon DEF FramesInit, Pointers, ActiveRegistered, StaleOnlyWithinFrame, Whole, Unique, SoFar,
           UndisturbedFrameIsWhole
<1>2. FramesTypeOK /\ Pointers /\ Whole /\ [FramesNext]_framesVars => Pointers' /\ Whole'
    BY PointersStep, WholeStep, Zenon DEF Pointers
<1>3. Whole => UndisturbedFrameIsWhole
    BY Zenon DEF Whole
<1> QED
    BY <1>1, <1>2, <1>3, TypeCorrect, PTL DEF FramesSpec

-----------------------------------------------------------------------------
(***************************************************************************)
(* Lists of records.                                                       *)
(***************************************************************************)

\* A list of tasks, each at most once.
IsList(s) == s \in Seq(Tasks) /\ IsInjective(s)

\* The tasks of a list are its elements.
LEMMA RangeOf ==
  ASSUME NEW s \in Seq(Tasks)
  PROVE  /\ Range(s) \in SUBSET Tasks
         /\ \A t : t \in Range(s) <=> \E i \in 1 .. Len(s) : s[i] = t
<1>1. DOMAIN s = 1 .. Len(s) /\ \A i \in 1 .. Len(s) : s[i] \in Tasks
  OBVIOUS
<1> QED
  BY <1>1, Zenon DEF Range

\* The empty list.
LEMMA EmptyList == IsList(<<>>) /\ Range(<<>>) = {}
<1>1. <<>> \in Seq(Tasks) /\ Len(<<>>) = 0 /\ 1 .. 0 = {} /\ DOMAIN <<>> = {}
  OBVIOUS
<1> QED
  BY <1>1, Zenon DEF IsList, IsInjective, Range

\* LinkedListAllocate appends a record of a task that has none.
LEMMA AppendList ==
  ASSUME NEW s, IsList(s), NEW t \in Tasks
  PROVE  /\ Append(s, t) \in Seq(Tasks)
         /\ Range(Append(s, t)) = Range(s) \cup {t}
         /\ t \notin Range(s) => IsList(Append(s, t))
<1>1. s \in Seq(Tasks)
  BY Zenon DEF IsList
<1>2. PICK r : r = Append(s, t)
  OBVIOUS
<1>3. r \in Seq(Tasks) /\ Len(r) = Len(s) + 1 /\ Len(s) \in Nat
  BY <1>1, <1>2
<1>4. r[Len(s) + 1] = t /\ \A i \in 1 .. Len(s) : r[i] = s[i]
  BY <1>1, <1>2
<1>5. \A u : u \in Range(r) <=> u \in Range(s) \cup {t}
  <2>1. \A i : i \in 1 .. Len(r) <=> i \in 1 .. Len(s) \/ i = Len(s) + 1
    BY <1>3
  <2>2. \A u : u \in Range(s) <=> \E i \in 1 .. Len(s) : s[i] = u
    BY <1>1, RangeOf, Zenon
  <2>3. \A u : u \in Range(r) <=> \E i \in 1 .. Len(r) : r[i] = u
    BY <1>3, RangeOf, Zenon
  <2> QED
    BY <1>4, <2>1, <2>2, <2>3, Zenon
<1>6. ASSUME t \notin Range(s) PROVE IsInjective(r)
  <2>1. DOMAIN r = 1 .. Len(r) /\ DOMAIN s = 1 .. Len(s)
    BY <1>1, <1>3
  <2>2. \A i : i \in 1 .. Len(r) <=> i \in 1 .. Len(s) \/ i = Len(s) + 1
    BY <1>3
  <2>3. \A i \in 1 .. Len(s) : s[i] # t
    BY <1>1, <1>6, RangeOf, Zenon
  <2>4. \A i, j \in 1 .. Len(s) : s[i] = s[j] => i = j
    BY <2>1, Zenon DEF IsList, IsInjective
  <2> QED
    BY <1>4, <2>1, <2>2, <2>3, <2>4, Zenon DEF IsInjective
<1> QED
  BY <1>2, <1>3, <1>5, <1>6, Zenon DEF IsList

\* FUTEX_REQUEUE puts a list behind another.
LEMMA ConcatList ==
  ASSUME NEW s, IsList(s), NEW r, IsList(r), Range(s) \cap Range(r) = {}
  PROVE  /\ IsList(s \o r)
         /\ Range(s \o r) = Range(s) \cup Range(r)
<1>1. s \in Seq(Tasks) /\ r \in Seq(Tasks)
  BY Zenon DEF IsList
<1>2. PICK q : q = s \o r
  OBVIOUS
<1>3. q \in Seq(Tasks) /\ Len(q) = Len(s) + Len(r) /\ Len(s) \in Nat /\ Len(r) \in Nat
  BY <1>1, <1>2
<1>4. /\ \A i \in 1 .. Len(s) : q[i] = s[i]
      /\ \A i \in 1 .. Len(r) : q[Len(s) + i] = r[i]
  BY <1>1, <1>2, <1>3
<1>5. \A i : i \in 1 .. Len(q) <=> i \in 1 .. Len(s) \/ \E j \in 1 .. Len(r) : i = Len(s) + j
  <2>1. ASSUME NEW i \in 1 .. Len(q), i \notin 1 .. Len(s)
        PROVE  i - Len(s) \in 1 .. Len(r) /\ i = Len(s) + (i - Len(s))
    BY <1>3, <2>1
  <2>2. \A i \in 1 .. Len(s) : i \in 1 .. Len(q)
    BY <1>3
  <2>3. \A j \in 1 .. Len(r) : Len(s) + j \in 1 .. Len(q)
    BY <1>3
  <2> QED
    BY <2>1, <2>2, <2>3, Zenon
<1>6. \A u : u \in Range(q) <=> u \in Range(s) \cup Range(r)
  <2>1. /\ \A u : u \in Range(s) <=> \E i \in 1 .. Len(s) : s[i] = u
        /\ \A u : u \in Range(r) <=> \E i \in 1 .. Len(r) : r[i] = u
    BY <1>1, RangeOf, Zenon
  <2>2. \A u : u \in Range(q) <=> \E i \in 1 .. Len(q) : q[i] = u
    BY <1>3, RangeOf, Zenon
  <2>3. ASSUME NEW u, u \in Range(q) PROVE u \in Range(s) \cup Range(r)
    <3>1. PICK i \in 1 .. Len(q) : q[i] = u
      BY <2>2, <2>3, Zenon
    <3>2. CASE i \in 1 .. Len(s)
      BY <1>4, <2>1, <3>1, <3>2, Zenon
    <3>3. CASE i \notin 1 .. Len(s)
      <4>1. PICK j \in 1 .. Len(r) : i = Len(s) + j
        BY <1>5, <3>3, Zenon
      <4>2. r[j] = u
        BY <1>4, <3>1, <4>1, Zenon
      <4> QED
        BY <2>1, <4>2, Zenon
    <3> QED
      BY <3>2, <3>3, Zenon
  <2>4. ASSUME NEW u, u \in Range(s) PROVE u \in Range(q)
    <3>1. PICK i \in 1 .. Len(s) : s[i] = u
      BY <2>1, <2>4, Zenon
    <3>2. i \in 1 .. Len(q) /\ q[i] = u
      BY <1>4, <1>5, <3>1, Zenon
    <3> QED
      BY <2>2, <3>2, Zenon
  <2>5. ASSUME NEW u, u \in Range(r) PROVE u \in Range(q)
    <3>1. PICK j \in 1 .. Len(r) : r[j] = u
      BY <2>1, <2>5, Zenon
    <3>2. Len(s) + j \in 1 .. Len(q) /\ q[Len(s) + j] = u
      BY <1>4, <1>5, <3>1, Zenon
    <3> QED
      BY <2>2, <3>2, Zenon
  <2> QED
    BY <2>3, <2>4, <2>5, Zenon
<1>7. IsInjective(q)
  <2>1. DOMAIN q = 1 .. Len(q) /\ DOMAIN s = 1 .. Len(s) /\ DOMAIN r = 1 .. Len(r)
    BY <1>1, <1>3
  <2>2. \A i \in 1 .. Len(s), j \in 1 .. Len(r) : s[i] # r[j]
    BY <1>1, RangeOf, Zenon
  <2>3. /\ \A i, j \in 1 .. Len(s) : s[i] = s[j] => i = j
        /\ \A i, j \in 1 .. Len(r) : r[i] = r[j] => i = j
    BY <2>1, Zenon DEF IsList, IsInjective
  <2>4. SUFFICES ASSUME NEW i \in 1 .. Len(q), NEW j \in 1 .. Len(q), q[i] = q[j] PROVE i = j
    BY <2>1, Zenon DEF IsInjective
  <2>5. CASE i \in 1 .. Len(s) /\ j \in 1 .. Len(s)
    BY <1>4, <2>3, <2>4, <2>5, Zenon
  <2>6. CASE i \notin 1 .. Len(s) /\ j \notin 1 .. Len(s)
    <3>1. PICK a \in 1 .. Len(r) : i = Len(s) + a
      BY <1>5, <2>6, Zenon
    <3>2. PICK b \in 1 .. Len(r) : j = Len(s) + b
      BY <1>5, <2>6, Zenon
    <3>3. q[i] = r[a] /\ q[j] = r[b]
      BY <1>4, <3>1, <3>2, Zenon
    <3>4. a = b
      BY <2>3, <2>4, <3>3, Zenon
    <3> QED
      BY <3>1, <3>2, <3>4, Zenon
  <2>7. CASE i \in 1 .. Len(s) /\ j \notin 1 .. Len(s)
    <3>1. PICK b \in 1 .. Len(r) : j = Len(s) + b
      BY <1>5, <2>7, Zenon
    <3>2. q[i] = s[i] /\ q[j] = r[b]
      BY <1>4, <2>7, <3>1, Zenon
    <3> QED
      BY <2>2, <2>4, <2>7, <3>2, Zenon
  <2>8. CASE i \notin 1 .. Len(s) /\ j \in 1 .. Len(s)
    <3>1. PICK a \in 1 .. Len(r) : i = Len(s) + a
      BY <1>5, <2>8, Zenon
    <3> QED
      BY <1>4, <2>2, <2>4, <2>8, <3>1, Zenon
  <2> QED
    BY <2>5, <2>6, <2>7, <2>8, Zenon
<1> QED
  BY <1>2, <1>3, <1>6, <1>7, Zenon DEF IsList

\* The first n of a list are of the list.
LEMMA FirstOf ==
  ASSUME NEW s \in Seq(Tasks), NEW n \in Nat
  PROVE  FirstN(s, n) \in SUBSET Range(s)
<1>1. PICK k : k = IF n < Len(s) THEN n ELSE Len(s)
  OBVIOUS
<1>2. k \in 0 .. Len(s)
  BY <1>1
<1>3. PICK r : r = SubSeq(s, 1, k)
  OBVIOUS
<1>4. r \in Seq(Tasks) /\ Len(r) = k /\ \A i \in 1 .. k : r[i] = s[i] /\ i \in 1 .. Len(s)
  BY <1>2, <1>3
<1>5. ASSUME NEW t \in Range(r) PROVE t \in Range(s)
  <2>1. PICK i \in 1 .. k : r[i] = t
    BY <1>4, RangeOf, Zenon
  <2> QED
    BY <1>4, <2>1, RangeOf, Zenon
<1> QED
  BY <1>1, <1>3, <1>5, Zenon DEF FirstN

-----------------------------------------------------------------------------
(***************************************************************************)
(* Keep, the loop over a list: what it has kept of the first i records.    *)
(***************************************************************************)
KeptNext(s, S, i, before) == IF s[i] \in S THEN Append(before, s[i]) ELSE before

IsKept(s, S, f, n) ==
  f = [i \in 0 .. n |->
         IF i = 0 THEN <<>>
         ELSE IF s[i] \in S THEN Append(f[i - 1], s[i]) ELSE f[i - 1]]

\* The recursion of Keep has a solution.
LEMMA KeptExists ==
  ASSUME NEW s \in Seq(Tasks), NEW S
  PROVE  \E f : IsKept(s, S, f, Len(s))
<1> DEFINE P == {n \in 0 .. Len(s) : \E f : IsKept(s, S, f, n)}
<1>1. Len(s) \in Nat
  OBVIOUS
<1>2. 0 \in P
  <2>1. PICK f : f = [i \in 0 .. 0 |-> <<>>]
    OBVIOUS
  <2>2. \A i \in 0 .. 0 : i = 0
    OBVIOUS
  <2>3. IsKept(s, S, f, 0)
    BY <2>1, <2>2, Zenon DEF IsKept
  <2> QED
    BY <1>1, <2>3
<1>3. ASSUME NEW n \in P, n < Len(s) PROVE n + 1 \in P
  <2>1. PICK f : IsKept(s, S, f, n)
    BY Zenon
  <2>2. n \in Nat /\ n + 1 \in 0 .. Len(s)
    BY <1>1, <1>3
  <2>3. PICK g : g = [i \in 0 .. n + 1 |-> IF i = n + 1 THEN KeptNext(s, S, i, f[n]) ELSE f[i]]
    OBVIOUS
  <2>4. /\ \A i \in 0 .. n : i # n + 1 /\ i \in 0 .. n + 1
        /\ \A i \in 1 .. n : i - 1 \in 0 .. n /\ i # 0
        /\ n \in 0 .. n /\ n + 1 # 0 /\ (n + 1) - 1 = n /\ n + 1 \in 0 .. n + 1
        /\ \A i \in 0 .. n + 1 : i = 0 \/ i \in 1 .. n \/ i = n + 1
        /\ 0 \in 0 .. n /\ \A i \in 1 .. n : i \in 0 .. n
    BY <2>2
  <2>5. \A i \in 0 .. n : g[i] = f[i]
    BY <2>3, <2>4, Zenon
  <2>6. g[0] = <<>>
    BY <2>1, <2>4, <2>5, Zenon DEF IsKept
  <2>7. ASSUME NEW i \in 1 .. n PROVE g[i] = KeptNext(s, S, i, g[i - 1])
    <3>1. f[i] = KeptNext(s, S, i, f[i - 1])
      BY <2>1, <2>4, Zenon DEF IsKept, KeptNext
    <3> QED
      BY <2>4, <2>5, <3>1, Zenon
  <2>8. g[n + 1] = KeptNext(s, S, n + 1, g[(n + 1) - 1])
    BY <2>3, <2>4, <2>5, Zenon
  <2>9. \A i \in 0 .. n + 1 : g[i] = IF i = 0 THEN <<>> ELSE KeptNext(s, S, i, g[i - 1])
    BY <2>4, <2>6, <2>7, <2>8, Zenon
  <2>10. IsKept(s, S, g, n + 1)
    BY <2>3, <2>9, Zenon DEF IsKept, KeptNext
  <2> QED
    BY <2>2, <2>10, Zenon
<1>4. P = 0 .. Len(s)
  <2> HIDE DEF P
  <2>1. P \in SUBSET (0 .. Len(s))
    BY Zenon DEF P
  <2> QED
    BY <1>1, <1>2, <1>3, <2>1, IntervalInduction, Zenon
<1>5. Len(s) \in 0 .. Len(s)
  BY <1>1
<1> QED
  BY <1>4, <1>5, Zenon

\* Keep is the value of that recursion at the end of the list.
LEMMA KeepIs ==
  ASSUME NEW s \in Seq(Tasks), NEW S
  PROVE  \E f : IsKept(s, S, f, Len(s)) /\ Keep(s, S) = f[Len(s)]
<1>1. \E f : IsKept(s, S, f, Len(s))
  BY KeptExists, Zenon
<1> QED
  BY <1>1, Zenon DEF Keep, IsKept

\* Keep leaves the records of the tasks in S.
LEMMA KeepList ==
  ASSUME NEW s, IsList(s), NEW S
  PROVE  IsList(Keep(s, S)) /\ Range(Keep(s, S)) = Range(s) \cap S
<1>1. s \in Seq(Tasks) /\ Len(s) \in Nat
  BY DEF IsList
<1>2. PICK f : IsKept(s, S, f, Len(s)) /\ Keep(s, S) = f[Len(s)]
  BY <1>1, KeepIs, Zenon
<1> DEFINE Good(i) == /\ IsList(f[i])
                      /\ \A t : t \in Range(f[i]) <=> t \in S /\ \E j \in 1 .. i : s[j] = t
           P == {i \in 0 .. Len(s) : Good(i)}
<1>3. 0 \in P
  <2>1. 0 \in 0 .. Len(s) /\ \A j : j \notin 1 .. 0
    BY <1>1
  <2>2. f[0] = <<>>
    BY <1>2, <2>1, Zenon DEF IsKept
  <2> QED
    BY <2>1, <2>2, EmptyList, Zenon
<1>4. ASSUME NEW k \in P, k < Len(s) PROVE k + 1 \in P
  <2>1. /\ k + 1 \in 0 .. Len(s) /\ k + 1 # 0 /\ (k + 1) - 1 = k /\ k + 1 \in 1 .. Len(s)
        /\ \A j : j \in 1 .. k + 1 <=> j \in 1 .. k \/ j = k + 1
        /\ k + 1 \notin 1 .. k /\ \A j \in 1 .. k : j \in 1 .. Len(s)
    BY <1>1, <1>4
  <2>2. s[k + 1] \in Tasks
    BY <1>1, <2>1
  <2>3. Good(k)
    BY Zenon
  <2>4. \A j \in 1 .. k : s[j] # s[k + 1]
    <3>1. DOMAIN s = 1 .. Len(s)
      BY <1>1
    <3> QED
      BY <2>1, <3>1, Zenon DEF IsList, IsInjective
  <2>5. CASE s[k + 1] \in S
    <3>1. f[k + 1] = Append(f[k], s[k + 1])
      BY <1>2, <2>1, <2>5, Zenon DEF IsKept
    <3>2. s[k + 1] \notin Range(f[k])
      BY <2>3, <2>4, Zenon
    <3>3. IsList(f[k + 1]) /\ Range(f[k + 1]) = Range(f[k]) \cup {s[k + 1]}
      <4>1. IsList(f[k])
        BY <2>3, Zenon
      <4>2. /\ IsList(Append(f[k], s[k + 1]))
            /\ Range(Append(f[k], s[k + 1])) = Range(f[k]) \cup {s[k + 1]}
        BY <2>2, <3>2, <4>1, AppendList, Zenon
      <4> QED
        BY <3>1, <4>2, Zenon
    <3>4. ASSUME NEW t
          PROVE  t \in Range(f[k + 1]) <=> t \in S /\ \E j \in 1 .. k + 1 : s[j] = t
      <4>1. CASE t = s[k + 1]
        BY <2>1, <2>5, <3>3, <4>1, Zenon
      <4>2. CASE t # s[k + 1]
        BY <2>1, <2>3, <3>3, <4>2, Zenon
      <4> QED
        BY <4>1, <4>2, Zenon
    <3>5. Good(k + 1)
      BY <3>3, <3>4, Zenon
    <3> QED
      BY <2>1, <3>5, Zenon
  <2>6. CASE s[k + 1] \notin S
    <3>1. f[k + 1] = f[k]
      BY <1>2, <2>1, <2>6, Zenon DEF IsKept
    <3>2. Good(k + 1)
      BY <2>1, <2>3, <2>6, <3>1, Zenon
    <3> QED
      BY <2>1, <3>2, Zenon
  <2> QED
    BY <2>5, <2>6, Zenon
<1>5. P = 0 .. Len(s)
  <2> HIDE DEF P
  <2>1. P \in SUBSET (0 .. Len(s))
    BY Zenon DEF P
  <2> QED
    BY <1>1, <1>3, <1>4, <2>1, IntervalInduction, Zenon
<1>6. Len(s) \in 0 .. Len(s)
  BY <1>1
<1>7. Good(Len(s))
  BY <1>5, <1>6, Zenon
<1>8. \A t : t \in Range(s) <=> \E j \in 1 .. Len(s) : s[j] = t
  BY <1>1, RangeOf, Zenon
<1> QED
  BY <1>2, <1>7, <1>8, Zenon

-----------------------------------------------------------------------------
(***************************************************************************)
(* The inductive invariant.                                                *)
(***************************************************************************)
Types ==
  /\ word \in [Addr -> Values]
  /\ firstAsleep = [a \in Addr |-> firstAsleep[a]]
  /\ above \in [Tasks -> Addr]
  /\ addr \in [Tasks -> Addr]
  /\ value \in [Tasks -> Values]
  /\ step \in [Tasks -> {"user", "checked", "asleep", "stored"}]
  /\ state \in [Tasks -> {"READY", "FUTEX"}]
  /\ awoken \in [Tasks -> BOOLEAN]

\* The records of the sleeping tasks, and who of them was woken.
Records ==
  /\ \A a \in Addr : IsList(firstAsleep[a])
  /\ \A t \in Tasks, a \in Addr :
       t \in Range(firstAsleep[a]) <=> step[t] = "asleep" /\ above[t] = a
  /\ \A t \in Tasks : awoken[t] => step[t] = "asleep" /\ state[t] = "READY"
  /\ \A t \in Tasks : state[t] = "FUTEX" => step[t] = "asleep"

(***************************************************************************)
(* What a call relies on: between the comparison and the record no other   *)
(* task runs, so the word still has the value; and a task sleeps on the    *)
(* word it named or on one to which sleepers of that word are moved.       *)
(***************************************************************************)
Relied ==
  /\ \A t \in Tasks : step[t] = "checked" => cpu = t /\ word[addr[t]] = value[t]
  /\ \A t \in Tasks :
       step[t] = "asleep" => above[t] = addr[t] \/ <<addr[t], above[t]>> \in Requeues

FutexInv == Types /\ Records /\ Relied /\ ChangeWakes

\* The words and values that stand for none in particular are words and values.
LEMMA Defaults == SomeAddr \in Addr /\ SomeValue \in Values
BY FutexAssumption, Zenon DEF SomeAddr, SomeValue

\* FutexInit: nobody sleeps.
LEMMA InitInv == FutexInit => FutexInv
<1> SUFFICES ASSUME FutexInit PROVE FutexInv
  BY Zenon
<1>1. Types
  BY Defaults, Zenon DEF FutexInit, Types
<1>2. Records
  BY EmptyList, Zenon DEF FutexInit, Records
<1>3. Relied /\ ChangeWakes
  BY Zenon DEF FutexInit, Relied, ChangeWakes
<1> QED
  BY <1>1, <1>2, <1>3, Zenon DEF FutexInv

\* No task runs between the steps of another that has compared the word.
LEMMA OnlyOneRuns ==
  ASSUME FutexInv, NEW t \in Tasks, NEW p, At(t, p)
  PROVE  \A u \in Tasks \ {t} : step[u] # "checked"
BY FutexAssumption, Zenon DEF FutexInv, Relied, At

\* store: the task that stores is the one that will wake the sleepers.
LEMMA StoreInv ==
  ASSUME FutexInv, NEW t \in Tasks, NEW a \in Addr, NEW v \in Values, store(t, a, v)
  PROVE  FutexInv'
<1> USE DEF FutexInv
<1>1. \A u \in Tasks \ {t} : step[u] # "checked"
  BY OnlyOneRuns, Zenon DEF store
<1>2. /\ step' = [step EXCEPT ![t] = "stored"] /\ step[t] = "user" /\ state[t] = "READY"
      /\ word' = [word EXCEPT ![a] = v] /\ addr' = [addr EXCEPT ![t] = a]
      /\ UNCHANGED <<firstAsleep, above, awoken, state, value>>
  BY Zenon DEF store, At, GoTo
<1>3. Types'
  BY <1>2, Zenon DEF Types
<1>4. Records'
  BY <1>2, Zenon DEF Records, Types
<1>5. Relied'
  BY <1>1, <1>2, Zenon DEF Relied, Types
<1>6. ChangeWakes'
  <2>1. SUFFICES ASSUME NEW u \in Tasks, state'[u] = "FUTEX", above'[u] = addr'[u],
                        word'[addr'[u]] # value'[u]
                 PROVE  \E x \in Tasks : step'[x] = "stored" /\ addr'[x] = addr'[u]
    BY Zenon DEF ChangeWakes
  <2>2. u # t /\ addr'[u] = addr[u] /\ state[u] = "FUTEX" /\ above[u] = addr[u]
    BY <1>2, <2>1, Zenon DEF Types
  <2>3. CASE addr[u] = a
    BY <1>2, <2>2, <2>3, Zenon DEF Types
  <2>4. CASE addr[u] # a
    <3>1. word[addr[u]] # value[u]
      BY <1>2, <2>1, <2>2, <2>4, Zenon DEF Types
    <3>2. PICK x \in Tasks : step[x] = "stored" /\ addr[x] = addr[u]
      BY <2>2, <3>1, Zenon DEF ChangeWakes
    <3>3. x # t
      BY <1>2, <3>2, Zenon
    <3> QED
      BY <1>2, <2>2, <3>2, <3>3, Zenon DEF Types
  <2> QED
    BY <2>3, <2>4, Zenon
<1> QED
  BY <1>3, <1>4, <1>5, <1>6, Zenon

\* futex_wait: the task has compared the word and keeps the processor.
LEMMA WaitInv ==
  ASSUME FutexInv, Preemptive = FALSE,
         NEW t \in Tasks, NEW a \in Addr, NEW v \in Values, futex_wait(t, a, v)
  PROVE  FutexInv'
<1> USE DEF FutexInv
<1>1. \A u \in Tasks \ {t} : step[u] # "checked"
  BY OnlyOneRuns, Zenon DEF futex_wait
<1>2. /\ step' = [step EXCEPT ![t] = "checked"] /\ step[t] = "user" /\ state[t] = "READY"
      /\ addr' = [addr EXCEPT ![t] = a] /\ value' = [value EXCEPT ![t] = v]
      /\ cpu' = t /\ word[a] = v
      /\ UNCHANGED <<word, firstAsleep, above, awoken, state>>
  BY Zenon DEF futex_wait, At, GoTo
<1>3. Types'
  BY <1>2, Zenon DEF Types
<1>4. Records'
  BY <1>2, Zenon DEF Records, Types
<1>5. Relied'
  BY <1>1, <1>2, Zenon DEF Relied, Types
<1>6. ChangeWakes'
  <2>1. SUFFICES ASSUME NEW u \in Tasks, state'[u] = "FUTEX", above'[u] = addr'[u],
                        word'[addr'[u]] # value'[u]
                 PROVE  \E x \in Tasks : step'[x] = "stored" /\ addr'[x] = addr'[u]
    BY Zenon DEF ChangeWakes
  <2>2. u # t /\ addr'[u] = addr[u] /\ value'[u] = value[u] /\ state[u] = "FUTEX"
    BY <1>2, <2>1, Zenon DEF Types
  <2>3. PICK x \in Tasks : step[x] = "stored" /\ addr[x] = addr[u]
    BY <1>2, <2>1, <2>2, Zenon DEF ChangeWakes
  <2>4. x # t
    BY <1>2, <2>3, Zenon
  <2> QED
    BY <1>2, <2>2, <2>3, <2>4, Zenon DEF Types
<1> QED
  BY <1>3, <1>4, <1>5, <1>6, Zenon

\* fall_asleep: the record is made while the word still has the value.
LEMMA AsleepInv ==
  ASSUME FutexInv, NEW t \in Tasks, fall_asleep(t)
  PROVE  FutexInv'
<1> USE DEF FutexInv
<1>1. \A u \in Tasks \ {t} : step[u] # "checked"
  BY OnlyOneRuns, Zenon DEF fall_asleep
<1>2. PICK a \in Addr : a = addr[t]
  BY Zenon DEF Types
<1>3. /\ step' = [step EXCEPT ![t] = "asleep"] /\ step[t] = "checked"
      /\ firstAsleep' = [firstAsleep EXCEPT ![a] = Append(@, t)]
      /\ above' = [above EXCEPT ![t] = a] /\ awoken' = [awoken EXCEPT ![t] = FALSE]
      /\ state' = [state EXCEPT ![t] = "FUTEX"]
      /\ UNCHANGED <<word, addr, value>>
  BY <1>2, Zenon DEF fall_asleep, At, GoTo
<1>4. Types'
  BY <1>3, Zenon DEF Types
<1>5. Records'
  <2>1. /\ IsList(firstAsleep[a]) /\ t \notin Range(firstAsleep[a])
        /\ \A b \in Addr : t \notin Range(firstAsleep[b])
    BY <1>3, Zenon DEF Records
  <2>2. /\ IsList(Append(firstAsleep[a], t))
        /\ Range(Append(firstAsleep[a], t)) = Range(firstAsleep[a]) \cup {t}
    BY <2>1, AppendList, Zenon
  <2>3. /\ firstAsleep'[a] = Append(firstAsleep[a], t)
        /\ \A b \in Addr \ {a} : firstAsleep'[b] = firstAsleep[b]
    BY <1>3, Zenon DEF Types
  <2>4. \A b \in Addr : IsList(firstAsleep'[b])
    BY <2>2, <2>3, Zenon DEF Records
  <2>5. ASSUME NEW u \in Tasks, NEW b \in Addr
        PROVE  u \in Range(firstAsleep'[b]) <=> step'[u] = "asleep" /\ above'[u] = b
    <3>1. CASE u = t
      BY <1>3, <2>1, <2>2, <2>3, <3>1, Zenon DEF Types
    <3>2. CASE u # t
      <4>1. step'[u] = step[u] /\ above'[u] = above[u]
        BY <1>3, <3>2, Zenon DEF Types
      <4>2. u \in Range(firstAsleep'[b]) <=> u \in Range(firstAsleep[b])
        BY <2>2, <2>3, <3>2, Zenon
      <4> QED
        BY <4>1, <4>2, Zenon DEF Records
    <3> QED
      BY <3>1, <3>2, Zenon
  <2>6. \A u \in Tasks : awoken'[u] => step'[u] = "asleep" /\ state'[u] = "READY"
    BY <1>3, Zenon DEF Types, Records
  <2>7. \A u \in Tasks : state'[u] = "FUTEX" => step'[u] = "asleep"
    BY <1>3, Zenon DEF Types, Records
  <2> QED
    BY <2>4, <2>5, <2>6, <2>7, Zenon DEF Records
<1>6. Relied'
  BY <1>1, <1>2, <1>3, Zenon DEF Relied, Types
<1>7. ChangeWakes'
  <2>1. SUFFICES ASSUME NEW u \in Tasks, state'[u] = "FUTEX", above'[u] = addr'[u],
                        word'[addr'[u]] # value'[u]
                 PROVE  \E x \in Tasks : step'[x] = "stored" /\ addr'[x] = addr'[u]
    BY Zenon DEF ChangeWakes
  <2>2. word[addr[t]] = value[t]
    BY <1>3, Zenon DEF Relied
  <2>3. u # t /\ state[u] = "FUTEX" /\ above[u] = addr[u]
    BY <1>3, <2>1, <2>2, Zenon DEF Types
  <2>4. PICK x \in Tasks : step[x] = "stored" /\ addr[x] = addr[u]
    BY <1>3, <2>1, <2>3, Zenon DEF ChangeWakes
  <2>5. x # t
    BY <1>3, <2>4, Zenon
  <2> QED
    BY <1>3, <2>4, <2>5, Zenon DEF Types
<1> QED
  BY <1>4, <1>5, <1>6, <1>7, Zenon

\* expire: a time-out or a signal leaves the record where it is.
LEMMA ExpireInv ==
  ASSUME FutexInv, NEW t \in Tasks, expire(t)
  PROVE  FutexInv'
<1> USE DEF FutexInv
<1>1. /\ state' = [state EXCEPT ![t] = "READY"]
      /\ UNCHANGED <<word, firstAsleep, above, awoken, step, addr, value, cpu>>
  BY Zenon DEF expire
<1>2. \A u \in Tasks : state'[u] = "FUTEX" => state[u] = "FUTEX"
  BY <1>1, Zenon DEF Types
<1>3. \A u \in Tasks : state[u] = "READY" => state'[u] = "READY"
  BY <1>1, Zenon DEF Types
<1>4. Types'
  BY <1>1, Zenon DEF Types
<1>5. Records'
  BY <1>1, <1>2, <1>3, Zenon DEF Records
<1>6. Relied' /\ ChangeWakes'
  BY <1>1, <1>2, Zenon DEF Relied, ChangeWakes
<1> QED
  BY <1>4, <1>5, <1>6, Zenon

\* wake_up: the record is found in the list that its above names.
LEMMA WakeUpInv ==
  ASSUME FutexInv, NEW t \in Tasks, wake_up(t)
  PROVE  FutexInv'
<1> USE DEF FutexInv
<1>1. \A u \in Tasks \ {t} : step[u] # "checked"
  BY OnlyOneRuns, Zenon DEF wake_up
<1>2. PICK a \in Addr : a = above[t]
  BY Zenon DEF Types
<1>3. /\ step' = [step EXCEPT ![t] = "user"] /\ step[t] = "asleep" /\ state[t] = "READY"
      /\ firstAsleep' = [firstAsleep EXCEPT ![a] = Keep(@, Tasks \ {t})]
      /\ above' = [above EXCEPT ![t] = SomeAddr] /\ awoken' = [awoken EXCEPT ![t] = FALSE]
      /\ addr' = [addr EXCEPT ![t] = SomeAddr] /\ value' = [value EXCEPT ![t] = SomeValue]
      /\ UNCHANGED <<word, state>>
  BY <1>2, Zenon DEF wake_up, At, GoTo, Return
<1>4. Types'
  BY <1>3, Defaults, Zenon DEF Types
<1>5. Records'
  <2>1. /\ IsList(Keep(firstAsleep[a], Tasks \ {t}))
        /\ Range(Keep(firstAsleep[a], Tasks \ {t})) = Range(firstAsleep[a]) \cap (Tasks \ {t})
    BY KeepList, Zenon DEF Records
  <2>2. /\ firstAsleep'[a] = Keep(firstAsleep[a], Tasks \ {t})
        /\ \A b \in Addr \ {a} : firstAsleep'[b] = firstAsleep[b]
    BY <1>3, Zenon DEF Types
  <2>3. \A b \in Addr : IsList(firstAsleep'[b])
    BY <2>1, <2>2, Zenon DEF Records
  <2>4. ASSUME NEW u \in Tasks, NEW b \in Addr
        PROVE  u \in Range(firstAsleep'[b]) <=> step'[u] = "asleep" /\ above'[u] = b
    <3>1. CASE u = t
      <4>1. step'[u] # "asleep"
        BY <1>3, <3>1, Zenon DEF Types
      <4>2. b # a => u \notin Range(firstAsleep[b])
        BY <1>2, <3>1, Zenon DEF Records
      <4> QED
        BY <2>1, <2>2, <3>1, <4>1, <4>2, Zenon
    <3>2. CASE u # t
      <4>1. step'[u] = step[u] /\ above'[u] = above[u]
        BY <1>3, <3>2, Zenon DEF Types
      <4>2. u \in Range(firstAsleep'[b]) <=> u \in Range(firstAsleep[b])
        BY <2>1, <2>2, <3>2, Zenon
      <4> QED
        BY <4>1, <4>2, Zenon DEF Records
    <3> QED
      BY <3>1, <3>2, Zenon
  <2>5. \A u \in Tasks : awoken'[u] => step'[u] = "asleep" /\ state'[u] = "READY"
    BY <1>3, Zenon DEF Types, Records
  <2>6. \A u \in Tasks : state'[u] = "FUTEX" => step'[u] = "asleep"
    BY <1>3, Zenon DEF Types, Records
  <2> QED
    BY <2>3, <2>4, <2>5, <2>6, Zenon DEF Records
<1>6. Relied'
  BY <1>1, <1>3, Zenon DEF Relied, Types
<1>7. ChangeWakes'
  <2>1. SUFFICES ASSUME NEW u \in Tasks, state'[u] = "FUTEX", above'[u] = addr'[u],
                        word'[addr'[u]] # value'[u]
                 PROVE  \E x \in Tasks : step'[x] = "stored" /\ addr'[x] = addr'[u]
    BY Zenon DEF ChangeWakes
  <2>2. u # t /\ addr'[u] = addr[u] /\ value'[u] = value[u] /\ above'[u] = above[u]
    BY <1>3, <2>1, Zenon DEF Types
  <2>3. PICK x \in Tasks : step[x] = "stored" /\ addr[x] = addr[u]
    BY <1>3, <2>1, <2>2, Zenon DEF ChangeWakes
  <2>4. x # t
    BY <1>3, <2>3, Zenon
  <2> QED
    BY <1>3, <2>2, <2>3, <2>4, Zenon DEF Types
<1> QED
  BY <1>4, <1>5, <1>6, <1>7, Zenon

\* Those who sleep on a word and are not marked awoken, in order.
LEMMA SleepersOf ==
  ASSUME FutexInv, NEW a \in Addr
  PROVE  /\ IsList(Sleepers(a))
         /\ \A t : t \in Range(Sleepers(a)) <=>
                   t \in Tasks /\ step[t] = "asleep" /\ above[t] = a /\ ~awoken[t]
<1>1. IsList(firstAsleep[a])
  BY Zenon DEF FutexInv, Records
<1>2. /\ IsList(Sleepers(a))
      /\ Range(Sleepers(a)) = Range(firstAsleep[a]) \cap {t \in Tasks : ~awoken[t]}
  BY <1>1, KeepList, Zenon DEF Sleepers
<1> QED
  BY <1>2, Zenon DEF FutexInv, Records

\* futex_wake: everybody who sleeps on the word is woken.
LEMMA WakeInv ==
  ASSUME FutexInv, NEW t \in Tasks, futex_wake(t)
  PROVE  FutexInv'
<1> USE DEF FutexInv
<1>1. \A u \in Tasks \ {t} : step[u] # "checked"
  BY OnlyOneRuns, Zenon DEF futex_wake
<1>2. PICK a \in Addr : a = addr[t]
  BY Zenon DEF Types
<1>3. PICK W : W = Range(Sleepers(a))
  OBVIOUS
<1>4. \A u : u \in W <=> u \in Tasks /\ step[u] = "asleep" /\ above[u] = a /\ ~awoken[u]
  BY <1>3, SleepersOf, Zenon
<1>5. /\ step' = [step EXCEPT ![t] = "user"] /\ step[t] = "stored" /\ state[t] = "READY"
      /\ state' = [u \in Tasks |-> IF u \in W THEN "READY" ELSE state[u]]
      /\ awoken' = [u \in Tasks |-> awoken[u] \/ u \in W]
      /\ addr' = [addr EXCEPT ![t] = SomeAddr] /\ value' = [value EXCEPT ![t] = SomeValue]
      /\ UNCHANGED <<word, firstAsleep, above>>
  BY <1>2, <1>3, Zenon DEF futex_wake, At, GoTo, Return, Wake
<1>6. t \notin W
  BY <1>4, <1>5, Zenon
<1>7. /\ \A u \in Tasks : state'[u] = "FUTEX" => u \notin W /\ state[u] = "FUTEX"
      /\ \A u \in Tasks : u \in W \/ state[u] = "READY" => state'[u] = "READY"
      /\ \A u \in Tasks : step'[u] = "asleep" <=> step[u] = "asleep"
  BY <1>5, Zenon DEF Types
<1>8. Types'
  <2>1. state' \in [Tasks -> {"READY", "FUTEX"}] /\ awoken' \in [Tasks -> BOOLEAN]
    BY <1>5 DEF Types
  <2> QED
    BY <1>5, <2>1, Defaults, Zenon DEF Types
<1>9. Records'
  BY <1>4, <1>5, <1>7, Zenon DEF Records
<1>10. Relied'
  BY <1>1, <1>5, <1>7, Zenon DEF Relied, Types
<1>11. ChangeWakes'
  <2>1. SUFFICES ASSUME NEW u \in Tasks, state'[u] = "FUTEX", above'[u] = addr'[u],
                        word'[addr'[u]] # value'[u]
                 PROVE  \E x \in Tasks : step'[x] = "stored" /\ addr'[x] = addr'[u]
    BY Zenon DEF ChangeWakes
  <2>2. u # t /\ state[u] = "FUTEX" /\ u \notin W
    BY <1>5, <1>7, <2>1, Zenon
  <2>3. addr'[u] = addr[u] /\ value'[u] = value[u] /\ above'[u] = above[u]
    BY <1>5, <2>2, Zenon DEF Types
  <2>4. addr[u] # a
    <3>1. step[u] = "asleep" /\ ~awoken[u]
      BY <2>2, Zenon DEF Records
    <3>2. above[u] # a
      BY <1>4, <2>2, <3>1, Zenon
    <3> QED
      BY <2>1, <2>3, <3>2, Zenon
  <2>5. PICK x \in Tasks : step[x] = "stored" /\ addr[x] = addr[u]
    BY <1>5, <2>1, <2>2, <2>3, Zenon DEF ChangeWakes
  <2>6. x # t
    BY <1>2, <2>4, <2>5, Zenon
  <2> QED
    BY <1>5, <2>3, <2>5, <2>6, Zenon DEF Types
<1> QED
  BY <1>8, <1>9, <1>10, <1>11, Zenon

\* futex_requeue: who sleeps on the word is woken or sleeps elsewhere.
LEMMA RequeueInv ==
  ASSUME FutexInv, NEW t \in Tasks, NEW n \in Counts, NEW b \in Addr, futex_requeue(t, n, b)
  PROVE  FutexInv'
<1> USE DEF FutexInv
<1>1. \A u \in Tasks \ {t} : step[u] # "checked"
  BY OnlyOneRuns, Zenon DEF futex_requeue
<1>2. PICK a \in Addr : a = addr[t]
  BY Zenon DEF Types
<1>3. PICK S, W : S = Sleepers(a) /\ W = FirstN(S, n)
  OBVIOUS
<1>4. PICK moved : moved = Keep(S, Tasks \ W)
  OBVIOUS
<1>5. PICK M : M = Range(moved)
  OBVIOUS
<1>6. /\ <<a, b>> \in Requeues
      /\ step' = [step EXCEPT ![t] = "user"] /\ step[t] = "stored" /\ state[t] = "READY"
      /\ state' = [u \in Tasks |-> IF u \in W THEN "READY" ELSE state[u]]
      /\ awoken' = [u \in Tasks |-> awoken[u] \/ u \in W]
      /\ firstAsleep' = [firstAsleep EXCEPT ![a] = Keep(@, Tasks \ M), ![b] = @ \o moved]
      /\ above' = [u \in Tasks |-> IF u \in M THEN b ELSE above[u]]
      /\ addr' = [addr EXCEPT ![t] = SomeAddr] /\ value' = [value EXCEPT ![t] = SomeValue]
      /\ UNCHANGED word
  BY <1>2, <1>3, <1>4, <1>5, Zenon DEF futex_requeue, At, GoTo, Return, Wake
<1>7. a # b
  BY <1>6, FutexAssumption
<1>8. /\ IsList(S)
      /\ \A u : u \in Range(S) <=> u \in Tasks /\ step[u] = "asleep" /\ above[u] = a /\ ~awoken[u]
  BY <1>3, SleepersOf, Zenon
<1>9. W \in SUBSET Range(S)
  <2>1. S \in Seq(Tasks) /\ n \in Nat
    BY <1>8, FutexAssumption, Zenon DEF IsList
  <2> QED
    BY <1>3, <2>1, FirstOf, Zenon
<1>10. IsList(moved) /\ M = Range(S) \cap (Tasks \ W)
  BY <1>4, <1>5, <1>8, KeepList, Zenon
<1>11. /\ \A u : u \in W \cup M <=>
                   u \in Tasks /\ step[u] = "asleep" /\ above[u] = a /\ ~awoken[u]
       /\ W \cap M = {} /\ t \notin W \cup M
  BY <1>6, <1>8, <1>9, <1>10, Zenon
<1>12. /\ \A u \in Tasks : state'[u] = "FUTEX" => u \notin W /\ state[u] = "FUTEX"
       /\ \A u \in Tasks : u \in W \/ state[u] = "READY" => state'[u] = "READY"
       /\ \A u \in Tasks : step'[u] = "asleep" <=> step[u] = "asleep"
       /\ \A u \in Tasks : above'[u] = IF u \in M THEN b ELSE above[u]
       /\ \A u \in Tasks \ {t} : addr'[u] = addr[u] /\ value'[u] = value[u] /\ step'[u] = step[u]
  BY <1>6, Zenon DEF Types
<1>13. Types'
  <2>1. /\ state' \in [Tasks -> {"READY", "FUTEX"}] /\ awoken' \in [Tasks -> BOOLEAN]
        /\ above' \in [Tasks -> Addr]
    BY <1>6 DEF Types
  <2>2. firstAsleep' = [x \in Addr |-> firstAsleep'[x]]
    BY <1>6, Zenon DEF Types
  <2> QED
    BY <1>6, <2>1, <2>2, Defaults, Zenon DEF Types
<1>14. Records'
  <2>1. IsList(firstAsleep[a]) /\ IsList(firstAsleep[b])
    BY Zenon DEF Records
  <2>2. /\ IsList(Keep(firstAsleep[a], Tasks \ M))
        /\ Range(Keep(firstAsleep[a], Tasks \ M)) = Range(firstAsleep[a]) \cap (Tasks \ M)
    BY <2>1, KeepList, Zenon
  <2>3. Range(firstAsleep[b]) \cap M = {}
    <3>1. \A u \in M : u \in Tasks /\ above[u] = a
      BY <1>11, Zenon
    <3>2. \A u \in Tasks : u \in Range(firstAsleep[b]) => above[u] = b
      BY Zenon DEF Records
    <3> QED
      BY <1>7, <3>1, <3>2, Zenon
  <2>4. /\ IsList(firstAsleep[b] \o moved)
        /\ Range(firstAsleep[b] \o moved) = Range(firstAsleep[b]) \cup M
    BY <1>5, <1>10, <2>1, <2>3, ConcatList, Zenon
  <2>5. /\ firstAsleep'[a] = Keep(firstAsleep[a], Tasks \ M)
        /\ firstAsleep'[b] = firstAsleep[b] \o moved
        /\ \A c \in Addr \ {a, b} : firstAsleep'[c] = firstAsleep[c]
    BY <1>6, <1>7, Zenon DEF Types
  <2>6. \A c \in Addr : IsList(firstAsleep'[c])
    BY <2>2, <2>4, <2>5, Zenon DEF Records
  <2>7. ASSUME NEW u \in Tasks, NEW c \in Addr
        PROVE  u \in Range(firstAsleep'[c]) <=> step'[u] = "asleep" /\ above'[u] = c
    <3>1. step'[u] = "asleep" <=> step[u] = "asleep"
      BY <1>12, Zenon
    <3>2. u \in Range(firstAsleep[c]) <=> step[u] = "asleep" /\ above[u] = c
      BY Zenon DEF Records
    <3>3. CASE u \in M
      <4>1. step[u] = "asleep" /\ above[u] = a /\ above'[u] = b
        BY <1>11, <1>12, <3>3, Zenon
      <4>2. CASE c = a
        BY <1>7, <2>2, <2>5, <3>3, <4>1, <4>2, Zenon
      <4>3. CASE c = b
        BY <2>4, <2>5, <3>1, <3>3, <4>1, <4>3, Zenon
      <4>4. CASE c \notin {a, b}
        BY <2>5, <3>2, <4>1, <4>4, Zenon
      <4> QED
        BY <4>2, <4>3, <4>4, Zenon
    <3>4. CASE u \notin M
      <4>1. above'[u] = above[u]
        BY <1>12, <3>4, Zenon
      <4>2. u \in Range(firstAsleep'[c]) <=> u \in Range(firstAsleep[c])
        BY <2>2, <2>4, <2>5, <3>4, Zenon
      <4> QED
        BY <3>1, <3>2, <4>1, <4>2, Zenon
    <3> QED
      BY <3>3, <3>4, Zenon
  <2>8. \A u \in Tasks : awoken'[u] => step'[u] = "asleep" /\ state'[u] = "READY"
    BY <1>6, <1>11, <1>12, Zenon DEF Records
  <2>9. \A u \in Tasks : state'[u] = "FUTEX" => step'[u] = "asleep"
    BY <1>12, Zenon DEF Records
  <2> QED
    BY <2>6, <2>7, <2>8, <2>9, Zenon DEF Records
<1>15. Relied'
  <2>1. \A u \in Tasks : step'[u] # "checked"
    BY <1>1, <1>6, Zenon DEF Types
  <2>2. ASSUME NEW u \in Tasks, step'[u] = "asleep"
        PROVE  above'[u] = addr'[u] \/ <<addr'[u], above'[u]>> \in Requeues
    <3>1. u # t /\ step[u] = "asleep" /\ addr'[u] = addr[u]
      BY <1>6, <1>12, <2>2, Zenon
    <3>2. above[u] = addr[u] \/ <<addr[u], above[u]>> \in Requeues
      BY <3>1, Zenon DEF Relied
    <3>3. CASE u \in M
      <4>1. above[u] = a /\ above'[u] = b
        BY <1>11, <1>12, <3>3, Zenon
      <4>2. <<addr[u], a>> \notin Requeues
        BY <1>6, FutexAssumption
      <4> QED
        BY <1>6, <3>1, <3>2, <4>1, <4>2, Zenon
    <3>4. CASE u \notin M
      BY <1>12, <3>1, <3>2, <3>4, Zenon
    <3> QED
      BY <3>3, <3>4, Zenon
  <2> QED
    BY <2>1, <2>2, Zenon DEF Relied
<1>16. ChangeWakes'
  <2>1. SUFFICES ASSUME NEW u \in Tasks, state'[u] = "FUTEX", above'[u] = addr'[u],
                        word'[addr'[u]] # value'[u]
                 PROVE  \E x \in Tasks : step'[x] = "stored" /\ addr'[x] = addr'[u]
    BY Zenon DEF ChangeWakes
  <2>2. u # t /\ state[u] = "FUTEX" /\ u \notin W /\ step[u] = "asleep" /\ ~awoken[u]
    BY <1>6, <1>12, <2>1, Zenon DEF Records
  <2>3. addr'[u] = addr[u] /\ value'[u] = value[u]
    BY <1>12, <2>2, Zenon
  <2>4. u \notin M
    <3>1. SUFFICES ASSUME u \in M PROVE FALSE
      BY Zenon
    <3>2. above[u] = a /\ above'[u] = b
      BY <1>11, <1>12, <3>1, Zenon
    <3>3. <<addr[u], a>> \notin Requeues
      BY <1>6, FutexAssumption
    <3>4. addr[u] = a
      BY <2>2, <3>2, <3>3, Zenon DEF Relied
    <3> QED
      BY <1>7, <2>1, <2>3, <3>2, <3>4, Zenon
  <2>5. above'[u] = above[u]
    BY <1>12, <2>4, Zenon
  <2>6. addr[u] # a
    BY <1>11, <2>1, <2>2, <2>3, <2>4, <2>5, Zenon
  <2>7. PICK x \in Tasks : step[x] = "stored" /\ addr[x] = addr[u]
    BY <1>6, <2>1, <2>2, <2>3, <2>5, Zenon DEF ChangeWakes
  <2>8. x # t
    BY <1>2, <2>6, <2>7, Zenon
  <2> QED
    BY <1>12, <2>3, <2>7, <2>8, Zenon
<1> QED
  BY <1>13, <1>14, <1>15, <1>16, Zenon

(***************************************************************************)
(* WakesReachSleepers: futexSyscall loses no wake-up, whatever tasks wait, *)
(* wake and move sleepers, as long as tasks are switched in hand_control   *)
(* only.  A task that sleeps past the change it waits for is about to be   *)
(* woken, and its record is in the list where a wake looks for it.         *)
(***************************************************************************)
THEOREM NoWakeUpLost ==
  ASSUME Preemptive = FALSE
  PROVE  FutexSpec => []WakesReachSleepers
<1>1. FutexInv /\ [FutexStep]_futexVars => FutexInv'
  <2> SUFFICES ASSUME FutexInv, [FutexStep]_futexVars PROVE FutexInv'
    BY Zenon
  <2>1. CASE UNCHANGED futexVars
    <3>1. Types' /\ Records'
      BY <2>1, Zenon DEF futexVars, FutexInv, Types, Records
    <3>2. Relied' /\ ChangeWakes'
      BY <2>1, Zenon DEF futexVars, FutexInv, Relied, ChangeWakes
    <3> QED
      BY <3>1, <3>2, Zenon DEF FutexInv
  <2>2. ASSUME NEW t \in Tasks, Continue(t) PROVE FutexInv'
    BY <2>2, AsleepInv, WakeUpInv, WakeInv, RequeueInv, Zenon DEF Continue
  <2> QED
    BY <2>1, <2>2, StoreInv, WaitInv, ExpireInv, Zenon DEF FutexStep
<1>2. FutexInv => WakesReachSleepers
  BY Zenon DEF FutexInv, Records, IsList, WakesReachSleepers, RecordIsListed
<1> QED
  BY <1>1, <1>2, InitInv, PTL DEF FutexSpec

-----------------------------------------------------------------------------
(***************************************************************************)
(* The counting lock.                                                      *)
(***************************************************************************)
VARIABLES cnt, locked, taskPc, lockCpu, halted

Lock == INSTANCE Spinlock WITH pc <- taskPc, cpu <- lockCpu

LockTypes ==
  /\ cnt \in Int
  /\ locked \in BOOLEAN
  /\ taskPc \in [Tasks -> Lock!Points]
  /\ lockCpu \in Tasks \cup {NoTask}
  /\ halted = FALSE

(***************************************************************************)
(* A task between the loop that tests cnt and the store has the processor, *)
(* and what it tested still holds: this is where preemption would break    *)
(* the lock.                                                               *)
(***************************************************************************)
Tested ==
  /\ \A t \in Tasks : taskPc[t] = "count" => lockCpu = t /\ cnt >= 0
  /\ \A t \in Tasks : taskPc[t] = "mark" => lockCpu = t /\ cnt = 0

Counted ==
  /\ Lock!Writers # {} => cnt = -1
  /\ Lock!Writers = {} => cnt = Cardinality(Lock!Readers)

LockInv == LockTypes /\ Tested /\ Counted /\ Lock!WriterAlone

\* The readers are finitely many: their number is a natural number, zero
\* only if there is none, and changes by one with one reader.
LEMMA ReaderCount ==
  ASSUME IsFiniteSet(Tasks), NEW R \in SUBSET Tasks
  PROVE  /\ Cardinality(R) \in Nat
         /\ Cardinality(R) <= Cardinality(Tasks)
         /\ Cardinality(Tasks) \in Nat
         /\ Cardinality(R) = 0 <=> R = {}
         /\ \A t \in Tasks \ R : Cardinality(R \cup {t}) = Cardinality(R) + 1
         /\ \A t \in R : Cardinality(R \ {t}) = Cardinality(R) - 1
<1>1. IsFiniteSet(R)
  BY FS_Subset, Zenon
<1>2. Cardinality(R) \in Nat /\ Cardinality(Tasks) \in Nat
  BY <1>1, FS_CardinalityType, Zenon
<1>3. Cardinality(R) <= Cardinality(Tasks)
  BY FS_Subset, Zenon
<1>4. Cardinality(R) = 0 <=> R = {}
  BY <1>1, FS_EmptySet, Zenon
<1>5. \A t \in Tasks \ R : Cardinality(R \cup {t}) = Cardinality(R) + 1
  BY <1>1, FS_AddElement, Zenon
<1>6. \A t \in R : Cardinality(R \ {t}) = Cardinality(R) - 1
  BY <1>1, FS_RemoveElement, Zenon
<1> QED
  BY <1>2, <1>3, <1>4, <1>5, <1>6, Zenon

\* Init: nobody is inside.
LEMMA LockInitInv ==
  ASSUME IsFiniteSet(Tasks) PROVE Lock!Init => LockInv
<1> SUFFICES ASSUME Lock!Init PROVE LockInv
  BY Zenon
<1>1. Lock!Writers = {} /\ Lock!Readers = {}
  BY Zenon DEF Lock!Init, Lock!Writers, Lock!Readers
<1>2. Cardinality({}) = 0
  BY FS_EmptySet, Zenon
<1>3. cnt \in Int /\ taskPc \in [Tasks -> Lock!Points] /\ Tested
  BY DEF Lock!Init, Tested, Lock!Points
<1>4. locked \in BOOLEAN /\ lockCpu \in Tasks \cup {NoTask} /\ halted = FALSE
  BY Zenon DEF Lock!Init
<1> QED
  BY <1>1, <1>2, <1>3, <1>4, Zenon DEF LockInv, LockTypes, Counted, Lock!WriterAlone, Lock!Init

\* Each step of a task preserves the invariant.
LEMMA LockStepInv ==
  ASSUME IsFiniteSet(Tasks), NoTask \notin Tasks, Preemptive = FALSE,
         LockInv, NEW t \in Tasks, Lock!Step(t)
  PROVE  LockInv'
<1> USE DEF LockInv
<1>1. \A u \in Tasks \ {t} : taskPc[u] \notin {"count", "mark"}
  BY Zenon
       DEF LockTypes, Tested, Lock!Step, Lock!Runs, Lock!hand_control, Lock!read_acquire,
         Lock!count, Lock!spinlock_cnt_read_release, Lock!write_acquire, Lock!mark,
         Lock!spinlock_cnt_write_release, Lock!spinlock_acquire, Lock!spinlock_release
<1>2. Lock!Readers \in SUBSET Tasks
  BY Zenon DEF Lock!Readers
<1>3. /\ Cardinality(Lock!Readers) \in Nat
      /\ Cardinality(Lock!Readers) = 0 <=> Lock!Readers = {}
      /\ t \notin Lock!Readers => Cardinality(Lock!Readers \cup {t}) = Cardinality(Lock!Readers) + 1
      /\ t \in Lock!Readers => Cardinality(Lock!Readers \ {t}) = Cardinality(Lock!Readers) - 1
  BY <1>2, ReaderCount, Zenon
<1>4. CASE Lock!hand_control(t)
  <2>1. LockTypes' /\ Tested'
    BY <1>1, <1>4, Zenon DEF Lock!hand_control, LockTypes, Tested
  <2>2. Lock!Readers' = Lock!Readers /\ Lock!Writers' = Lock!Writers /\ cnt' = cnt
    BY <1>4, Zenon DEF Lock!hand_control, Lock!Readers, Lock!Writers
  <2> QED
    BY <2>1, <2>2, Zenon DEF Counted, Lock!WriterAlone
<1>5. CASE Lock!read_acquire(t) \/ Lock!write_acquire(t) \/ Lock!spinlock_acquire(t)
  <2>1. LockTypes' /\ Tested'
    BY <1>1, <1>5, Zenon
         DEF Lock!read_acquire, Lock!write_acquire, Lock!spinlock_acquire, Lock!GoTo, Lock!Points,
         LockTypes, Tested
  <2>2. Lock!Readers' = Lock!Readers /\ Lock!Writers' = Lock!Writers /\ cnt' = cnt
    BY <1>5, Zenon
         DEF Lock!read_acquire, Lock!write_acquire, Lock!spinlock_acquire, Lock!GoTo, Lock!Readers,
         Lock!Writers, LockTypes
  <2> QED
    BY <2>1, <2>2, Zenon DEF Counted, Lock!WriterAlone
<1>6. CASE Lock!count(t)
  <2>1. LockTypes' /\ Tested'
    BY <1>1, <1>6 DEF Lock!count, Lock!GoTo, LockTypes, Tested, Lock!Points
  <2>2. cnt >= 0 /\ Lock!Writers = {}
    BY <1>6 DEF Lock!count, LockTypes, Tested, Counted
  <2>3. /\ Lock!Readers' = Lock!Readers \cup {t} /\ t \notin Lock!Readers
        /\ Lock!Writers' = Lock!Writers /\ cnt' = cnt + 1
    BY <1>6, Zenon DEF Lock!count, Lock!GoTo, Lock!Readers, Lock!Writers, LockTypes
  <2> QED
    BY <1>3, <2>1, <2>2, <2>3, Zenon DEF Counted, Lock!WriterAlone
<1>7. CASE Lock!spinlock_cnt_read_release(t)
  <2>1. t \in Lock!Readers
    BY <1>7, Zenon DEF Lock!spinlock_cnt_read_release, Lock!Readers
  <2>2. Lock!Writers = {}
    BY <2>1, Zenon DEF Lock!WriterAlone
  <2>3. cnt = Cardinality(Lock!Readers) /\ ~(cnt < 0)
    BY <1>3, <2>2 DEF Counted
  <2>4. cnt' = cnt - 1 /\ Lock!GoTo(t, "out", FALSE) /\ UNCHANGED <<locked, halted>>
    BY <1>7, <2>3, Zenon DEF Lock!spinlock_cnt_read_release
  <2>5. LockTypes' /\ Tested'
    BY <1>1, <2>4 DEF Lock!GoTo, LockTypes, Tested, Lock!Points
  <2>6. Lock!Readers' = Lock!Readers \ {t} /\ Lock!Writers' = Lock!Writers
    BY <2>1, <2>4, Zenon DEF Lock!GoTo, Lock!Readers, Lock!Writers, LockTypes
  <2> QED
    BY <1>3, <2>1, <2>2, <2>3, <2>4, <2>5, <2>6, Zenon DEF Counted, Lock!WriterAlone
<1>8. CASE Lock!mark(t)
  <2>1. LockTypes' /\ Tested'
    BY <1>1, <1>8 DEF Lock!mark, Lock!GoTo, LockTypes, Tested, Lock!Points
  <2>2. Lock!Writers = {} /\ Lock!Readers = {}
    BY <1>3, <1>8 DEF Lock!mark, Tested, Counted
  <2>3. Lock!Writers' = {t} /\ Lock!Readers' = {} /\ cnt' = -1
    BY <1>8, <2>2, Zenon DEF Lock!mark, Lock!GoTo, Lock!Readers, Lock!Writers, LockTypes
  <2> QED
    BY <2>1, <2>3, Zenon DEF Counted, Lock!WriterAlone
<1>9. CASE Lock!spinlock_cnt_write_release(t)
  <2>1. Lock!Writers = {t} /\ Lock!Readers = {} /\ cnt = -1
    BY <1>9, Zenon DEF Lock!spinlock_cnt_write_release, Lock!Writers, Counted, Lock!WriterAlone
  <2>2. cnt' = 0 /\ Lock!GoTo(t, "out", FALSE) /\ UNCHANGED <<locked, halted>>
    BY <1>9, <2>1, Zenon DEF Lock!spinlock_cnt_write_release
  <2>3. LockTypes' /\ Tested'
    BY <1>1, <2>2 DEF Lock!GoTo, LockTypes, Tested, Lock!Points
  <2>4. Lock!Writers' = {} /\ Lock!Readers' = {}
    BY <2>1, <2>2, Zenon DEF Lock!GoTo, Lock!Readers, Lock!Writers, LockTypes
  <2> QED
    BY <1>3, <2>1, <2>2, <2>3, <2>4, Zenon DEF Counted, Lock!WriterAlone
<1>10. CASE Lock!spinlock_release(t)
  <2>1. LockTypes' /\ Tested'
    BY <1>1, <1>10, Zenon DEF Lock!spinlock_release, Lock!GoTo, LockTypes, Tested, Lock!Points
  <2>2. Lock!Readers' = Lock!Readers /\ Lock!Writers' = Lock!Writers /\ cnt' = cnt
    BY <1>10, Zenon DEF Lock!spinlock_release, Lock!GoTo, Lock!Readers, Lock!Writers, LockTypes
  <2> QED
    BY <2>1, <2>2, Zenon DEF Counted, Lock!WriterAlone
<1> QED
  BY <1>4, <1>5, <1>6, <1>7, <1>8, <1>9, <1>10, Zenon DEF Lock!Step

\* The invariant implies what LocksExclude says.
LEMMA InvExcludes ==
  ASSUME IsFiniteSet(Tasks), LockInv PROVE Lock!LocksExclude
<1>1. /\ Cardinality(Lock!Readers) \in Nat
      /\ Cardinality(Lock!Readers) <= Cardinality(Tasks)
      /\ Cardinality(Tasks) \in Nat
  BY ReaderCount, Zenon DEF Lock!Readers
<1>2. cnt = IF Lock!Writers # {} THEN -1 ELSE Cardinality(Lock!Readers)
  BY Zenon DEF LockInv, Counted
<1>3. cnt \in -1 .. Cardinality(Tasks)
  BY <1>1, <1>2
<1>4. \A S : Lock!Cardinality(S) = Cardinality(S)
  BY Zenon DEF Lock!Cardinality, Cardinality
<1> QED
  BY <1>2, <1>3, <1>4, Zenon
       DEF LockInv, LockTypes, Lock!LocksExclude, Lock!CountIsExact, Lock!TypeOK

(***************************************************************************)
(* spinlock_cnt_read_acquire and spinlock_cnt_write_acquire exclude each   *)
(* other, and the release functions never find a count they halt on,       *)
(* however many tasks there are, as long as tasks are switched in          *)
(* hand_control only.                                                      *)
(***************************************************************************)
THEOREM CountingLock ==
  ASSUME IsFiniteSet(Tasks), NoTask \notin Tasks, Preemptive = FALSE
  PROVE  Lock!Spec => []Lock!LocksExclude
<1>1. Lock!Init => LockInv
  BY LockInitInv, Zenon
<1>2. LockInv /\ [Lock!Next]_(Lock!vars) => LockInv'
  <2> SUFFICES ASSUME LockInv, [Lock!Next]_(Lock!vars) PROVE LockInv'
    BY Zenon
  <2>1. CASE UNCHANGED Lock!vars
    BY <2>1, Zenon
         DEF Lock!vars, Lock!WriterAlone, Lock!Readers, Lock!Writers, LockInv, LockTypes, Tested,
         Counted
  <2>2. CASE Lock!Next
    BY <2>2, LockStepInv, Zenon DEF Lock!Next
  <2> QED
    BY <2>1, <2>2, Zenon
<1>3. LockInv => Lock!LocksExclude
  BY InvExcludes, Zenon
<1> QED
  BY <1>1, <1>2, <1>3, PTL DEF Lock!Spec

-----------------------------------------------------------------------------
(***************************************************************************)
(* The lock of the heap: what the main loop finds free under the lock no   *)
(* interrupt handler takes.  The store that sets a lock is not part of the *)
(* test before it, so the proof needs the fact that makes this safe on one *)
(* processor: outside a handler no handler is inside the heap.             *)
(***************************************************************************)

InsideVirtual == {"wait_physical", "set_physical", "locked", "mark", "unlock"}
InsideBoth    == {"locked", "mark", "unlock"}

(***************************************************************************)
(* A context never passes a lock that the other one holds.                 *)
(***************************************************************************)
Exclusion ==
    /\ ~ in_irq => pc["irq"] = "idle"
    /\ lock["virtual"] <=> \E c \in Contexts : pc[c] \in InsideVirtual
    /\ lock["physical"] <=>
          \E c \in Contexts : pc[c] \in InsideBoth \cup {"release_physical"}
    /\ pc["main"] \in InsideVirtual => pc["irq"] \in {"idle", "wait_virtual"}
    /\ pc["main"] = "release_physical" =>
          pc["irq"] \in {"idle", "wait_virtual", "set_virtual", "wait_physical"}

(***************************************************************************)
(* The pages: a page found is found by the context inside the heap and is  *)
(* unmarked, and pages owned are marked and owned once.                    *)
(***************************************************************************)
Ownership ==
    /\ \A c \in Contexts : found[c] # NoPage <=> pc[c] = "mark"
    /\ \A c \in Contexts : found[c] \notin used
    /\ \A c \in Contexts : owns[c] \subseteq used
    /\ owns["main"] \cap owns["irq"] = {}

HeapLockInv == TypeOK /\ Exclusion /\ Ownership

USE DEF Contexts, Locks

(***************************************************************************)
(* Nothing is held, found or owned when the kernel starts.                 *)
(***************************************************************************)
LEMMA HeapLockInit == Init => HeapLockInv
  BY PagesAssumption, Zenon DEF Init, HeapLockInv, TypeOK, Exclusion, Ownership, NoPage,
                         InsideVirtual, InsideBoth

(***************************************************************************)
(* Every step of a context, and taking or leaving an interrupt, keeps the  *)
(* invariant.                                                              *)
(***************************************************************************)
LEMMA HeapLockStep == HeapLockInv /\ [Next]_vars => HeapLockInv'
  <1> SUFFICES ASSUME HeapLockInv, [Next]_vars PROVE HeapLockInv'
    BY Zenon
  <1> USE PagesAssumption DEF HeapLockInv, Runs, Goto, Memory, NoPage, InsideVirtual, InsideBoth
  <1>1. ASSUME NEW c \in Contexts, Call(c) PROVE HeapLockInv'
    BY <1>1 DEF Call, TypeOK, Exclusion, Ownership
  <1>2. ASSUME NEW c \in Contexts, virtual_spinlock_acquire(c) PROVE HeapLockInv'
    <2>1. CASE spinlock(c, "virtual", "wait_virtual", "set_virtual")
      BY <2>1, Zenon DEF spinlock, TypeOK, Exclusion, Ownership
    <2>2. CASE SetLock(c, "virtual", TRUE, "set_virtual", "wait_physical")
      BY <2>2, Zenon DEF SetLock, TypeOK, Exclusion, Ownership
    <2>3. CASE spinlock(c, "physical", "wait_physical", "set_physical")
      BY <2>3, Zenon DEF spinlock, TypeOK, Exclusion, Ownership
    <2>4. CASE SetLock(c, "physical", TRUE, "set_physical", "locked")
      BY <2>4, Zenon DEF SetLock, TypeOK, Exclusion, Ownership
    <2> QED BY <1>2, <2>1, <2>2, <2>3, <2>4 DEF virtual_spinlock_acquire
  <1>3. ASSUME NEW c \in Contexts, InHeap(c) PROVE HeapLockInv'
    <2>1. CASE find_free_region(c)
      BY <2>1 DEF find_free_region, TypeOK, Exclusion, Ownership
    <2>2. CASE mark_blocks(c)
      <3>1. found[c] \in Pages /\ found[c] \notin used
        BY <2>2, Zenon DEF mark_blocks, TypeOK, Ownership
      <3>2. TypeOK'
        BY <2>2, <3>1, Zenon DEF mark_blocks, TypeOK
      <3>3. Exclusion'
        BY <2>2, Zenon DEF mark_blocks, TypeOK, Exclusion
      <3>4. \A d \in Contexts : d # c => pc[d] # "mark" /\ found[d] = NoPage
        BY <2>2, Zenon DEF mark_blocks, TypeOK, Exclusion, Ownership
      <3>5. /\ \A d \in Contexts : found'[d] = NoPage
            /\ \A d \in Contexts : pc'[d] # "mark"
        BY <2>2, <3>4, Zenon DEF mark_blocks, TypeOK
      <3>6. NoPage \notin used'
        BY <3>2 DEF TypeOK
      <3>7. /\ \A d \in Contexts : owns'[d] \subseteq used'
            /\ owns'["main"] \cap owns'["irq"] = {}
        BY <2>2, <3>1, Zenon DEF mark_blocks, TypeOK, Ownership
      <3> QED BY <3>2, <3>3, <3>5, <3>6, <3>7 DEF Ownership
    <2>3. CASE physical_free(c)
      BY <2>3 DEF physical_free, TypeOK, Exclusion, Ownership
    <2>4. CASE no_pages_needed(c)
      BY <2>4, Zenon DEF no_pages_needed, TypeOK, Exclusion, Ownership
    <2> QED BY <1>3, <2>1, <2>2, <2>3, <2>4 DEF InHeap
  <1>4. ASSUME NEW c \in Contexts, virtual_spinlock_release(c) PROVE HeapLockInv'
    <2>1. CASE SetLock(c, "virtual", FALSE, "unlock", "release_physical")
      BY <2>1, Zenon DEF SetLock, TypeOK, Exclusion, Ownership
    <2>2. CASE SetLock(c, "physical", FALSE, "release_physical", "idle")
      BY <2>2, Zenon DEF SetLock, TypeOK, Exclusion, Ownership
    <2> QED BY <1>4, <2>1, <2>2 DEF virtual_spinlock_release
  <1>5. CASE interrupt
    BY <1>5, Zenon DEF interrupt, TypeOK, Exclusion, Ownership
  <1>6. CASE iretq
    BY <1>6, Zenon DEF iretq, TypeOK, Exclusion, Ownership
  <1>7. CASE UNCHANGED vars
    BY <1>7, Zenon DEF vars, TypeOK, Exclusion, Ownership
  <1> QED BY <1>1, <1>2, <1>3, <1>4, <1>5, <1>6, <1>7 DEF Next

(***************************************************************************)
(* The invariant holds always.                                             *)
(***************************************************************************)
LEMMA HeapLockStays == Spec => []HeapLockInv
  BY HeapLockInit, HeapLockStep, PTL DEF Spec

(***************************************************************************)
(* For every set of pages: a page found free under the heap lock is still  *)
(* free when it is marked, and no page is owned by the main loop and a     *)
(* handler at once (bitmap_allocate under liballoc_lock).                  *)
(***************************************************************************)
THEOREM HeapExclusion == Spec => []FoundPageStaysFree
  <1>1. HeapLockInv => FoundPageStaysFree
    BY Zenon DEF HeapLockInv, Ownership, FoundPageStaysFree
  <1> QED BY <1>1, HeapLockStays, PTL

(***************************************************************************)
(* Each bitmap lock is set exactly while a context is between taking and   *)
(* releasing it: liballoc_unlock leaves no lock behind.                    *)
(***************************************************************************)
THEOREM NoLockLeftBehind == Spec => []LockHasHolder
  <1>1. HeapLockInv => LockHasHolder
    BY Zenon DEF HeapLockInv, Exclusion, LockHasHolder, Holding, InsideVirtual, InsideBoth
  <1> QED BY <1>1, HeapLockStays, PTL

=============================================================================
