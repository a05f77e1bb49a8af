--------------------------- MODULE DesktopProofs ---------------------------
(***************************************************************************)
(* Proofs about Desktop, for any number of slots, buttons and windows.     *)
(* Each function of the code has a lemma: what it makes of a desktop g     *)
(* whose globals fit together.                                             *)
(***************************************************************************)
EXTENDS Desktop, FiniteSetTheorems, WellFoundedInduction, TLAPS

WindowSet == [live : BOOLEAN, active : BOOLEAN, minimized : BOOLEAN, type : WindowTypes]
ButtonKinds == TitleButtons \cup {"none", "start", "task", "freed"}

\* What the registry's functions leave alone.
SameInput(g, h) ==
    /\ h.grabbed_window = g.grabbed_window
    /\ h.pressed_icon = g.pressed_icon
    /\ h.g_start_menu_open = g.g_start_menu_open
    /\ h.old_clickedLeft = g.old_clickedLeft
    /\ h.old_clickedRight = g.old_clickedRight

\* The registry, the taskbar, the active window, and what is held.
Reg(g) == g \in Gui /\ RegistryLive(g)
Bar(g) ==
    /\ Mirror(g)
    /\ Cardinality(UsedSlots(g)) < MAX_NUM_OF_BUTTONS => g.button_arr = UsedSlots(g)
Act(g) ==
    /\ Activity(g)
    /\ Typing(g)
    /\ g.active_xp_window # NULL => g.windows[g.active_xp_window].live
Held(g) ==
    /\ g.grabbed_window # NULL => g.windows[g.grabbed_window].live
    /\ g.pressed_button.kind \in TitleButtons \cup {"task"} =>
          g.pressed_button.of # NULL /\ g.windows[g.pressed_button.of].live

Core(g) == Reg(g) /\ Bar(g) /\ Act(g)

(***************************************************************************)
(* Sets of slots have a first and a last member.                           *)
(***************************************************************************)
LEMMA LeastExists ==
  ASSUME NEW S \in SUBSET Nat, S # {}
  PROVE  \E s \in S : \A t \in S : s <= t
<1>1. PICK s \in S : \A t \in S : ~ (<<t, s>> \in OpToRel(<, Nat))
  BY NatLessThanWellFounded, WFMin, Zenon
<1>2. ASSUME NEW t \in S PROVE s <= t
  <2>1. ~ (<<t, s>> \in {p \in Nat \X Nat : p[1] < p[2]})
    BY <1>1, Zenon DEF OpToRel
  <2> QED
    BY <2>1
<1> QED
  BY <1>2, Zenon

\* The first slot of a set is in the set.
LEMMA LowestIs ==
  ASSUME NEW S \in SUBSET Nat, S # {} PROVE Lowest(S) \in S
<1>1. \E s \in S : \A t \in S : s <= t
  BY LeastExists, Zenon
<1> QED
  BY <1>1, Zenon DEF Lowest

\* The last slot of a set is in the set.
LEMMA HighestIs ==
  ASSUME NEW S \in SUBSET Slots, S # {} PROVE Highest(S) \in S
<1> DEFINE T == {MAX_NUM_OF_WINDOWS - i : i \in S}
<1>0. MAX_NUM_OF_WINDOWS \in Nat
  BY DesktopAssumption, Zenon
<1>1. T \in SUBSET Nat /\ T # {}
  <2>1. \A i \in S : i \in Int /\ 1 <= i /\ i <= MAX_NUM_OF_WINDOWS
    BY <1>0 DEF Slots
  <2>2. \A i \in S : MAX_NUM_OF_WINDOWS - i \in Nat
    BY <1>0, <2>1
  <2> QED
    BY <2>2, Zenon
<1>2. PICK m \in T : \A t \in T : m <= t
  <2> HIDE DEF T
  <2> QED
    BY <1>1, LeastExists, Zenon
<1>3. PICK i \in S : m = MAX_NUM_OF_WINDOWS - i
  BY Zenon
<1>4. ASSUME NEW j \in S PROVE j <= i
  <2>1. m <= MAX_NUM_OF_WINDOWS - j
    BY <1>2, Zenon
  <2>2. i \in Int /\ j \in Int
    BY <1>0 DEF Slots
  <2> QED
    BY <1>0, <1>3, <2>1, <2>2
<1> QED
  BY <1>4, Zenon DEF Highest

(***************************************************************************)
(* set_active_xp_window leaves exactly the given window active, whatever   *)
(* was active before.                                                      *)
(***************************************************************************)
LEMMA SetActive ==
  ASSUME NEW g, Reg(g), NEW win \in Windows, g.windows[win].live,
         NEW h, h = set_active_xp_window(g, win)
  PROVE  /\ Reg(h) /\ Act(h) /\ (Bar(g) => Bar(h))
         /\ SameInput(g, h)
         /\ h.pressed_button = g.pressed_button
         /\ h.window_arr = g.window_arr
         /\ h.window_buttons = g.window_buttons
         /\ h.button_arr = g.button_arr
         /\ \A w \in Windows : /\ h.windows[w].live = g.windows[w].live
                               /\ h.windows[w].type = g.windows[w].type
<1>0. g \in Gui
  BY Zenon DEF Reg
<1>1. /\ h.window_arr = g.window_arr
      /\ h.active_xp_window = win
      /\ h.active_console = IF g.windows[win].type = "console" THEN win ELSE g.active_console
      /\ h.window_buttons = g.window_buttons
      /\ h.button_arr = g.button_arr
      /\ h.pressed_button = g.pressed_button
      /\ SameInput(g, h)
  BY <1>0, Zenon DEF set_active_xp_window, Gui, SameInput
<1>2. h.windows = [w \in Windows |->
                  [g.windows[w] EXCEPT !.active =
                      IF w = win THEN TRUE ELSE @ /\ w \notin Registered(g)]]
  BY <1>0, Zenon DEF set_active_xp_window, Gui
<1>3. ASSUME NEW w \in Windows
      PROVE  /\ h.windows[w].live = g.windows[w].live
             /\ h.windows[w].type = g.windows[w].type
             /\ w = win => h.windows[w].active = TRUE
             /\ w # win /\ w \in Registered(g) => h.windows[w].active = FALSE
             /\ h.windows[w] \in WindowSet
  <2>1. g.windows[w] \in WindowSet
    BY <1>0, Zenon DEF Gui, WindowSet
  <2>2. h.windows[w] = [g.windows[w] EXCEPT !.active =
                      IF w = win THEN TRUE ELSE @ /\ w \notin Registered(g)]
    BY <1>2, Zenon
  <2>3. (IF w = win THEN TRUE ELSE g.windows[w].active /\ w \notin Registered(g)) \in BOOLEAN
    BY Zenon
  <2> QED
    BY <2>1, <2>2, <2>3, Zenon DEF WindowSet
<1>4. h.windows \in [Windows -> WindowSet]
  BY <1>2, <1>3, Zenon
<1>5. h \in Gui
  BY <1>0, <1>1, <1>4, Zenon DEF Gui, set_active_xp_window, WindowSet
<1>6. Reg(h)
  <2>1. \A i \in Slots : g.window_arr[i] \in Windows \cup {NULL}
    BY <1>0, Zenon DEF Gui
  <2>2. ASSUME NEW i \in Slots, h.window_arr[i] # NULL PROVE h.windows[h.window_arr[i]].live
    <3>1. g.window_arr[i] \in Windows /\ g.windows[g.window_arr[i]].live
      BY <1>1, <2>1, <2>2, Zenon DEF Reg, RegistryLive
    <3> QED
      BY <1>1, <1>3, <3>1, Zenon
  <2>3. \A i, j \in Slots : h.window_arr[i] = h.window_arr[j] /\ h.window_arr[i] # NULL => i = j
    BY <1>1 DEF Reg, RegistryLive
  <2> QED
    BY <1>5, <2>2, <2>3, Zenon DEF Reg, RegistryLive
<1>7. win # NULL
  BY DEF Windows, NULL
<1>8. Act(h)
  <2>1. Registered(h) = Registered(g) /\ Registered(h) \subseteq Windows
    BY <1>1, Zenon DEF Registered
  <2>2. Activity(h)
    <3>1. ASSUME NEW w \in Registered(h) PROVE h.windows[w].active <=> w = h.active_xp_window
      BY <1>1, <1>3, <2>1, Zenon
    <3> QED
      BY <1>1, <1>7, <3>1, Zenon DEF Activity
  <2>3. Typing(h)
    <3>1. h.windows[win].type = g.windows[win].type
      BY <1>3, Zenon
    <3> QED
      BY <1>1, <3>1, Zenon DEF Typing
  <2>4. h.windows[h.active_xp_window].live
    BY <1>1, <1>3, Zenon
  <2> QED
    BY <2>2, <2>3, <2>4, Zenon DEF Act
<1>9. Bar(g) => Bar(h)
  BY <1>1, Zenon DEF Bar, Mirror, UsedSlots
<1> QED
  BY <1>1, <1>3, <1>6, <1>8, <1>9, Zenon

(***************************************************************************)
(* taskbar_sync_windows makes the taskbar fit the registry; only a pressed *)
(* taskbar button suffers.                                                 *)
(***************************************************************************)
Frees(g, h) ==
    \/ h.pressed_button = g.pressed_button
    \/ g.pressed_button.kind = "task" /\ h.pressed_button.kind = "freed"

\* The taskbar follows the registry; a pressed button of it is freed.
LEMMA Sync ==
  ASSUME NEW g, Reg(g), NEW h, h = taskbar_sync_windows(g)
  PROVE  /\ Reg(h) /\ Bar(h) /\ (Act(g) => Act(h))
         /\ SameInput(g, h)
         /\ Frees(g, h)
         /\ h.windows = g.windows
         /\ h.window_arr = g.window_arr
<1>0. g \in Gui
  BY Zenon DEF Reg
<1> DEFINE b == IF g.pressed_button.kind = "task" THEN [g.pressed_button EXCEPT !.kind = "freed"]
                                                  ELSE g.pressed_button
           reg == {i \in UsedSlots(g) : register_xp_button(g, i)}
<1>1. /\ h.window_arr = g.window_arr
      /\ h.windows = g.windows
      /\ h.active_xp_window = g.active_xp_window
      /\ h.active_console = g.active_console
      /\ h.window_buttons = g.window_arr
      /\ h.button_arr = reg
      /\ h.pressed_button = b
      /\ SameInput(g, h)
  BY <1>0, Zenon DEF taskbar_sync_windows, Gui, SameInput
<1>2. b \in [kind : ButtonKinds, of : Windows \cup {NULL}] /\ (b # g.pressed_button =>
         g.pressed_button.kind = "task" /\ b.kind = "freed")
  BY <1>0, Zenon DEF Gui, ButtonKinds
<1>3. reg \subseteq UsedSlots(g) /\ UsedSlots(g) \subseteq Slots /\ UsedSlots(h) = UsedSlots(g)
  BY <1>1, Zenon DEF UsedSlots
<1>4. h \in Gui
  <2>1. h.button_arr \in SUBSET Slots /\ h.pressed_button \in [kind : ButtonKinds, of : Windows \cup {NULL}]
    BY <1>1, <1>2, <1>3, Zenon
  <2> HIDE DEF b, reg
  <2> QED
    BY <1>0, <1>1, <2>1, Zenon DEF Gui, taskbar_sync_windows, ButtonKinds
<1>5. Reg(h)
  BY <1>1, <1>4 DEF Reg, RegistryLive
<1>6. Bar(h)
  <2>1. ASSUME Cardinality(UsedSlots(g)) < MAX_NUM_OF_BUTTONS, NEW i \in UsedSlots(g)
        PROVE  register_xp_button(g, i)
    <3> DEFINE S == {j \in UsedSlots(g) : j <= i}
    <3>1. MAX_NUM_OF_WINDOWS \in Nat /\ MAX_NUM_OF_BUTTONS \in Nat
      BY DesktopAssumption, Zenon
    <3>2. IsFiniteSet(Slots)
      BY <3>1, FS_Interval DEF Slots
    <3>3. IsFiniteSet(UsedSlots(g))
      BY <1>3, <3>2, FS_Subset, Zenon
    <3>4. S \subseteq UsedSlots(g)
      BY Zenon
    <3>5. Cardinality(S) <= Cardinality(UsedSlots(g)) /\ IsFiniteSet(S)
      BY <3>3, <3>4, FS_Subset, Zenon
    <3>6. Cardinality(S) \in Nat /\ Cardinality(UsedSlots(g)) \in Nat
      BY <3>3, <3>5, FS_CardinalityType, Zenon
    <3>7. Cardinality(S) < MAX_NUM_OF_BUTTONS
      BY <2>1, <3>1, <3>5, <3>6
    <3> QED
      BY <3>7, Zenon DEF register_xp_button
  <2>2. Cardinality(UsedSlots(g)) < MAX_NUM_OF_BUTTONS => reg = UsedSlots(g)
    BY <2>1, Zenon
  <2> QED
    BY <1>1, <1>3, <2>2, Zenon DEF Bar, Mirror
<1>7. Act(g) => Act(h)
  BY <1>1 DEF Act, Activity, Typing, Registered
<1> QED
  BY <1>1, <1>2, <1>5, <1>6, <1>7, Zenon DEF Frees

(***************************************************************************)
(* Whatever a window becomes, the others keep their state: the registry    *)
(* still holds live windows only, if the window is live then.              *)
(***************************************************************************)
With(g, win, x) == [g EXCEPT !.windows[win] = x]

\* A window object is changed in place.
LEMMA ChangeWindow ==
  ASSUME NEW g \in Gui, NEW win \in Windows, NEW x \in WindowSet,
         NEW h, h = With(g, win, x)
  PROVE  /\ h \in Gui
         /\ h.windows[win] = x
         /\ \A w \in Windows : w # win => h.windows[w] = g.windows[w]
         /\ h.window_arr = g.window_arr
         /\ h.active_xp_window = g.active_xp_window
         /\ h.active_console = g.active_console
         /\ h.window_buttons = g.window_buttons
         /\ h.button_arr = g.button_arr
         /\ h.pressed_button = g.pressed_button
         /\ SameInput(g, h)
<1>1. /\ h.windows = [g.windows EXCEPT ![win] = x]
      /\ h.window_arr = g.window_arr
      /\ h.active_xp_window = g.active_xp_window
      /\ h.active_console = g.active_console
      /\ h.window_buttons = g.window_buttons
      /\ h.button_arr = g.button_arr
      /\ h.pressed_button = g.pressed_button
      /\ SameInput(g, h)
  BY Zenon DEF Gui, SameInput, With
<1>2. g.windows \in [Windows -> WindowSet]
  BY Zenon DEF Gui, WindowSet
<1>3. h.windows \in [Windows -> WindowSet] /\ h.windows[win] = x
      /\ \A w \in Windows : w # win => h.windows[w] = g.windows[w]
  BY <1>1, <1>2, Zenon
<1>4. h \in Gui
  BY <1>1, <1>3, Zenon DEF Gui, WindowSet, With
<1> QED
  BY <1>1, <1>3, <1>4, Zenon

\* Window objects before and after they are set up.
LEMMA NewWindow ==
  [Dead EXCEPT !.live = TRUE] \in WindowSet /\ [Dead EXCEPT !.live = TRUE].live
  /\ Dead \in WindowSet
BY Zenon DEF Dead, WindowSet, WindowTypes, StartItems

(***************************************************************************)
(* create_xp_window, with or without room in the registry.                 *)
(***************************************************************************)
LEMMA Create ==
  ASSUME NEW g, Reg(g), NEW win \in Windows, ~ g.windows[win].live,
         NEW h, h = create_xp_window(g, win)
  PROVE  /\ Core(h)
         /\ SameInput(g, h)
         /\ Frees(g, h)
         /\ h.windows[win].live
         /\ \A w \in Windows : g.windows[w].live => h.windows[w].live
<1>0. g \in Gui
  BY Zenon DEF Reg
<1> DEFINE free == Slots \ UsedSlots(g)
<1>1. PICK made : made = With(g, win, [Dead EXCEPT !.live = TRUE])
  BY Zenon
<1>2. PICK m : m = IF free = {} THEN made ELSE [made EXCEPT !.window_arr[Lowest(free)] = win]
  BY Zenon
<1>3. PICK a : a = set_active_xp_window(m, win)
  BY Zenon
<1>4. h = taskbar_sync_windows(a)
  BY <1>1, <1>2, <1>3, Zenon DEF create_xp_window, With
<1>5. /\ made \in Gui
      /\ made.windows[win].live
      /\ \A w \in Windows : w # win => made.windows[w] = g.windows[w]
      /\ made.window_arr = g.window_arr
      /\ made.pressed_button = g.pressed_button
      /\ SameInput(g, made)
  <2>1. PICK x : x = [Dead EXCEPT !.live = TRUE]
    BY Zenon
  <2>2. x \in WindowSet /\ x.live
    BY <2>1, NewWindow, Zenon
  <2>3. made = With(g, win, x)
    BY <1>1, <2>1, Zenon
  <2> QED
    BY <1>0, <2>2, <2>3, ChangeWindow
<1>6. \A i \in Slots : g.window_arr[i] # NULL => g.window_arr[i] \in Windows /\ g.window_arr[i] # win
  BY <1>0, Zenon DEF Gui, Reg, RegistryLive
<1>7. RegistryLive(made)
  <2>1. ASSUME NEW i \in Slots, made.window_arr[i] # NULL PROVE made.windows[made.window_arr[i]].live
    BY <1>5, <1>6, <2>1, Zenon DEF Reg, RegistryLive
  <2> QED
    BY <1>5, <2>1 DEF Reg, RegistryLive
<1>8. /\ Reg(m)
      /\ m.windows = made.windows
      /\ m.pressed_button = g.pressed_button
      /\ SameInput(g, m)
  <2>1. CASE free = {}
    BY <1>2, <1>5, <1>7, <2>1, Zenon DEF Reg
  <2>2. CASE free # {}
    <3>0. PICK f : f = Lowest(free)
      BY Zenon
    <3>1. f \in Slots /\ f \notin UsedSlots(g)
      <4>1. free \in SUBSET Nat
        BY DesktopAssumption DEF Slots
      <4> QED
        BY <2>2, <3>0, <4>1, LowestIs, Zenon
    <3>2. m = [made EXCEPT !.window_arr[f] = win]
      BY <1>2, <2>2, <3>0, Zenon
    <3>3. /\ m.window_arr = [made.window_arr EXCEPT ![f] = win]
          /\ m.windows = made.windows
          /\ m.pressed_button = made.pressed_button
          /\ SameInput(made, m)
      BY <1>5, <3>2, Zenon DEF Gui, SameInput
    <3>4. m.window_arr \in [Slots -> Windows \cup {NULL}]
      <4>1. made.window_arr \in [Slots -> Windows \cup {NULL}]
        BY <1>5, Zenon DEF Gui
      <4> QED
        BY <3>3, <4>1, Zenon
    <3>5. m \in Gui
      BY <1>5, <3>2, <3>3, <3>4, Zenon DEF Gui
    <3>6. \A i \in Slots : m.window_arr[i] = IF i = f THEN win ELSE g.window_arr[i]
      BY <1>5, <3>3 DEF Gui
    <3>7. ASSUME NEW i \in Slots, m.window_arr[i] # NULL PROVE m.windows[m.window_arr[i]].live
      BY <1>5, <1>7, <3>3, <3>6, <3>7 DEF RegistryLive
    <3>8. ASSUME NEW i \in Slots, NEW j \in Slots, m.window_arr[i] = m.window_arr[j], m.window_arr[i] # NULL
          PROVE  i = j
      BY <1>6, <3>6, <3>8, Zenon DEF Reg, RegistryLive
    <3> QED
      BY <1>5, <3>3, <3>5, <3>7, <3>8, Zenon DEF Reg, RegistryLive, SameInput
  <2> QED
    BY <2>1, <2>2, Zenon
<1>9. /\ Reg(a) /\ Act(a) /\ SameInput(m, a) /\ a.pressed_button = m.pressed_button
      /\ \A w \in Windows : a.windows[w].live = m.windows[w].live
  <2>1. m.windows[win].live
    BY <1>5, <1>8, Zenon
  <2> QED
    BY <1>3, <1>8, <2>1, SetActive
<1>10. Reg(h) /\ Bar(h) /\ Act(h) /\ SameInput(a, h) /\ Frees(a, h) /\ h.windows = a.windows
  BY <1>4, <1>9, Sync, Zenon
<1>11. ASSUME NEW w \in Windows, w = win \/ g.windows[w].live PROVE h.windows[w].live
  <2>1. made.windows[w].live
    BY <1>5, <1>11, Zenon
  <2>2. a.windows[w].live
    BY <1>8, <1>9, <2>1, Zenon
  <2> QED
    BY <1>10, <2>2, Zenon
<1>12. SameInput(g, h) /\ Frees(g, h)
  BY <1>8, <1>9, <1>10, Zenon DEF SameInput, Frees
<1> QED
  BY <1>10, <1>11, <1>12, Zenon DEF Core

(***************************************************************************)
(* Opening an application keeps everything in order, and every window.     *)
(***************************************************************************)
LEMMA OpenWindow ==
  ASSUME NEW g, Core(g), NEW types \in SUBSET StartItems, NEW h \in Opened(g, types)
  PROVE  /\ Core(h)
         /\ SameInput(g, h)
         /\ Frees(g, h)
         /\ Held(g) => Held(h)
<1>0. Reg(g) /\ g \in Gui
  BY Zenon DEF Core, Reg
<1>1. PICK t \in StartItems : h = open_window(g, t)
  BY Zenon DEF Opened
<1>2. PICK win : win = Lowest(Unused(g))
  BY Zenon
<1>3. win \in Windows /\ ~ g.windows[win].live
  <2>1. Unused(g) # {}
    BY Zenon DEF Opened
  <2>2. Unused(g) \in SUBSET Nat
    BY DesktopAssumption DEF Unused, Windows
  <2>3. win \in Unused(g)
    BY <1>2, <2>1, <2>2, LowestIs, Zenon
  <2> QED
    BY <2>3, Zenon DEF Unused, Live
<1>4. PICK c : c = create_xp_window(g, win)
  BY Zenon
<1>5. /\ Core(c) /\ SameInput(g, c) /\ Frees(g, c) /\ c.windows[win].live
      /\ \A w \in Windows : g.windows[w].live => c.windows[w].live
  BY <1>0, <1>3, <1>4, Create, Zenon
<1>6. PICK x : x = [c.windows[win] EXCEPT !.type = t]
  BY Zenon
<1>7. x \in WindowSet /\ x.live
  <2>1. c.windows[win] \in WindowSet
    BY <1>3, <1>5, Zenon DEF Core, Reg, Gui, WindowSet
  <2>2. t \in WindowTypes
    BY Zenon DEF WindowTypes
  <2> QED
    BY <1>5, <1>6, <2>1, <2>2, Zenon DEF WindowSet
<1>8. PICK o : o = With(c, win, x)
  BY Zenon
<1>9. h = set_active_xp_window(o, win)
  <2>1. [c EXCEPT !.windows[win].type = t] = [c EXCEPT !.windows[win] = x]
    BY <1>6, Zenon
  <2> QED
    BY <1>1, <1>2, <1>4, <1>8, <2>1, Zenon DEF open_window, With
<1>10. /\ o \in Gui
       /\ o.windows[win] = x
       /\ \A w \in Windows : w # win => o.windows[w] = c.windows[w]
       /\ o.window_arr = c.window_arr
       /\ o.window_buttons = c.window_buttons
       /\ o.button_arr = c.button_arr
       /\ o.pressed_button = c.pressed_button
       /\ SameInput(c, o)
  <2>1. c \in Gui
    BY <1>5, Zenon DEF Core, Reg
  <2> QED
    BY <1>3, <1>7, <1>8, <2>1, ChangeWindow
<1>11. \A w \in Windows : c.windows[w].live => o.windows[w].live
  BY <1>7, <1>10, Zenon
<1>12. Reg(o)
  <2>1. ASSUME NEW i \in Slots, o.window_arr[i] # NULL PROVE o.windows[o.window_arr[i]].live
    <3>1. c.window_arr[i] \in Windows /\ c.windows[c.window_arr[i]].live
      BY <1>5, <1>10, <2>1 DEF Core, Reg, RegistryLive, Gui
    <3> QED
      BY <1>10, <1>11, <3>1, Zenon
  <2> QED
    BY <1>5, <1>10, <2>1 DEF Core, Reg, RegistryLive
<1>13. Bar(o)
  BY <1>5, <1>10 DEF Core, Bar, Mirror, UsedSlots
<1>14. /\ Core(h) /\ SameInput(o, h) /\ h.pressed_button = o.pressed_button
       /\ \A w \in Windows : h.windows[w].live = o.windows[w].live
  <2>1. o.windows[win].live
    BY <1>7, <1>10, Zenon
  <2> QED
    BY <1>3, <1>9, <1>12, <1>13, <2>1, SetActive DEF Core
<1>15. SameInput(g, h) /\ Frees(g, h)
  BY <1>5, <1>10, <1>14, Zenon DEF SameInput, Frees
<1>16. \A w \in Windows : g.windows[w].live => h.windows[w].live
  BY <1>5, <1>11, <1>14, Zenon
<1>17. Held(g) => Held(h)
  <2> SUFFICES ASSUME Held(g) PROVE Held(h)
    BY Zenon
  <2>1. g.grabbed_window \in Windows \cup {NULL} /\ g.pressed_button.of \in Windows \cup {NULL}
    BY <1>0, Zenon DEF Gui
  <2>2. h.grabbed_window # NULL => h.windows[h.grabbed_window].live
    BY <1>15, <1>16, <2>1, Zenon DEF Held, SameInput
  <2>3. h.pressed_button.kind \in TitleButtons \cup {"task"} =>
          h.pressed_button.of # NULL /\ h.windows[h.pressed_button.of].live
    BY <1>15, <1>16, <2>1, Zenon DEF Held, Frees, TitleButtons
  <2> QED
    BY <2>2, <2>3, Zenon DEF Held
<1> QED
  BY <1>14, <1>15, <1>17, Zenon

(***************************************************************************)
(* close_xp_window: no trace of the window is left, registered or not, and *)
(* another window is active if there is one.                               *)
(***************************************************************************)
LEMMA Close ==
  ASSUME NEW g, Reg(g), NEW win \in Windows, NEW h, h = close_xp_window(g, win)
  PROVE  Core(h) /\ SameInput(g, h)
<1>0. g \in Gui
  BY Zenon DEF Reg
<1>1. PICK r : r = Remove(g, win)
  BY Zenon
<1>2. PICK s : s = taskbar_sync_windows(r)
  BY Zenon
<1>3. h = promote_first(s)
  BY <1>1, <1>2, Zenon DEF close_xp_window
<1>4. /\ r.window_arr = [i \in Slots |-> IF g.window_arr[i] = win THEN NULL ELSE g.window_arr[i]]
      /\ r.windows = [g.windows EXCEPT ![win] = Dead]
      /\ r.active_console = IF g.active_console = win THEN Freed ELSE g.active_console
      /\ SameInput(g, r)
  BY <1>0, <1>1, Zenon DEF Remove, Gui, SameInput
<1>5. /\ r.window_arr \in [Slots -> Windows \cup {NULL}]
      /\ \A i \in Slots : r.window_arr[i] = IF g.window_arr[i] = win THEN NULL ELSE g.window_arr[i]
  BY <1>0, <1>4 DEF Gui
<1>6. /\ r.windows \in [Windows -> WindowSet]
      /\ \A w \in Windows : w # win => r.windows[w] = g.windows[w]
  <2>1. g.windows \in [Windows -> WindowSet]
    BY <1>0, Zenon DEF Gui, WindowSet
  <2> QED
    BY <1>4, <2>1, NewWindow, Zenon
<1>7. r \in Gui
  BY <1>0, <1>1, <1>4, <1>5, <1>6, Zenon DEF Gui, Remove, WindowSet
<1>8. Reg(r)
  <2>1. ASSUME NEW i \in Slots, r.window_arr[i] # NULL PROVE r.windows[r.window_arr[i]].live
    <3>1. /\ r.window_arr[i] = g.window_arr[i] /\ g.window_arr[i] # win
          /\ g.window_arr[i] \in Windows /\ g.windows[g.window_arr[i]].live
      BY <1>0, <1>5, <2>1 DEF Reg, RegistryLive, Gui
    <3> QED
      BY <1>6, <3>1, Zenon
  <2>2. ASSUME NEW i \in Slots, NEW j \in Slots, r.window_arr[i] = r.window_arr[j], r.window_arr[i] # NULL
        PROVE  i = j
    BY <1>5, <2>2, Zenon DEF Reg, RegistryLive
  <2> QED
    BY <1>7, <2>1, <2>2, Zenon DEF Reg, RegistryLive
<1>9. Reg(s) /\ Bar(s) /\ SameInput(r, s)
  BY <1>2, <1>8, Sync, Zenon
<1>10. CASE UsedSlots(s) = {}
  <2>1. h = [s EXCEPT !.active_xp_window = NULL]
    BY <1>3, <1>10, Zenon DEF promote_first
  <2>2. s \in Gui
    BY <1>9, Zenon DEF Reg
  <2>3. /\ h \in Gui
        /\ h.window_arr = s.window_arr /\ h.windows = s.windows
        /\ h.window_buttons = s.window_buttons /\ h.button_arr = s.button_arr
        /\ h.active_xp_window = NULL
        /\ SameInput(s, h)
    BY <2>1, <2>2, Zenon DEF Gui, SameInput
  <2>4. Reg(h)
    BY <1>9, <2>3 DEF Reg, RegistryLive
  <2>5. Bar(h)
    BY <1>9, <2>3, Zenon DEF Bar, Mirror, UsedSlots
  <2>6. Registered(h) = {}
    <3>1. \A i \in Slots : s.window_arr[i] = NULL
      BY <1>10, Zenon DEF UsedSlots
    <3>2. \A w \in Windows : w # NULL
      BY DEF Windows, NULL
    <3> QED
      BY <2>3, <3>1, <3>2, Zenon DEF Registered
  <2>7. Act(h)
    BY <2>3, <2>6, Zenon DEF Act, Activity, Typing
  <2> QED
    BY <1>4, <1>9, <2>3, <2>4, <2>5, <2>7, Zenon DEF Core, SameInput
<1>11. CASE UsedSlots(s) # {}
  <2>0. PICK f : f = Lowest(UsedSlots(s))
    BY Zenon
  <2>1. f \in Slots /\ s.window_arr[f] # NULL
    <3>1. UsedSlots(s) \in SUBSET Nat
      BY DesktopAssumption DEF UsedSlots, Slots
    <3>2. f \in UsedSlots(s)
      BY <1>11, <2>0, <3>1, LowestIs, Zenon
    <3> QED
      BY <3>2, Zenon DEF UsedSlots
  <2>2. s.window_arr[f] \in Windows /\ s.windows[s.window_arr[f]].live
    BY <1>9, <2>1 DEF Reg, RegistryLive, Gui
  <2>3. h = set_active_xp_window(s, s.window_arr[f])
    BY <1>3, <1>11, <2>0, Zenon DEF promote_first
  <2>4. Reg(h) /\ Act(h) /\ Bar(h) /\ SameInput(s, h)
    BY <1>9, <2>2, <2>3, SetActive
  <2> QED
    BY <1>4, <1>9, <2>4, Zenon DEF Core, SameInput
<1> QED
  BY <1>10, <1>11, Zenon

(***************************************************************************)
(* Nothing depends on whether a window is minimized.                       *)
(***************************************************************************)
LEMMA Minimize ==
  ASSUME NEW g, Core(g), NEW win \in Windows, NEW x \in WindowSet,
         x.live = g.windows[win].live, x.active = g.windows[win].active, x.type = g.windows[win].type,
         NEW h, h = With(g, win, x)
  PROVE  Core(h) /\ SameInput(g, h)
<1>0. Reg(g) /\ Bar(g) /\ Act(g)
  BY Zenon DEF Core
<1>1. g \in Gui
  BY Zenon DEF Core, Reg
<1>2. /\ h \in Gui
      /\ h.windows[win] = x
      /\ \A w \in Windows : w # win => h.windows[w] = g.windows[w]
      /\ h.window_arr = g.window_arr
      /\ h.active_xp_window = g.active_xp_window
      /\ h.active_console = g.active_console
      /\ h.window_buttons = g.window_buttons
      /\ h.button_arr = g.button_arr
      /\ SameInput(g, h)
  BY <1>1, ChangeWindow
<1>3. \A w \in Windows : /\ h.windows[w].live = g.windows[w].live
                         /\ h.windows[w].active = g.windows[w].active
                         /\ h.windows[w].type = g.windows[w].type
  BY <1>2, Zenon
<1>4. Reg(h)
  <2>1. ASSUME NEW i \in Slots, h.window_arr[i] # NULL PROVE h.windows[h.window_arr[i]].live
    <3>1. g.window_arr[i] \in Windows /\ g.windows[g.window_arr[i]].live
      BY <1>0, <1>1, <1>2, <2>1 DEF Reg, RegistryLive, Gui
    <3> QED
      BY <1>2, <1>3, <3>1, Zenon
  <2> QED
    BY <1>0, <1>2, <2>1 DEF Reg, RegistryLive
<1>5. Bar(h)
  BY <1>0, <1>2, Zenon DEF Bar, Mirror, UsedSlots
<1>6. Act(h)
  <2>1. Registered(h) = Registered(g) /\ Registered(g) \subseteq Windows
    BY <1>2, Zenon DEF Registered
  <2>2. g.active_xp_window \in Windows \cup {NULL}
    BY <1>1, Zenon DEF Gui
  <2>3. ASSUME NEW w \in Registered(h) PROVE h.windows[w].active <=> w = h.active_xp_window
    <3>1. g.windows[w].active <=> w = g.active_xp_window
      BY <1>0, <2>1, Zenon DEF Act, Activity
    <3> QED
      BY <1>2, <1>3, <2>1, <3>1, Zenon
  <2>4. Activity(h)
    BY <1>0, <1>2, <2>1, <2>3, Zenon DEF Act, Activity
  <2>5. Typing(h)
    <3>1. Typing(g) /\ h.active_xp_window = g.active_xp_window /\ h.active_console = g.active_console
      BY <1>0, <1>2, Zenon DEF Act
    <3>2. g.active_xp_window # NULL =>
            h.windows[g.active_xp_window].type = g.windows[g.active_xp_window].type
      BY <1>3, <2>2, Zenon
    <3> HIDE <1>0, <1>1, <1>2, <1>3
    <3> QED
      BY <3>1, <3>2, Zenon DEF Typing
  <2>6. h.active_xp_window # NULL => h.windows[h.active_xp_window].live
    BY <1>0, <1>2, <1>3, <2>2, Zenon DEF Act
  <2> QED
    BY <2>4, <2>5, <2>6, Zenon DEF Act
<1> QED
  BY <1>2, <1>4, <1>5, <1>6, Zenon DEF Core

(***************************************************************************)
(* What does not touch the windows keeps them in order.                    *)
(***************************************************************************)
SameWindows(g, h) ==
    /\ h.window_arr = g.window_arr
    /\ h.windows = g.windows
    /\ h.active_xp_window = g.active_xp_window
    /\ h.active_console = g.active_console
    /\ h.window_buttons = g.window_buttons
    /\ h.button_arr = g.button_arr

\* Globals that are not about windows may change freely.
LEMMA Untouched ==
  ASSUME NEW g, Core(g), NEW h \in Gui, SameWindows(g, h)
  PROVE  Core(h)
<1>1. Reg(h)
  BY DEF Core, Reg, RegistryLive, SameWindows
<1>2. Bar(h)
  BY Zenon DEF Core, Bar, Mirror, UsedSlots, SameWindows
<1>3. Act(h)
  BY Zenon DEF Core, Act, Activity, Typing, Registered, SameWindows
<1> QED
  BY <1>1, <1>2, <1>3, Zenon DEF Core

(***************************************************************************)
(* The callback of a pressed button, as long as its memory was not freed.  *)
(***************************************************************************)
LEMMA FireButton ==
  ASSUME NEW g, Core(g), Held(g), g.pressed_button.kind # "freed",
         NEW h, h = Fire(g, g.pressed_button)
  PROVE  /\ Core(h)
         /\ h.grabbed_window = g.grabbed_window
         /\ h.pressed_icon = g.pressed_icon
         /\ h.old_clickedLeft = g.old_clickedLeft
         /\ h.old_clickedRight = g.old_clickedRight
<1> DEFINE b == g.pressed_button
<1>0. Reg(g) /\ g \in Gui
  BY Zenon DEF Core, Reg
<1>1. b.kind \in ButtonKinds /\ b.of \in Windows \cup {NULL}
  BY <1>0, Zenon DEF Gui, ButtonKinds
<1>2. b.kind \in TitleButtons \cup {"task"} => b.of \in Windows /\ g.windows[b.of].live
  BY <1>1, Zenon DEF Held
<1>3. CASE b.kind = "start"
  <2>1. h = [g EXCEPT !.g_start_menu_open = ~ @]
    BY <1>3, Zenon DEF Fire, on_start_click
  <2>2. (~ g.g_start_menu_open) \in BOOLEAN
    BY Zenon
  <2>3. /\ h \in Gui
        /\ SameWindows(g, h)
        /\ h.grabbed_window = g.grabbed_window /\ h.pressed_icon = g.pressed_icon
        /\ h.old_clickedLeft = g.old_clickedLeft /\ h.old_clickedRight = g.old_clickedRight
    BY <1>0, <2>1, <2>2, Zenon DEF Gui, SameWindows
  <2> QED
    BY <2>3, Untouched, Zenon
<1>4. CASE b.kind = "task"
  <2>1. PICK a : a = set_active_xp_window(g, b.of)
    BY Zenon
  <2>2. Core(a) /\ SameInput(g, a)
    BY <1>2, <1>4, <2>1, SetActive DEF Core
  <2>3. PICK x : x = [a.windows[b.of] EXCEPT !.minimized = FALSE]
    BY Zenon
  <2>4. h = With(a, b.of, x)
    BY <1>4, <2>1, <2>3, Zenon DEF Fire, on_taskbar_window_click, With
  <2>5. /\ x \in WindowSet /\ x.live = a.windows[b.of].live
        /\ x.active = a.windows[b.of].active /\ x.type = a.windows[b.of].type
    <3>1. a.windows[b.of] \in WindowSet
      BY <1>2, <1>4, <2>2, Zenon DEF Core, Reg, Gui, WindowSet
    <3> QED
      BY <2>3, <3>1, Zenon DEF WindowSet
  <2>6. Core(h) /\ SameInput(a, h)
    BY <1>2, <1>4, <2>2, <2>4, <2>5, Minimize, Zenon
  <2> QED
    BY <2>2, <2>6, Zenon DEF SameInput
<1>5. CASE b.kind = "close"
  <2>1. h = close_xp_window(g, b.of)
    BY <1>5, Zenon DEF Fire
  <2>2. b.of \in Windows
    BY <1>2, <1>5, Zenon DEF TitleButtons
  <2> QED
    BY <1>0, <2>1, <2>2, Close, Zenon DEF SameInput
<1>6. CASE b.kind = "minimize"
  <2>1. PICK m : m = ~ g.windows[b.of].minimized
    BY Zenon
  <2>2. m \in BOOLEAN
    BY <2>1, Zenon
  <2>3. PICK x : x = [g.windows[b.of] EXCEPT !.minimized = m]
    BY Zenon
  <2>4. h = With(g, b.of, x)
    BY <1>6, <2>1, <2>3, Zenon DEF Fire, minimize_xp_window, With
  <2>5. b.of \in Windows
    BY <1>2, <1>6, Zenon DEF TitleButtons
  <2>6. /\ x \in WindowSet /\ x.live = g.windows[b.of].live
        /\ x.active = g.windows[b.of].active /\ x.type = g.windows[b.of].type
    <3>1. g.windows[b.of] \in WindowSet
      BY <1>0, <2>5, Zenon DEF Gui, WindowSet
    <3> QED
      BY <2>2, <2>3, <3>1, Zenon DEF WindowSet
  <2> QED
    BY <2>4, <2>5, <2>6, Minimize DEF SameInput
<1>7. CASE b.kind \in {"none", "maximize"}
  BY <1>7, Zenon DEF Fire
<1> QED
  BY <1>1, <1>3, <1>4, <1>5, <1>6, <1>7, Zenon DEF ButtonKinds, TitleButtons

(***************************************************************************)
(* What is held: a button, a window or an icon, or nothing.                *)
(***************************************************************************)
NoPress(g)  == g.pressed_button = NoButton
NoGrab(g)   == g.grabbed_window = NULL
NoIcon(g)   == g.pressed_icon = "none"
Quiet(g)    == NoPress(g) /\ NoGrab(g) /\ NoIcon(g)
OneHeld(g)  == \A k, l \in Holding(g) : k = l

\* What is held, by the three globals that say so.
LEMMA HoldingIs ==
  ASSUME NEW g
  PROVE  /\ Holding(g) = {} <=> Quiet(g)
         /\ NoPress(g) /\ NoGrab(g) => OneHeld(g)
         /\ NoPress(g) /\ NoIcon(g) => OneHeld(g)
         /\ NoGrab(g) /\ NoIcon(g) => OneHeld(g)
<1>1. /\ "button" \in Holding(g) <=> ~ NoPress(g)
      /\ "window" \in Holding(g) <=> ~ NoGrab(g)
      /\ "icon" \in Holding(g) <=> ~ NoIcon(g)
      /\ Holding(g) \subseteq {"button", "window", "icon"}
  BY Zenon DEF Holding, NoPress, NoGrab, NoIcon
<1> QED
  BY <1>1, Zenon DEF Quiet, OneHeld

\* Nothing is held.
LEMMA QuietIsHeld ==
  ASSUME NEW g, Quiet(g) PROVE Held(g) /\ OneHeld(g) /\ g.pressed_button.kind = "none"
<1>1. g.pressed_button.kind = "none"
  BY DEF Quiet, NoPress, NoButton
<1>2. Held(g)
  BY <1>1, Zenon DEF Held, TitleButtons, Quiet, NoGrab
<1> QED
  BY <1>1, <1>2, HoldingIs, Zenon DEF Quiet

\* get_window_at returns a registered window.
LEMMA WindowHit ==
  ASSUME NEW g, Reg(g), NEW over, NEW w, w = get_window_at(g, over)
  PROVE  w = NULL \/ (w \in Windows /\ g.windows[w].live)
<1> DEFINE hit == {i \in UsedSlots(g) : g.window_arr[i] \in over}
           act == {i \in hit : g.windows[g.window_arr[i]].active}
<1>1. \A i \in UsedSlots(g) : g.window_arr[i] \in Windows /\ g.windows[g.window_arr[i]].live
  BY Zenon DEF Reg, RegistryLive, Gui, UsedSlots
<1>2. hit \in SUBSET Slots /\ act \in SUBSET Slots /\ act \subseteq hit /\ hit \subseteq UsedSlots(g)
  BY Zenon DEF UsedSlots
<1>3. Slots \subseteq Nat
  BY DesktopAssumption DEF Slots
<1>4. CASE act # {}
  <2>1. act \in SUBSET Nat
    BY <1>2, <1>3, Zenon
  <2>2. Lowest(act) \in act
    BY <1>4, <2>1, LowestIs, Zenon
  <2>3. w = g.window_arr[Lowest(act)]
    BY <1>4, Zenon DEF get_window_at
  <2> QED
    BY <1>1, <1>2, <2>2, <2>3, Zenon
<1>5. CASE act = {} /\ hit # {}
  <2>1. Highest(hit) \in hit
    BY <1>2, <1>5, HighestIs, Zenon
  <2>2. w = g.window_arr[Highest(hit)]
    BY <1>5, Zenon DEF get_window_at
  <2> QED
    BY <1>1, <1>2, <2>1, <2>2, Zenon
<1>6. CASE act = {} /\ hit = {}
  BY <1>6, Zenon DEF get_window_at
<1> QED
  BY <1>4, <1>5, <1>6, Zenon

(***************************************************************************)
(* A press takes hold of one thing at most.                                *)
(***************************************************************************)
SameButtons(g, h) ==
    /\ h.g_start_menu_open = g.g_start_menu_open
    /\ h.old_clickedLeft = g.old_clickedLeft
    /\ h.old_clickedRight = g.old_clickedRight

\* A press on a button of the title bar, the taskbar or the Start button.
LEMMA TakeButton ==
  ASSUME NEW g, Core(g), Quiet(g), NEW k \in ButtonKinds \ {"freed"}, NEW w \in Windows \cup {NULL},
         k \in TitleButtons \cup {"task"} => w \in Windows /\ g.windows[w].live,
         NEW h, h = [g EXCEPT !.pressed_button = [kind |-> k, of |-> w]]
  PROVE  Core(h) /\ Held(h) /\ OneHeld(h) /\ h.pressed_button.kind # "freed" /\ SameButtons(g, h)
<1>0. g \in Gui
  BY Zenon DEF Core, Reg
<1>1. [kind |-> k, of |-> w] \in [kind : ButtonKinds, of : Windows \cup {NULL}]
  BY Zenon
<1>2. /\ h \in Gui
      /\ SameWindows(g, h)
      /\ SameButtons(g, h)
      /\ h.pressed_button = [kind |-> k, of |-> w]
      /\ h.grabbed_window = g.grabbed_window
      /\ h.pressed_icon = g.pressed_icon
  BY <1>0, <1>1, Zenon DEF Gui, SameWindows, SameButtons, ButtonKinds
<1>3. NoGrab(h) /\ NoIcon(h)
  BY <1>2, Zenon DEF Quiet, NoGrab, NoIcon
<1>4. Held(h)
  <2>1. k \in TitleButtons \cup {"task"} => w # NULL
    BY DEF Windows, NULL
  <2> QED
    BY <1>2, <1>3, <2>1 DEF Held, NoGrab, SameWindows
<1> QED
  BY <1>2, <1>3, <1>4, Untouched, HoldingIs

\* A press on a title bar grabs the window.
LEMMA TakeWindow ==
  ASSUME NEW g, Core(g), Quiet(g), NEW w \in Windows, g.windows[w].live,
         NEW h, h = [g EXCEPT !.grabbed_window = w]
  PROVE  Core(h) /\ Held(h) /\ OneHeld(h) /\ h.pressed_button.kind # "freed" /\ SameButtons(g, h)
<1>0. g \in Gui
  BY Zenon DEF Core, Reg
<1>1. /\ h \in Gui
      /\ SameWindows(g, h)
      /\ SameButtons(g, h)
      /\ h.pressed_button = g.pressed_button
      /\ h.grabbed_window = w
      /\ h.pressed_icon = g.pressed_icon
  BY <1>0, Zenon DEF Gui, SameWindows, SameButtons
<1>2. NoPress(h) /\ NoIcon(h)
  BY <1>1, Zenon DEF Quiet, NoPress, NoIcon
<1>3. h.pressed_button.kind = "none"
  BY <1>2 DEF NoPress, NoButton
<1>4. Held(h)
  BY <1>1, <1>3, Zenon DEF Held, SameWindows, TitleButtons
<1> QED
  BY <1>1, <1>2, <1>3, <1>4, Untouched, HoldingIs, Zenon

\* A press on an icon of the desktop.
LEMMA TakeIcon ==
  ASSUME NEW g, Core(g), Quiet(g), NEW icon \in StartItems,
         NEW h, h = [g EXCEPT !.pressed_icon = icon]
  PROVE  Core(h) /\ Held(h) /\ OneHeld(h) /\ h.pressed_button.kind # "freed" /\ SameButtons(g, h)
<1>0. g \in Gui
  BY Zenon DEF Core, Reg
<1>1. /\ h \in Gui
      /\ SameWindows(g, h)
      /\ SameButtons(g, h)
      /\ h.pressed_button = g.pressed_button
      /\ h.grabbed_window = g.grabbed_window
  BY <1>0, Zenon DEF Gui, SameWindows, SameButtons, WindowTypes
<1>2. NoPress(h) /\ NoGrab(h)
  BY <1>1, Zenon DEF Quiet, NoPress, NoGrab
<1>3. h.pressed_button.kind = "none"
  BY <1>2 DEF NoPress, NoButton
<1>4. Held(h)
  BY <1>2, <1>3, Zenon DEF Held, NoGrab, TitleButtons
<1> QED
  BY <1>1, <1>2, <1>3, <1>4, Untouched, HoldingIs, Zenon

\* A left press takes hold of at most one thing, which is alive.
LEMMA Press ==
  ASSUME NEW g, Core(g), Quiet(g), NEW over, NEW h \in LeftPress(g, over)
  PROVE  Core(h) /\ Held(h) /\ OneHeld(h) /\ h.pressed_button.kind # "freed" /\ SameButtons(g, h)
<1>0. Reg(g) /\ Bar(g) /\ g \in Gui
  BY Zenon DEF Core, Reg
<1>1. PICK win : win = get_window_at(g, over)
  BY Zenon
<1>2. win = NULL \/ (win \in Windows /\ g.windows[win].live)
  BY <1>0, <1>1, WindowHit, Zenon
<1>3. Held(g) /\ OneHeld(g) /\ g.pressed_button.kind = "none" /\ SameButtons(g, g)
  BY QuietIsHeld, Zenon DEF SameButtons
<1>4. CASE h \in press_window(g, win) /\ win # NULL
  <2>1. PICK s : s = set_active_xp_window(g, win)
    BY Zenon
  <2>2. Core(s) /\ SameInput(g, s) /\ s.pressed_button = g.pressed_button
        /\ \A w \in Windows : s.windows[w].live = g.windows[w].live
    BY <1>0, <1>2, <1>4, <2>1, SetActive DEF Core
  <2>3. win \in Windows /\ s.windows[win].live
    BY <1>2, <1>4, <2>2, Zenon
  <2>4. Quiet(s) /\ SameButtons(g, s)
    BY <2>2, Zenon DEF Quiet, NoPress, NoGrab, NoIcon, SameInput, SameButtons
  <2>5. CASE \E k \in TitleButtons : h = [s EXCEPT !.pressed_button = [kind |-> k, of |-> win]]
    <3>1. PICK k \in TitleButtons : h = [s EXCEPT !.pressed_button = [kind |-> k, of |-> win]]
      BY <2>5, Zenon
    <3>2. k \in ButtonKinds \ {"freed"}
      BY Zenon DEF ButtonKinds, TitleButtons
    <3> QED
      BY <2>2, <2>3, <2>4, <3>1, <3>2, TakeButton, Zenon DEF SameButtons
  <2>6. CASE h = [s EXCEPT !.grabbed_window = win]
    BY <2>2, <2>3, <2>4, <2>6, TakeWindow, Zenon DEF SameButtons
  <2>7. CASE h = s
    BY <2>2, <2>4, <2>7, QuietIsHeld, Zenon
  <2>8. CASE h \in Opened(s, {"app"})
    <3>1. {"app"} \in SUBSET StartItems
      BY Zenon DEF StartItems
    <3>2. Core(h) /\ SameInput(s, h) /\ Frees(s, h)
      BY <2>2, <2>8, <3>1, OpenWindow, Zenon
    <3>3. h.pressed_button = s.pressed_button
      BY <1>3, <2>2, <3>2, Zenon DEF Frees
    <3>4. Quiet(h) /\ SameButtons(s, h)
      BY <2>4, <3>2, <3>3, Zenon DEF Quiet, NoPress, NoGrab, NoIcon, SameInput, SameButtons
    <3> QED
      BY <2>4, <3>2, <3>4, QuietIsHeld, Zenon DEF SameButtons
  <2> QED
    BY <1>4, <2>1, <2>5, <2>6, <2>7, <2>8, Zenon DEF press_window
<1>5. CASE h \in press_desktop(g)
  <2>1. CASE h = g
    BY <1>3, <2>1, Zenon
  <2>2. CASE h = [g EXCEPT !.pressed_button = [kind |-> "start", of |-> NULL]]
    <3>1. "start" \in ButtonKinds \ {"freed"} /\ "start" \notin TitleButtons \cup {"task"}
      BY Zenon DEF ButtonKinds, TitleButtons
    <3> QED
      BY <2>2, <3>1, TakeButton, Zenon
  <2>3. CASE \E i \in g.button_arr : h = [g EXCEPT !.pressed_button = [kind |-> "task", of |-> g.window_buttons[i]]]
    <3>1. PICK i \in g.button_arr : h = [g EXCEPT !.pressed_button = [kind |-> "task", of |-> g.window_buttons[i]]]
      BY <2>3, Zenon
    <3>2. g.window_buttons[i] \in Windows /\ g.windows[g.window_buttons[i]].live
      BY <1>0, Zenon DEF Bar, Mirror, UsedSlots, Reg, RegistryLive, Gui
    <3>3. "task" \in ButtonKinds \ {"freed"}
      BY Zenon DEF ButtonKinds
    <3> QED
      BY <3>1, <3>2, <3>3, TakeButton, Zenon
  <2>4. CASE \E icon \in StartItems : h = [g EXCEPT !.pressed_icon = icon]
    BY <2>4, TakeIcon, Zenon
  <2> QED
    BY <1>5, <2>1, <2>2, <2>3, <2>4, Zenon DEF press_desktop
<1> QED
  BY <1>1, <1>4, <1>5, Zenon DEF LeftPress

(***************************************************************************)
(* A right press only activates a window.                                  *)
(***************************************************************************)
LEMMA Right ==
  ASSUME NEW g, Core(g), Held(g), NEW over, NEW h, h = RightPress(g, over)
  PROVE  Core(h) /\ Held(h) /\ SameInput(g, h) /\ h.pressed_button = g.pressed_button
<1>0. Reg(g) /\ g \in Gui
  BY Zenon DEF Core, Reg
<1>1. PICK win : win = get_window_at(g, over)
  BY Zenon
<1>2. win = NULL \/ (win \in Windows /\ g.windows[win].live)
  BY <1>0, <1>1, WindowHit, Zenon
<1>3. CASE h = g
  BY <1>3, Zenon DEF SameInput
<1>4. CASE h = set_active_xp_window(g, win) /\ win # NULL
  <2>1. /\ Core(h) /\ SameInput(g, h) /\ h.pressed_button = g.pressed_button
        /\ \A w \in Windows : h.windows[w].live = g.windows[w].live
    BY <1>0, <1>2, <1>4, SetActive DEF Core
  <2>2. g.grabbed_window \in Windows \cup {NULL} /\ g.pressed_button.of \in Windows \cup {NULL}
    BY <1>0, Zenon DEF Gui
  <2>3. Held(h)
    BY <2>1, <2>2, Zenon DEF Held, SameInput
  <2> QED
    BY <2>1, <2>3, Zenon
<1> QED
  BY <1>1, <1>3, <1>4, Zenon DEF RightPress

(***************************************************************************)
(* A release lets go of everything, whatever the callbacks do.             *)
(***************************************************************************)
LEMMA Release ==
  ASSUME NEW g, Core(g), Held(g), g.pressed_button.kind # "freed", NEW h \in LeftRelease(g)
  PROVE  /\ Core(h) /\ Quiet(h)
         /\ h.old_clickedLeft = g.old_clickedLeft
         /\ h.old_clickedRight = g.old_clickedRight
<1>0. g \in Gui
  BY Zenon DEF Core, Reg
<1>1. PICK r : r = [g EXCEPT !.grabbed_window = NULL]
  BY Zenon
<1>2. PICK c : c = Fire(r, r.pressed_button)
  BY Zenon
<1>3. PICK f : f = [c EXCEPT !.pressed_button = NoButton]
  BY Zenon
<1>4. PICK d : d = [f EXCEPT !.pressed_icon = "none"]
  BY Zenon
<1>5. h = d \/ (f.pressed_icon # "none" /\ h \in Opened(d, {f.pressed_icon}))
  BY <1>1, <1>2, <1>3, <1>4, Zenon DEF LeftRelease
<1>6. /\ r \in Gui /\ SameWindows(g, r)
      /\ r.grabbed_window = NULL /\ r.pressed_button = g.pressed_button
      /\ r.old_clickedLeft = g.old_clickedLeft /\ r.old_clickedRight = g.old_clickedRight
  BY <1>0, <1>1, Zenon DEF Gui, SameWindows
<1>7. Core(r) /\ Held(r) /\ r.pressed_button.kind # "freed"
  <2>1. Core(r)
    BY <1>6, Untouched, Zenon
  <2> QED
    BY <1>6, <2>1, Zenon DEF Held, SameWindows
<1>8. /\ Core(c) /\ c.grabbed_window = NULL
      /\ c.old_clickedLeft = g.old_clickedLeft /\ c.old_clickedRight = g.old_clickedRight
  BY <1>2, <1>6, <1>7, FireButton, Zenon
<1>9. NoButton \in [kind : ButtonKinds, of : Windows \cup {NULL}]
  BY Zenon DEF NoButton, ButtonKinds
<1>10. /\ f \in Gui /\ SameWindows(c, f)
       /\ f.grabbed_window = NULL /\ f.pressed_button = NoButton
       /\ f.old_clickedLeft = g.old_clickedLeft /\ f.old_clickedRight = g.old_clickedRight
  <2>1. c \in Gui
    BY <1>8, Zenon DEF Core, Reg
  <2> QED
    BY <1>3, <1>8, <1>9, <2>1, Zenon DEF Gui, SameWindows, ButtonKinds
<1>11. /\ d \in Gui /\ SameWindows(f, d)
       /\ d.grabbed_window = NULL /\ d.pressed_button = NoButton /\ d.pressed_icon = "none"
       /\ d.old_clickedLeft = g.old_clickedLeft /\ d.old_clickedRight = g.old_clickedRight
  BY <1>4, <1>10 DEF Gui, SameWindows, WindowTypes
<1>12. Core(d) /\ Quiet(d)
  <2>1. Core(f)
    BY <1>8, <1>10, Untouched, Zenon
  <2> QED
    BY <1>11, <2>1, Untouched, Zenon DEF Quiet, NoPress, NoGrab, NoIcon
<1>13. CASE h = d
  BY <1>11, <1>12, <1>13, Zenon
<1>14. CASE f.pressed_icon # "none" /\ h \in Opened(d, {f.pressed_icon})
  <2>1. {f.pressed_icon} \in SUBSET StartItems
    BY <1>10, <1>14, Zenon DEF Gui, WindowTypes
  <2>2. Core(h) /\ SameInput(d, h) /\ Frees(d, h)
    BY <1>12, <1>14, <2>1, OpenWindow, Zenon
  <2>3. d.pressed_button.kind # "task"
    BY <1>11 DEF NoButton
  <2>4. Quiet(h)
    BY <1>12, <2>2, <2>3, Zenon DEF Quiet, NoPress, NoGrab, NoIcon, SameInput, Frees
  <2> QED
    BY <1>11, <2>2, <2>4, Zenon DEF SameInput
<1> QED
  BY <1>5, <1>13, <1>14, Zenon

(***************************************************************************)
(* The press protocol of one packet.                                       *)
(***************************************************************************)
Protocol(g) ==
    /\ OneHeld(g)
    /\ ~ Quiet(g) => g.old_clickedLeft /\ ~ g.g_start_menu_open

\* The same button, window and icon are held.
SameHeld(g, h) ==
    /\ h.pressed_button = g.pressed_button
    /\ h.grabbed_window = g.grabbed_window
    /\ h.pressed_icon = g.pressed_icon

\* What depends only on what is held.
LEMMA SameHeldFacts ==
  ASSUME NEW g, NEW h, SameHeld(g, h)
  PROVE  /\ Quiet(h) <=> Quiet(g)
         /\ OneHeld(h) <=> OneHeld(g)
         /\ (h.windows = g.windows) => (Held(h) <=> Held(g))
<1>1. Holding(h) = Holding(g)
  BY Zenon DEF Holding, SameHeld
<1> QED
  BY <1>1, Zenon DEF Quiet, NoPress, NoGrab, NoIcon, OneHeld, Held, SameHeld

\* mouse_update records the buttons and nothing else.
LEMMA Update ==
  ASSUME NEW g, Core(g), Held(g), NEW left \in BOOLEAN, NEW right \in BOOLEAN,
         NEW h, h = mouse_update(g, left, right)
  PROVE  /\ Core(h) /\ Held(h) /\ SameHeld(g, h)
         /\ h.old_clickedLeft = left
         /\ h.g_start_menu_open = g.g_start_menu_open
<1>0. g \in Gui
  BY Zenon DEF Core, Reg
<1>1. /\ h \in Gui /\ SameWindows(g, h) /\ SameHeld(g, h)
      /\ h.old_clickedLeft = left
      /\ h.g_start_menu_open = g.g_start_menu_open
  BY <1>0, Zenon DEF mouse_update, Gui, SameWindows, SameHeld
<1> QED
  BY <1>1, Untouched, SameHeldFacts, Zenon DEF SameWindows

\* With the start menu open and the pointer inside it, nothing is held.
LEMMA Inside ==
  ASSUME NEW g, Core(g), Quiet(g), NEW clicked \in BOOLEAN, NEW h \in start_menu_inside(g, clicked)
  PROVE  Core(h) /\ Quiet(h)
<1>0. g \in Gui
  BY Zenon DEF Core, Reg
<1>1. PICK c : c = [g EXCEPT !.g_start_menu_open = FALSE]
  BY Zenon
<1>2. h = g \/ h \in Opened(c, StartItems)
  BY <1>1, Zenon DEF start_menu_inside
<1>3. c \in Gui /\ SameWindows(g, c) /\ SameHeld(g, c)
  BY <1>0, <1>1, Zenon DEF Gui, SameWindows, SameHeld
<1>4. Core(c) /\ Quiet(c)
  BY <1>3, Untouched, SameHeldFacts, Zenon
<1>5. CASE h \in Opened(c, StartItems)
  <2>1. StartItems \in SUBSET StartItems
    BY Zenon
  <2>2. Core(h) /\ SameInput(c, h) /\ Frees(c, h)
    BY <1>4, <1>5, <2>1, OpenWindow, Zenon
  <2>3. c.pressed_button.kind # "task"
    BY <1>4, QuietIsHeld, Zenon
  <2> QED
    BY <1>4, <2>2, <2>3, Zenon DEF Quiet, NoPress, NoGrab, NoIcon, SameInput, Frees
<1> QED
  BY <1>2, <1>5, Zenon

\* A press outside the start menu closes it and holds nothing.
LEMMA Outside ==
  ASSUME NEW g, Core(g), Held(g), NEW clicked \in BOOLEAN, NEW h, h = start_menu_outside(g, clicked)
  PROVE  /\ Core(h) /\ Held(h) /\ SameHeld(g, h)
         /\ h.g_start_menu_open = (g.g_start_menu_open /\ ~ clicked)
         /\ h.old_clickedLeft = g.old_clickedLeft
         /\ h.old_clickedRight = g.old_clickedRight
<1>0. g \in Gui
  BY Zenon DEF Core, Reg
<1>1. PICK m : m = (g.g_start_menu_open /\ ~ clicked)
  BY Zenon
<1>2. m \in BOOLEAN
  BY <1>1, Zenon
<1>3. h = [g EXCEPT !.g_start_menu_open = m]
  BY <1>1, Zenon DEF start_menu_outside
<1>4. /\ h \in Gui /\ SameWindows(g, h) /\ SameHeld(g, h)
      /\ h.g_start_menu_open = m
      /\ h.old_clickedLeft = g.old_clickedLeft
      /\ h.old_clickedRight = g.old_clickedRight
  BY <1>0, <1>2, <1>3, Zenon DEF Gui, SameWindows, SameHeld
<1>5. Core(h) /\ Held(h)
  BY <1>4, Untouched, SameHeldFacts, Zenon DEF SameWindows
<1> QED
  BY <1>1, <1>4, <1>5, Zenon

(***************************************************************************)
(* GUI_input_loop: one packet of the mouse.                                *)
(***************************************************************************)
LEMMA InputLoop ==
  ASSUME NEW g, Core(g), Held(g), Protocol(g),
         NEW left \in BOOLEAN, NEW right \in BOOLEAN, NEW over,
         ~ (up(g, left) /\ g.pressed_button.kind = "freed"),
         NEW h \in GUI_input_loop(g, left, right, over)
  PROVE  /\ Core(h) /\ Held(h) /\ Protocol(h)
         /\ h.pressed_button.kind = "freed" => g.pressed_button.kind = "freed" /\ left
<1>1. PICK clicked \in BOOLEAN : clicked = down(g, left)
  BY Zenon DEF down
<1>2. PICK o : o = start_menu_outside(g, clicked)
  BY Zenon
<1>3. PICK e : /\ h = mouse_update(e, left, right)
               /\ \/ g.g_start_menu_open /\ e \in start_menu_inside(g, clicked)
                  \/ e \in Below(o, left, right, over)
  BY <1>1, <1>2, Zenon DEF GUI_input_loop
<1>4. ASSUME Core(e), Quiet(e)
      PROVE  Core(h) /\ Held(h) /\ Protocol(h) /\ h.pressed_button.kind = "none"
  <2>1. Core(h) /\ Held(h) /\ SameHeld(e, h)
    BY <1>3, <1>4, Update, QuietIsHeld, Zenon
  <2>2. Quiet(h)
    BY <1>4, <2>1, SameHeldFacts, Zenon
  <2> QED
    BY <2>1, <2>2, QuietIsHeld, Zenon DEF Protocol
<1>5. CASE g.g_start_menu_open /\ e \in start_menu_inside(g, clicked)
  <2>1. Quiet(g)
    BY <1>5, Zenon DEF Protocol
  <2>2. Core(e) /\ Quiet(e)
    BY <1>5, <2>1, Inside, Zenon
  <2> QED
    BY <1>4, <2>2, Zenon
<1>6. CASE e \in Below(o, left, right, over)
  <2>1. /\ Core(o) /\ Held(o) /\ SameHeld(g, o)
        /\ o.g_start_menu_open = (g.g_start_menu_open /\ ~ clicked)
        /\ o.old_clickedLeft = g.old_clickedLeft
    BY <1>2, Outside, Zenon
  <2>2. (Quiet(o) <=> Quiet(g)) /\ (OneHeld(o) <=> OneHeld(g)) /\ o.pressed_button = g.pressed_button
    BY <2>1, SameHeldFacts, Zenon DEF SameHeld
  <2>3. (down(o, left) <=> down(g, left)) /\ (up(o, left) <=> up(g, left))
    BY <2>1, Zenon DEF down, up
  <2>4. PICK p, q :
          /\ IF down(o, left) THEN p \in LeftPress(o, over) ELSE p = o
          /\ q = RightPress(p, over) \/ q = p
          /\ IF up(o, left) THEN e \in LeftRelease(q) ELSE e = q
    BY <1>6, Zenon DEF Below
  <2>5. ASSUME Core(p), Held(p)
        PROVE  Core(q) /\ Held(q) /\ SameHeld(p, q) /\ q.g_start_menu_open = p.g_start_menu_open
    <3>1. CASE q = p
      BY <2>5, <3>1, Zenon DEF SameHeld
    <3>2. CASE q = RightPress(p, over)
      BY <2>5, <3>2, Right DEF SameHeld, SameInput
    <3> QED
      BY <2>4, <3>1, <3>2, Zenon
  <2>6. CASE down(g, left)
    <3>1. left /\ ~ g.old_clickedLeft /\ clicked /\ ~ up(g, left)
      BY <1>1, <2>6, Zenon DEF down, up
    <3>2. Quiet(o)
      BY <2>2, <3>1, Zenon DEF Protocol
    <3>3. /\ Core(p) /\ Held(p) /\ OneHeld(p) /\ p.pressed_button.kind # "freed"
          /\ p.g_start_menu_open = o.g_start_menu_open
      BY <2>1, <2>3, <2>4, <2>6, <3>2, Press, Zenon DEF SameButtons
    <3>4. Core(q) /\ Held(q) /\ SameHeld(p, q) /\ q.g_start_menu_open = o.g_start_menu_open /\ e = q
      BY <2>3, <2>4, <2>5, <3>1, <3>3, Zenon
    <3>5. /\ Core(h) /\ Held(h) /\ SameHeld(e, h) /\ h.old_clickedLeft = left
          /\ h.g_start_menu_open = e.g_start_menu_open
      BY <1>3, <3>4, Update
    <3>6. ~ h.g_start_menu_open
      BY <2>1, <3>1, <3>4, <3>5, Zenon
    <3>7. OneHeld(h) /\ h.pressed_button.kind # "freed"
      BY <3>3, <3>4, <3>5, SameHeldFacts, Zenon DEF SameHeld
    <3> QED
      BY <3>1, <3>5, <3>6, <3>7, Zenon DEF Protocol
  <2>7. CASE up(g, left)
    <3>1. ~ down(g, left) /\ g.pressed_button.kind # "freed"
      BY <2>7, Zenon DEF down, up
    <3>2. p = o /\ Core(q) /\ Held(q) /\ SameHeld(o, q)
      BY <2>1, <2>3, <2>4, <2>5, <3>1, Zenon
    <3>3. q.pressed_button.kind # "freed" /\ e \in LeftRelease(q)
      BY <2>2, <2>3, <2>4, <2>7, <3>1, <3>2, Zenon DEF SameHeld
    <3>4. Core(e) /\ Quiet(e)
      BY <3>2, <3>3, Release, Zenon
    <3> QED
      BY <1>4, <3>4, Zenon
  <2>8. CASE ~ down(g, left) /\ ~ up(g, left)
    <3>1. p = o /\ e = q /\ Core(q) /\ Held(q) /\ SameHeld(o, q) /\ q.g_start_menu_open = o.g_start_menu_open
      BY <2>1, <2>3, <2>4, <2>5, <2>8, Zenon
    <3>2. /\ Core(h) /\ Held(h) /\ SameHeld(e, h) /\ h.old_clickedLeft = left
          /\ h.g_start_menu_open = e.g_start_menu_open
      BY <1>3, <3>1, Update
    <3>3. (Quiet(h) <=> Quiet(g)) /\ OneHeld(h) /\ h.pressed_button = g.pressed_button
      BY <2>2, <3>1, <3>2, SameHeldFacts, Zenon DEF SameHeld, Protocol
    <3>4. ~ Quiet(g) => left /\ ~ h.g_start_menu_open
      BY <2>1, <2>8, <3>1, <3>2, Zenon DEF Protocol, down, up
    <3>5. g.pressed_button.kind = "freed" => ~ Quiet(g)
      BY QuietIsHeld, Zenon
    <3> QED
      BY <3>2, <3>3, <3>4, <3>5, Zenon DEF Protocol
  <2> QED
    BY <2>6, <2>7, <2>8, Zenon
<1> QED
  BY <1>3, <1>4, <1>5, <1>6, Zenon

(***************************************************************************)
(* The inductive invariant: the globals fit together, the press protocol   *)
(* is kept, and a pressed button is freed only by a shell command.         *)
(***************************************************************************)
Inv ==
    /\ Core(gui) /\ Held(gui) /\ Protocol(gui)
    /\ edited \in BOOLEAN /\ undefined \in BOOLEAN
    /\ gui.pressed_button.kind = "freed" => edited

\* An empty desktop.
LEMMA InitInv == Init => Inv
<1> SUFFICES ASSUME Init PROVE Inv
  BY Zenon
<1>1. gui \in Gui
  <2>1. [w \in Windows |-> Dead] \in [Windows -> WindowSet]
    BY NewWindow, Zenon
  <2>2. NoButton \in [kind : ButtonKinds, of : Windows \cup {NULL}]
    BY Zenon DEF NoButton, ButtonKinds
  <2> QED
    BY <2>1, <2>2, Zenon DEF Init, Gui, WindowSet, ButtonKinds, WindowTypes
<1>2. Quiet(gui)
  BY Zenon DEF Init, Quiet, NoPress, NoGrab, NoIcon
<1>3. UsedSlots(gui) = {} /\ Registered(gui) = {}
  BY DEF Init, UsedSlots, Registered, NULL, Windows
<1>4. Reg(gui)
  BY <1>1, Zenon DEF Init, Reg, RegistryLive
<1>5. Bar(gui)
  BY <1>3, Zenon DEF Init, Bar, Mirror
<1>6. Act(gui)
  BY <1>3, Zenon DEF Init, Act, Activity, Typing
<1>7. edited \in BOOLEAN /\ undefined \in BOOLEAN
  BY Zenon DEF Init
<1> QED
  BY <1>2, <1>4, <1>5, <1>6, <1>7, QuietIsHeld, Zenon DEF Inv, Core, Protocol

\* Packets of the mouse, and keys.
LEMMA NextInv == Inv /\ [Next]_vars => Inv'
<1> SUFFICES ASSUME Inv, [Next]_vars PROVE Inv'
  BY Zenon
<1>1. ASSUME gui' = gui, edited' = edited, undefined' \in BOOLEAN PROVE Inv'
  BY <1>1, Zenon DEF Inv
<1>2. CASE UNCHANGED vars
  BY <1>1, <1>2, Zenon DEF vars, Inv
<1>3. ASSUME NEW left \in BOOLEAN, NEW right \in BOOLEAN, mouse(left, right) PROVE Inv'
  <2>1. CASE UsesFreedButton(left)
    <3>1. gui' = gui /\ edited' = edited /\ undefined' \in BOOLEAN
      BY <1>3, <2>1, Zenon DEF mouse
    <3> QED
      BY <1>1, <3>1, Zenon
  <2>2. CASE ~ UsesFreedButton(left)
    <3>1. PICK over \in SUBSET Windows : gui' \in GUI_input_loop(gui, left, right, over)
      BY <1>3, <2>2, Zenon DEF mouse
    <3>2. edited' = (edited /\ left) /\ undefined' = undefined
      BY <1>3, <2>2, Zenon DEF mouse
    <3>3. /\ Core(gui') /\ Held(gui') /\ Protocol(gui')
          /\ gui'.pressed_button.kind = "freed" => gui.pressed_button.kind = "freed" /\ left
      BY <2>2, <3>1, InputLoop, Zenon DEF Inv, UsesFreedButton
    <3>4. edited' \in BOOLEAN /\ undefined' \in BOOLEAN
      BY <3>2, Zenon DEF Inv
    <3>5. gui'.pressed_button.kind = "freed" => edited'
      BY <3>2, <3>3, Zenon DEF Inv
    <3> QED
      BY <3>3, <3>4, <3>5, Zenon DEF Inv
  <2> QED
    BY <2>1, <2>2, Zenon
<1>4. ASSUME keyboard_handler PROVE Inv'
  <2>1. CASE gui.active_console = Freed
    <3>1. gui' = gui /\ edited' = edited /\ undefined' \in BOOLEAN
      BY <1>4, <2>1, Zenon DEF keyboard_handler
    <3> QED
      BY <1>1, <3>1, Zenon
  <2>2. CASE gui.active_console # Freed
    <3>1. gui' \in Opened(gui, {"app"}) /\ edited' = gui.old_clickedLeft /\ undefined' = undefined
      BY <1>4, <2>2, Zenon DEF keyboard_handler
    <3>2. {"app"} \in SUBSET StartItems
      BY Zenon DEF StartItems
    <3>3. Core(gui') /\ SameInput(gui, gui') /\ Frees(gui, gui') /\ Held(gui')
      BY <3>1, <3>2, OpenWindow, Zenon DEF Inv
    <3>4. NoPress(gui') <=> NoPress(gui)
      BY <3>3 DEF Frees, NoPress, NoButton
    <3>5. Holding(gui') = Holding(gui)
      BY <3>3, <3>4, Zenon DEF Holding, SameInput, NoPress
    <3>6. OneHeld(gui') /\ (Quiet(gui') <=> Quiet(gui))
      BY <3>3, <3>4, <3>5, Zenon DEF Inv, Protocol, OneHeld, Quiet, NoGrab, NoIcon, SameInput
    <3>7. Protocol(gui')
      BY <3>3, <3>6, Zenon DEF Inv, Protocol, SameInput
    <3>8. gui'.pressed_button.kind = "freed" => gui.old_clickedLeft
      <4>1. gui'.pressed_button.kind = "freed" => ~ Quiet(gui)
        BY <3>6, QuietIsHeld, Zenon
      <4> QED
        BY <4>1, Zenon DEF Inv, Protocol
    <3>9. edited' \in BOOLEAN /\ undefined' \in BOOLEAN
      <4>1. gui \in Gui
        BY Zenon DEF Inv, Core, Reg
      <4>2. gui.old_clickedLeft \in BOOLEAN
        BY <4>1, Zenon DEF Gui
      <4> QED
        BY <3>1, <4>2, Zenon DEF Inv
    <3> QED
      BY <3>1, <3>3, <3>7, <3>8, <3>9, Zenon DEF Inv
  <2> QED
    BY <2>1, <2>2, Zenon
<1> QED
  BY <1>2, <1>3, <1>4, Zenon DEF Next

\* Every reachable desktop satisfies the invariant, whatever its packets and keys.
THEOREM Invariance == Spec => []Inv
BY InitInv, NextInv, PTL DEF Spec

(***************************************************************************)
(* However windows are opened, closed and clicked, and whatever overflows, *)
(* no global points at a closed window (close_xp_window, GUI_input_loop).  *)
(***************************************************************************)
THEOREM WindowsOutlivePointers == Spec => []NoClosedWindowReferenced
<1>1. Inv => NoClosedWindowReferenced
  BY Zenon DEF Inv, Core, Reg, Act, Held, NoClosedWindowReferenced, PointersLive
<1> QED
  BY <1>1, Invariance, PTL

(***************************************************************************)
(* Exactly the active window carries the active flag, and there is one     *)
(* while any window is registered (set_active_xp_window, promote_first).   *)
(***************************************************************************)
THEOREM ActiveIsUnique == Spec => []OneActiveWindow
<1>1. Inv => OneActiveWindow
  BY Zenon DEF Inv, Core, Reg, Act, OneActiveWindow, TypeOK
<1> QED
  BY <1>1, Invariance, PTL

(***************************************************************************)
(* The taskbar shows the registry, and every button of it can be clicked   *)
(* while button_arr has room (taskbar_sync_windows).                       *)
(***************************************************************************)
THEOREM TaskbarIsCurrent == Spec => []TaskbarMirrorsWindows
<1>1. Inv => TaskbarMirrorsWindows
  BY Zenon DEF Inv, Core, Bar, TaskbarMirrorsWindows
<1> QED
  BY <1>1, Invariance, PTL

(***************************************************************************)
(* What is typed while a console window is active reaches that console     *)
(* (Console_set_active).                                                   *)
(***************************************************************************)
THEOREM KeysFollowFocus == Spec => []KeysReachActiveConsole
<1>1. Inv => KeysReachActiveConsole
  BY Zenon DEF Inv, Core, Act, KeysReachActiveConsole
<1> QED
  BY <1>1, Invariance, PTL

(***************************************************************************)
(* At most one thing is held, only while the left button is down and the   *)
(* menu closed, and only a shell command frees a pressed taskbar button    *)
(* (GUI_input_loop, taskbar_sync_windows).                                 *)
(***************************************************************************)
THEOREM PressesEnd == Spec => []PressProtocol
<1>1. Inv => PressProtocol
  BY HoldingIs, Zenon DEF Inv, Protocol, OneHeld, PressProtocol
<1> QED
  BY <1>1, Invariance, PTL
=============================================================================
