---------------------------- MODULE MCComponents ----------------------------
(***************************************************************************)
(* The parts of the kernel that run by themselves, each with a small       *)
(* instance.  They share no state that a property is about, so part says   *)
(* which one a behaviour exercises, and the variables of the others keep   *)
(* their initial values.                                                   *)
(***************************************************************************)
EXTENDS Futex, Paging, FileTable

CONSTANTS none, t1, t2, t3, cond, mutex, pipe, event

VARIABLE part

\* syscalls/futex.cpp, memory/paging.cpp and filesystems/vfs are the modules that
\* are extended, so their names are those of the modules.
CondToMutex == {<<cond, mutex>>}

\* multitasking/spinlock.cpp
VARIABLES spinCnt, spinLocked, spinPc, spinCpu, spinHalted

Spin == INSTANCE Spinlock WITH cnt <- spinCnt, locked <- spinLocked, pc <- spinPc,
  cpu <- spinCpu, halted <- spinHalted

spinVars == <<spinCnt, spinLocked, spinPc, spinCpu, spinHalted>>

\* utility/avl_tree.cpp
VARIABLES first, map

Avl == INSTANCE AvlTree WITH Keys <- 1 .. 7, Values <- {1, 2}

avlVars == <<first, map>>

\* GUI/text_editor.cpp; the second file has too many lines.
VARIABLES editor, clipboard

Editor == INSTANCE TextEditor WITH Chars <- {"x", "y"}, MAX_LINES <- 3, MAX_LINE_LENGTH <- 3,
  Rows <- 2, MaxClip <- 1, Files <- {<<>>, <<"x", "\n", "\n", "\n", "y">>}

editorVars == <<editor, clipboard>>

\* GUI/file_explorer.cpp
VARIABLES fs, explorer, listed

Explorer == INSTANCE FileExplorer WITH NewNames <- <<"New Folder", "New Folder 1">>,
  FE_BACK_HISTORY <- 2, MaxDirs <- 5

explorerVars == <<fs, explorer, listed>>

\* GUI/calculator.cpp: with five bits, 31 is -1 and 13 + 3 the smallest int.
VARIABLES calc, calcHalted, expr

Calc == INSTANCE Calculator WITH Digits <- {0, 1, 3}, Width <- 5, MaxDigits <- 2, MaxOps <- 2,
  halted <- calcHalted

calcVars == <<calc, calcHalted, expr>>

\* drivers/mouse.cpp: movements whose bytes have bit 3 set and clear.
VARIABLES packet, phase, mouseCycle, mouse1, mouse2, mouse_position_x, mouse_position_y,
          clickedLeft, clickedRight, whole, unmarked

Packet(left, right, dx, dy) == [left |-> left, right |-> right, dx |-> dx, dy |-> dy]

Pointer == INSTANCE Mouse WITH SCREEN_WIDTH <- 3, SCREEN_HEIGHT <- 2,
  MOUSE_BASE_DIVISOR <- 5, MOUSE_ACCEL_THRESHOLD <- 5, MOUSE_ACCEL_FACTOR <- 2,
  Packets <- {Packet(FALSE, FALSE, 0, 0), Packet(TRUE, FALSE, 5, -8), Packet(FALSE, TRUE, -8, 8),
              Packet(TRUE, TRUE, 8, 5), Packet(FALSE, FALSE, -5, -16)}

mouseVars == <<packet, phase, mouseCycle, mouse1, mouse2, mouse_position_x, mouse_position_y,
               clickedLeft, clickedRight, whole, unmarked>>

-----------------------------------------------------------------------------

vars == <<part, spinVars, futexVars, avlVars, pagingVars, filesVars, editorVars,
          explorerVars, calcVars, mouseVars>>

Parts == {"spinlock", "futex", "avl", "paging", "pipe", "event", "editor", "explorer",
          "calculator", "mouse"}

\* A part has one initial state as long as another is exercised.
Init ==
  /\ part \in Parts
  /\ Spin!Init
  /\ FutexInit
  /\ Avl!Init
  /\ PagingInit
  /\ FilesInit
  /\ Editor!Init
  /\ part # "editor" => editor = Editor!Blank
  /\ Explorer!Init
  /\ part # "explorer" => fs # {}
  /\ Calc!Init
  /\ Pointer!Init
  /\ part # "mouse" => packet = Packet(FALSE, FALSE, 0, 0)

SpinNext ==
  /\ part = "spinlock"
  /\ Spin!Next
  /\ UNCHANGED <<part, futexVars, avlVars, pagingVars, filesVars, editorVars, explorerVars,
                 calcVars, mouseVars>>

FutexNext ==
  /\ part = "futex"
  /\ FutexStep
  /\ UNCHANGED <<part, spinVars, avlVars, pagingVars, filesVars, editorVars, explorerVars,
                 calcVars, mouseVars>>

AvlNext ==
  /\ part = "avl"
  /\ Avl!Next
  /\ UNCHANGED <<part, spinVars, futexVars, pagingVars, filesVars, editorVars, explorerVars,
                 calcVars, mouseVars>>

PagingNext ==
  /\ part = "paging"
  /\ PagingStep
  /\ UNCHANGED <<part, spinVars, futexVars, avlVars, filesVars, editorVars, explorerVars,
                 calcVars, mouseVars>>

\* Either a pipe or an eventfd is opened and closed again and again.
FilesNext ==
  /\ FilesStep
  /\ \/ part = "pipe" /\ allocated' \subseteq Pipes
     \/ part = "event" /\ allocated' \subseteq Events
  /\ UNCHANGED <<part, spinVars, futexVars, avlVars, pagingVars, editorVars, explorerVars,
                 calcVars, mouseVars>>

EditorNext ==
  /\ part = "editor"
  /\ Editor!Next
  /\ UNCHANGED <<part, spinVars, futexVars, avlVars, pagingVars, filesVars, explorerVars,
                 calcVars, mouseVars>>

ExplorerNext ==
  /\ part = "explorer"
  /\ Explorer!Next
  /\ UNCHANGED <<part, spinVars, futexVars, avlVars, pagingVars, filesVars, editorVars,
                 calcVars, mouseVars>>

CalcNext ==
  /\ part = "calculator"
  /\ Calc!Next
  /\ UNCHANGED <<part, spinVars, futexVars, avlVars, pagingVars, filesVars, editorVars,
                 explorerVars, mouseVars>>

MouseNext ==
  /\ part = "mouse"
  /\ Pointer!Next
  /\ UNCHANGED <<part, spinVars, futexVars, avlVars, pagingVars, filesVars, editorVars,
                 explorerVars, calcVars>>

Next ==
  \/ SpinNext
  \/ FutexNext
  \/ AvlNext
  \/ PagingNext
  \/ FilesNext
  \/ EditorNext
  \/ ExplorerNext
  \/ CalcNext
  \/ MouseNext

Spec == Init /\ [][Next]_vars

-----------------------------------------------------------------------------

\* The properties, stated and explained in the modules of the parts; those of
\* Futex, Paging and FileTable are WakesReachSleepers, PagesAccounted and
\* EndsCounted themselves.
LocksExclude == part = "spinlock" => Spin!LocksExclude
TreeIsMap == part = "avl" => Avl!TreeIsMap
EditsAreLocal == part = "editor" => Editor!EditsAreLocal
ShowsExpression == part = "calculator" => Calc!ShowsExpression
Resynchronises == Pointer!Resynchronises
BackLeadsUp == part = "explorer" => Explorer!BackLeadsUp
=============================================================================
