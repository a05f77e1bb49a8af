---------------------------- MODULE FileExplorer ----------------------------
(***************************************************************************)
(* The file explorer (GUI/file_explorer.cpp): a listing of the current     *)
(* directory, a back stack, two menus.  The shell, in another window,      *)
(* makes and removes directories behind its back.  A path is the sequence  *)
(* of its names, a slot the name it shows.  Files are left out: a click on *)
(* one starts a program and leaves the explorer as it is.                  *)
(***************************************************************************)
EXTENDS Integers, Sequences, FiniteSets

CONSTANTS NewNames,         \* "New Folder", "New Folder 1", ...: MAX_NAME_ATTEMPTS names
          FE_BACK_HISTORY,
          MaxDirs           \* bound: the directories the disk has room for

Names == {NewNames[i] : i \in 1 .. Len(NewNames)}
NoSlot == ""

VARIABLES fs,        \* paths of the directories that exist; {}: not mounted
          explorer,  \* the members of XPFileExplorer that matter
          listed     \* history: the path of the last listing

vars == <<fs, explorer, listed>>

Parent(path) == SubSeq(path, 1, Len(path) - 1)

MutantEnter(x, d) ==
  [x EXCEPT !.back_stack = IF Len(@) < FE_BACK_HISTORY THEN Append(@, x.path)
                                                       ELSE Append(Tail(@), x.path),
            !.path = Append(@, d)]

\* The directory that is left is pushed, if there is room.
enter(x, d) ==
  [x EXCEPT !.back_stack = IF Len(@) < FE_BACK_HISTORY THEN Append(@, x.path) ELSE @,
            !.path = Append(@, d)]

(***************************************************************************)
(* The slots are emptied first; when the directory cannot be opened, the   *)
(* selection and the menus stay as they are.                               *)
(***************************************************************************)
explorer_load_directory(x, dirs) ==
  LET n == [x EXCEPT !.visible = {}]
  IN  IF x.path \notin dirs THEN n
      ELSE [n EXCEPT !.visible = {d \in Names : Append(x.path, d) \in dirs},
                     !.selected = NoSlot, !.ctx_open = FALSE, !.bgx_open = FALSE]

\* The listing is loaded from the directories there are then.
Load(x, dirs) ==
  /\ fs' = dirs
  /\ explorer' = explorer_load_directory(x, dirs)
  /\ listed' = x.path

-----------------------------------------------------------------------------

(***************************************************************************)
(* create_file_explorer: malloc leaves the menus with any value, and so    *)
(* does explorer_load_directory when / cannot be opened.                   *)
(***************************************************************************)
Init ==
  /\ fs \in {{}, {<<>>}}
  /\ \E ctx, bgx \in BOOLEAN :
       explorer = explorer_load_directory(
                    [path |-> <<>>, back_stack |-> <<>>, visible |-> {}, selected |-> NoSlot,
                     ctx_open |-> ctx, ctx_target_slot |-> NoSlot, bgx_open |-> bgx], fs)
  /\ listed = <<>>

NoMenu == ~explorer.ctx_open /\ ~explorer.bgx_open

explorer_go_back ==
  /\ NoMenu
  /\ explorer.back_stack # <<>>
  /\ LET s == explorer.back_stack
     IN  Load([explorer EXCEPT !.path = s[Len(s)], !.back_stack = Parent(s)], fs)

\* A left click on a directory opens it.
click_slot(d) ==
  /\ NoMenu
  /\ d \in explorer.visible
  /\ Load(enter([explorer EXCEPT !.selected = d], d), fs)

click_nowhere ==
  /\ NoMenu
  /\ explorer' = [explorer EXCEPT !.selected = NoSlot]
  /\ UNCHANGED <<fs, listed>>

\* A right click opens a menu, for the slot it hits or for the background.
right_click ==
  /\ NoMenu
  /\ \/ \E d \in explorer.visible :
          explorer' = [explorer EXCEPT !.ctx_open = TRUE, !.ctx_target_slot = d]
     \/ explorer' = [explorer EXCEPT !.bgx_open = TRUE]
  /\ UNCHANGED <<fs, listed>>

(***************************************************************************)
(* A left click with the context menu open closes it; Open enters the      *)
(* directory of the slot the menu was opened on, the other items do        *)
(* nothing with a directory.  A menu that was never opened has no slot:    *)
(* what it does is undefined, and not claimed.                             *)
(***************************************************************************)
execute_context_menu ==
  /\ explorer.ctx_open
  /\ LET x == [explorer EXCEPT !.ctx_open = FALSE]
     IN  \/ explorer' = x /\ UNCHANGED <<fs, listed>>
         \/ x.ctx_target_slot # NoSlot /\ Load(enter(x, x.ctx_target_slot), fs)

\* The first of the names that does not exist; the last one when all do.
new_name ==
  LET unused == {i \in 1 .. Len(NewNames) : Append(explorer.path, NewNames[i]) \notin fs}
  IN  NewNames[IF unused = {} THEN Len(NewNames)
               ELSE CHOOSE i \in unused : \A j \in unused : i <= j]

\* FatFs: a directory is made in a directory that exists, while there is room.
f_mkdir(path) ==
  IF Cardinality(fs) < MaxDirs /\ Parent(path) \in fs THEN fs \cup {path} ELSE fs

execute_background_menu ==
  /\ ~explorer.ctx_open
  /\ explorer.bgx_open
  /\ LET x == [explorer EXCEPT !.bgx_open = FALSE]
     IN  \/ explorer' = x /\ UNCHANGED <<fs, listed>>
         \/ Load(x, f_mkdir(Append(explorer.path, new_name)))  \* New Folder
         \/ Load(x, fs)                                        \* New File, Refresh

\* FatFs: f_unlink removes a directory that is empty.
cmd_rm(path) ==
  /\ path \in fs \ {<<>>}
  /\ \A d \in Names : Append(path, d) \notin fs
  /\ fs' = fs \ {path}
  /\ UNCHANGED <<explorer, listed>>

cmd_mkdir(path, d) ==
  /\ path \in fs
  /\ fs' = f_mkdir(Append(path, d))
  /\ UNCHANGED <<explorer, listed>>

Next ==
  \/ explorer_go_back
  \/ \E d \in Names : click_slot(d)
  \/ click_nowhere
  \/ right_click
  \/ execute_context_menu
  \/ execute_background_menu
  \/ \E path \in fs : cmd_rm(path) \/ \E d \in Names : cmd_mkdir(path, d)

Spec == Init /\ [][Next]_vars

-----------------------------------------------------------------------------

\* The directories one leaves with Back, nearest last.
Trail == Append(explorer.back_stack, explorer.path)

(***************************************************************************)
(* What the explorer shows and what a click on it does belong together,    *)
(* whatever the shell does meanwhile: the slots are those of the directory *)
(* in the address bar, and the context menu is about one of them.  Back    *)
(* leads to the parent of the directory, all the way to the root; only     *)
(* when the stack was full, which drops the push silently                  *)
(* (file_explorer.cpp:528), it skips directories.  Menus that were never   *)
(* initialised are excluded: they occur when / cannot be opened.           *)
(***************************************************************************)
BackLeadsUp ==
  fs # {} =>
    /\ Len(explorer.back_stack) <= FE_BACK_HISTORY
    /\ explorer.visible # {} => listed = explorer.path
    /\ explorer.ctx_open => explorer.ctx_target_slot \in explorer.visible /\ ~explorer.bgx_open
    /\ Trail[1] = <<>>
    /\ \A i \in 2 .. Len(Trail) :
         \/ Trail[i - 1] = Parent(Trail[i])
         \/ /\ i = FE_BACK_HISTORY + 1
            /\ \E n \in 0 .. Len(Trail[i]) - 1 : Trail[i - 1] = SubSeq(Trail[i], 1, n)
=============================================================================
