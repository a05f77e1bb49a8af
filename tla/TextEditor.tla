----------------------------- MODULE TextEditor -----------------------------
(***************************************************************************)
(* The text editor (GUI/text_editor.cpp): a buffer of lines with a cursor, *)
(* edited by keys, clicks and the context menu.  A line is the sequence of *)
(* characters before its NUL; the coordinates of the mouse are the row and *)
(* the column they hit.  line_buffer is followed in memory by the other    *)
(* members of the editor: a line read behind its end sets overrun, after   *)
(* which nothing is claimed.                                               *)
(***************************************************************************)
EXTENDS Integers, Sequences

CONSTANTS Chars,            \* printable characters
          MAX_LINES,        \* TEXT_EDITOR_MAX_LINES
          MAX_LINE_LENGTH,  \* TEXT_EDITOR_MAX_LINE_LENGTH, the NUL included
          Rows,             \* text_editor_compute_visible_row_count
          Files,            \* texts of the files that are opened
          MaxClip           \* bound: the longest text that is copied

NewLine == "\n"
Backspace == "bs"
Up == "up"
Down == "down"
Left == "left"
Right == "right"
Arrows == {Up, Down, Left, Right}
Keys == Chars \cup Arrows \cup {NewLine, Backspace}

VARIABLES editor,    \* the members of XPTextEditor that matter
          clipboard  \* text_editor_shared_clipboard

vars == <<editor, clipboard>>

Lines == 0 .. MAX_LINES - 1

(***************************************************************************)
(* The functions of text_editor.cpp, on a record e of the editor.          *)
(***************************************************************************)
Length(e, l) == Len(e.line_buffer[l])

text_editor_clamp_cursor_column_to_line_end(e) ==
  IF e.line \notin Lines THEN [e EXCEPT !.overrun = TRUE]
  ELSE IF e.column > Length(e, e.line) THEN [e EXCEPT !.column = Length(e, e.line)]
  ELSE e

text_editor_scroll_to_keep_cursor_visible(e) ==
  [e EXCEPT !.scroll = IF e.line < @ THEN e.line
                       ELSE IF e.line >= @ + Rows THEN e.line - Rows + 1
                       ELSE @]

\* The line is cut at the cursor; the lines below it move down.
split(e) ==
  LET cut == e.line_buffer[e.line]
  IN  [e EXCEPT !.line_buffer =
                  [l \in Lines |->
                     IF l = e.line THEN SubSeq(cut, 1, e.column)
                     ELSE IF l = e.line + 1 THEN SubSeq(cut, e.column + 1, Len(cut))
                     ELSE IF l > e.line + 1 /\ l <= e.total THEN @[l - 1]
                     ELSE @[l]],
                !.total = @ + 1, !.line = @ + 1, !.column = 0,
                !.has_unsaved_changes = TRUE]

delete(e) ==
  [e EXCEPT !.line_buffer[e.line] = SubSeq(@, 1, e.column - 1) \o SubSeq(@, e.column + 1, Len(@)),
            !.column = @ - 1, !.has_unsaved_changes = TRUE]

MutantJoin(e) ==
  LET joined == e.line_buffer[e.line - 1] \o e.line_buffer[e.line]
  IN  IF e.total > MAX_LINES THEN [e EXCEPT !.overrun = TRUE] ELSE
      [e EXCEPT !.line_buffer =
                  [l \in Lines |->
                     IF l = e.line - 1 THEN joined
                     ELSE IF l > e.line /\ l < e.total - 1 THEN @[l + 1]
                     ELSE IF l = e.total - 1 THEN <<>>
                     ELSE @[l]],
                !.total = @ - 1, !.line = @ - 1, !.column = Length(e, e.line - 1),
                !.has_unsaved_changes = TRUE]

\* The line is appended to the one above it; the lines below it move up.
join(e) ==
  LET joined == e.line_buffer[e.line - 1] \o e.line_buffer[e.line]
  IN  IF e.total > MAX_LINES THEN [e EXCEPT !.overrun = TRUE] ELSE
      [e EXCEPT !.line_buffer =
                  [l \in Lines |->
                     IF l = e.line - 1 THEN joined
                     ELSE IF l >= e.line /\ l < e.total - 1 THEN @[l + 1]
                     ELSE IF l = e.total - 1 THEN <<>>
                     ELSE @[l]],
                !.total = @ - 1, !.line = @ - 1, !.column = Length(e, e.line - 1),
                !.has_unsaved_changes = TRUE]

insert(e, c) ==
  [e EXCEPT !.line_buffer[e.line] = SubSeq(@, 1, e.column) \o <<c>> \o SubSeq(@, e.column + 1, Len(@)),
            !.column = @ + 1, !.has_unsaved_changes = TRUE]

arrow(e, k) ==
  IF k = Up /\ e.line > 0
  THEN text_editor_clamp_cursor_column_to_line_end([e EXCEPT !.line = @ - 1])
  ELSE IF k = Down /\ e.line < e.total - 1
  THEN text_editor_clamp_cursor_column_to_line_end([e EXCEPT !.line = @ + 1])
  ELSE IF k = Left /\ e.column > 0 THEN [e EXCEPT !.column = @ - 1]
  ELSE IF k = Left /\ e.line > 0
  THEN [e EXCEPT !.line = @ - 1, !.column = Length(e, e.line - 1)]
  ELSE IF k = Right /\ e.column < Length(e, e.line) THEN [e EXCEPT !.column = @ + 1]
  ELSE IF k = Right /\ e.line < e.total - 1
  THEN [e EXCEPT !.line = @ + 1, !.column = 0]
  ELSE e

text_editor_handle_key_input(e, k) ==
  LET n == IF k \in Arrows THEN e ELSE [e EXCEPT !.all_text_is_selected = FALSE]
      scrolled(x) == text_editor_scroll_to_keep_cursor_visible(x)
  IN  CASE e.overrun -> e
        [] ~e.overrun /\ e.line \notin Lines -> [e EXCEPT !.overrun = TRUE]
        [] ~e.overrun /\ e.line \in Lines ->
             IF k = NewLine
             THEN IF n.total >= MAX_LINES THEN n ELSE scrolled(split(n))
             ELSE IF k = Backspace
             THEN scrolled(IF n.column > 0 THEN delete(n)
                           ELSE IF /\ n.line > 0
                                   /\ Length(n, n.line - 1) + Length(n, n.line) < MAX_LINE_LENGTH - 1
                           THEN join(n) ELSE n)
             ELSE IF k \in Arrows THEN scrolled(arrow(n, k))
             ELSE IF Length(n, n.line) >= MAX_LINE_LENGTH - 1 THEN n
             ELSE scrolled(insert(n, k))

\* The lines with a newline between each and the next.
Text(e) ==
  LET text[l \in Lines] ==
        IF l = 0 THEN e.line_buffer[0]
        ELSE IF l < e.total THEN text[l - 1] \o <<NewLine>> \o e.line_buffer[l]
        ELSE text[l - 1]
  IN  text[MAX_LINES - 1]

-----------------------------------------------------------------------------

Blank == [line_buffer |-> [l \in Lines |-> <<>>], total |-> 1, line |-> 0, column |-> 0,
          scroll |-> 0, has_unsaved_changes |-> FALSE, all_text_is_selected |-> FALSE,
          menu |-> FALSE, overrun |-> FALSE]

(***************************************************************************)
(* text_editor_open_window reads bytes until it is at line MAX_LINES; what *)
(* does not fit in a line is dropped.  total is one more than the newlines *)
(* read.                                                                   *)
(***************************************************************************)
load(file) ==
  LET read[i \in 0 .. Len(file)] ==
        IF i = 0 THEN Blank
        ELSE LET e == read[i - 1]
                 l == e.total - 1
             IN  IF l >= MAX_LINES THEN e
                 ELSE IF file[i] = NewLine THEN [e EXCEPT !.total = @ + 1]
                 ELSE IF Length(e, l) < MAX_LINE_LENGTH - 1
                 THEN [e EXCEPT !.line_buffer[l] = Append(@, file[i])]
                 ELSE e
  IN  read[Len(file)]

Init ==
  /\ \E file \in Files : editor = load(file)
  /\ clipboard = <<>>

key_input(k) ==
  /\ ~editor.overrun
  /\ editor' = text_editor_handle_key_input(editor, k)
  /\ UNCHANGED clipboard

\* A right click opens the menu, unless it is open.
right_click ==
  /\ ~editor.overrun
  /\ ~editor.menu
  /\ editor' = [editor EXCEPT !.menu = TRUE]
  /\ UNCHANGED clipboard

(***************************************************************************)
(* A click in the text.  The column is found in the line that was hit,     *)
(* which may lie behind the text, or behind line_buffer; the cursor goes   *)
(* to the last line of the text then, and to its end at most.              *)
(***************************************************************************)
click(row, column) ==
  LET hit == row + editor.scroll
      n == [editor EXCEPT !.all_text_is_selected = FALSE,
                          !.line = IF hit >= editor.total THEN editor.total - 1 ELSE hit,
                          !.column = column]
  IN  /\ ~editor.overrun
      /\ ~editor.menu
      /\ hit \in Lines => column <= Length(editor, hit)
      /\ editor' = text_editor_clamp_cursor_column_to_line_end(n)
      /\ UNCHANGED clipboard

\* A click in the border, left of the text or above it.
click_outside ==
  /\ ~editor.overrun
  /\ ~editor.menu
  /\ editor' = [editor EXCEPT !.all_text_is_selected = FALSE]
  /\ UNCHANGED clipboard

Closed == [editor EXCEPT !.menu = FALSE]

\* The items of the menu; a click beside it closes it.
menu_click ==
  /\ ~editor.overrun
  /\ editor.menu
  /\ \/ editor' = Closed /\ UNCHANGED clipboard
     \/ editor' = [Closed EXCEPT !.all_text_is_selected = TRUE] /\ UNCHANGED clipboard
     \/ \* Copy All
        /\ editor' = [Closed EXCEPT !.overrun = editor.total > MAX_LINES]
        /\ Len(Text(editor)) <= MaxClip
        /\ clipboard' = Text(editor)
     \/ \* Paste
        /\ LET paste[i \in 0 .. Len(clipboard)] ==
                 IF i = 0 THEN Closed ELSE text_editor_handle_key_input(paste[i - 1], clipboard[i])
           IN  editor' = paste[Len(clipboard)]
        /\ UNCHANGED clipboard
     \/ \* Clear
        /\ editor' = [Blank EXCEPT !.has_unsaved_changes = TRUE]
        /\ UNCHANGED clipboard

Next ==
  \/ \E k \in Keys : key_input(k)
  \/ right_click
  \/ \E row \in 0 .. MAX_LINES, column \in 0 .. MAX_LINE_LENGTH - 1 : click(row, column)
  \/ click_outside
  \/ menu_click

Spec == Init /\ [][Next]_vars

-----------------------------------------------------------------------------

\* Where the cursor is in Text(e): the characters before it.
Before(e) ==
  LET length[l \in 0 .. MAX_LINES] ==
        IF l = 0 THEN 0 ELSE length[l - 1] + Length(e, l - 1) + 1
  IN  length[e.line] + e.column

\* What a key does to a text, without lines: its effect at a position.
Inserted(text, at, c) == SubSeq(text, 1, at) \o <<c>> \o SubSeq(text, at + 1, Len(text))
Deleted(text, at) == SubSeq(text, 1, at - 1) \o SubSeq(text, at + 1, Len(text))

\* The key does nothing to the text: no room, or nothing to delete.
Refused(e, k) ==
  \/ k \in Arrows
  \/ k \in Chars /\ Length(e, e.line) = MAX_LINE_LENGTH - 1
  \/ k = NewLine /\ e.total = MAX_LINES
  \/ /\ k = Backspace
     /\ e.column = 0
     /\ e.line > 0 => Length(e, e.line - 1) + Length(e, e.line) >= MAX_LINE_LENGTH - 1

CursorInText(e) ==
  /\ e.total \in 1 .. MAX_LINES
  /\ e.line \in 0 .. e.total - 1
  /\ e.column \in 0 .. Length(e, e.line)
  /\ \A l \in Lines : /\ Length(e, l) <= MAX_LINE_LENGTH - 1
                      /\ l >= e.total => Length(e, l) = 0

(***************************************************************************)
(* text_editor_handle_key_input keeps lines, moves their tails and shifts  *)
(* the others; seen as one text with newlines in it, a key inserts one     *)
(* character at the cursor or deletes the one before it, exactly when      *)
(* there is room, and marks the text unsaved.  The cursor stays in the     *)
(* text, whatever was clicked or pasted, and no line is longer than its    *)
(* buffer.  A key also leaves the cursor on a visible row, unless it was   *)
(* refused.  Files with MAX_LINES newlines or more are excluded:           *)
(* text_editor.cpp:209 makes them one line longer than line_buffer.        *)
(***************************************************************************)
EditsAreLocal ==
  editor.total <= MAX_LINES =>
    /\ ~editor.overrun
    /\ CursorInText(editor)
    /\ \A k \in Keys :
         LET n == text_editor_handle_key_input(editor, k)
             old == Text(editor)
             new == Text(n)
         IN  /\ \/ Refused(editor, k) /\ new = old
                \/ /\ ~Refused(editor, k)
                   /\ n.has_unsaved_changes
                   /\ IF k = Backspace
                      THEN new = Deleted(old, Before(editor)) /\ Before(n) = Before(editor) - 1
                      ELSE new = Inserted(old, Before(editor), k) /\ Before(n) = Before(editor) + 1
             /\ \/ n.line \in n.scroll .. n.scroll + Rows - 1
                \/ n = [editor EXCEPT !.all_text_is_selected = FALSE]
=============================================================================
