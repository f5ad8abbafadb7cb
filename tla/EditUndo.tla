------------------------------ MODULE EditUndo ------------------------------
(***************************************************************************)
(* Undo and redo of the editor: src/editor/edit.c.                         *)
(*                                                                         *)
(* Four alterations and the cursor move are the only ways to change the    *)
(* text; each pushes a code for its reverse on the undo stack.  A key      *)
(* press pushes a KEY_PRESS code first, so that one Undo pops back to it.  *)
(* While an Undo runs, the reverses of its own alterations go to the redo  *)
(* stack, a KEY_PRESS code in front of each.                               *)
(*                                                                         *)
(* A command is a key press followed by any sequence of alterations and    *)
(* moves (macros, block and search commands make every sequence); Undo and *)
(* Redo take one step per code popped.  A character of several bytes is    *)
(* taken out byte by byte, a step for each.                                *)
(***************************************************************************)
EXTENDS EditText, UndoStack, SequencesExt

CONSTANTS
  Blanks,            \* the bytes up to 32; a newline is one of them
  CharBytes,         \* most bytes of a character: 1 unless edit->utf8
  Rows,              \* lines of the window less one
  option_group_undo, \* Undo goes on while the next action is of the same kind
  Ops,               \* alterations and moves the commands of a run consist of
  FirstTexts,        \* sizes of the files opened
  MaxKeys,           \* bound: ordinary commands and mouse presses in a behaviour
  MaxOps,            \* bound: alterations and moves in a command
  MaxUndos, MaxRedos \* bounds: Undo and Redo commands in a behaviour

ASSUME FirstTextsAssumption == FirstTexts \subseteq Nat
ASSUME WindowAssumption == Rows \in Nat /\ CharBytes \in Nat

VARIABLES
  lines,            \* number of newlines in the text
  curs_line,        \* number of newlines in front of the cursor
  start_display,    \* offset of the first byte displayed
  start_line,       \* number of newlines in front of it
  mark1, mark2,     \* ends of the selection; mark2 = -1 while it is being made
  end_mark_curs,    \* where the cursor stood when it was finished, or -1
  stack,            \* the stacks "undo" and "redo"
  redo_stack_reset, \* the next recorded action drops the redo stack
  pc,               \* what the editor is doing
  cur_ac,           \* the code on top of the undo stack when an Undo began
  keys,             \* ordinary commands and mouse presses so far
  undos, redos,     \* Undo and Redo commands so far
  ops,              \* steps of the current command
  char_left,        \* bytes still to be taken out of a character of several
  original,         \* the text as loaded
  remarked,         \* history: a Redo has set a marker, which nothing records
  drifted           \* history: such a character stood before the display start

lineVars == <<lines, curs_line>>
displayVars == <<start_display, start_line>>
markVars == <<mark1, mark2, end_mark_curs>>
stackVars == <<stack, redo_stack_reset>>
charVars == <<char_left, drifted>>
ctlVars == <<pc, cur_ac, keys, undos, redos, ops, original, remarked, charVars>>
editVars == <<textVars, lineVars, displayVars, markVars, stackVars>>
vars == <<editVars, ctlVars>>

One(b) == IF b THEN 1 ELSE 0
NewlinesBefore(p) == Cardinality({i \in 0 .. size - 1 : i < p /\ text[i] = NL})

(* What a key press code is to bring back. *)
Now == [text |-> text, cursor |-> cursor, mark1 |-> mark1, mark2 |-> mark2]

-----------------------------------------------------------------------------
(* Recording.  edit_push_undo_action sends the code to the redo stack while *)
(* an Undo runs; s is the stack with the code being undone already popped.  *)

undo_stack_disable == pc = "undo"

\* Mutant: the redo stack outlives the next command.
edit_push_undo_action_no_reset(s, c) ==
  IF undo_stack_disable
  THEN [undo |-> Doubled(s.undo),
        redo |-> Pushed(Pushed(s.redo, KEY_PRESS(0), Now), c, Now)]
  ELSE [undo |-> Pushed(s.undo, c, Now), redo |-> s.redo]

edit_push_undo_action(s, c) ==
  IF undo_stack_disable
  THEN [undo |-> Doubled(s.undo),
        redo |-> Pushed(Pushed(s.redo, KEY_PRESS(0), Now), c, Now)]
  ELSE [undo |-> Pushed(s.undo, c, Now),
        redo |-> IF redo_stack_reset THEN Emptied(s.redo) ELSE s.redo]

(* Up to four codes are pushed one after the other.                         *)
Record(s, codes) ==
  LET push(t, i) == IF i <= Len(codes) THEN edit_push_undo_action(t, codes[i]) ELSE t
  IN stack' = push(push(push(push(s, 1), 2), 3), 4)

(* The numbers from MARK_CURS - 2 on stand for a place of end_mark_curs;    *)
(* a number below that is read as a place of mark2.                         *)
MARK_GAP == 500000000   \* MARK_CURS - MARK_2

MARK_CURS(n) ==
  IF n >= -2 THEN Code("MARK_CURS", n) ELSE Code("MARK_2", n + MARK_GAP)

Markers == << Code("MARK_1", mark1), Code("MARK_2", mark2), MARK_CURS(end_mark_curs) >>

MarkersIfSelected == IF mark1 # mark2 THEN Markers ELSE << >>

(* edit_push_key_press *)
KeyPress ==
  << KEY_PRESS(start_display) >>
    \o IF mark2 = -1 THEN << Code("MARK_1", mark1), MARK_CURS(end_mark_curs) >> ELSE << >>

-----------------------------------------------------------------------------
(* The alterations, the move, and the marking of a selection.               *)

\* Mutant: newlines put in or taken out before the display are not counted.
ShiftDisplayOnly(before, c, d) ==
  /\ start_display' = start_display + d * One(before)
  /\ UNCHANGED start_line

(* The display start moves with a byte put in, or taken out, before it.     *)
ShiftDisplay(before, c, d) ==
  /\ start_display' = start_display + d * One(before)
  /\ start_line' = start_line + d * One(before /\ c = NL)

edit_insert(s, c) ==
  /\ Record(s, << Code(IF c \in Blanks THEN "BACKSPACE_BR" ELSE "BACKSPACE", 0) >>)
  /\ Insert(c)
  /\ ShiftDisplay(cursor < start_display, c, 1)
  /\ lines' = lines + One(c = NL) /\ curs_line' = curs_line + One(c = NL)
  /\ mark1' = mark1 + One(mark1 > cursor)
  /\ mark2' = mark2 + One(mark2 > cursor)
  /\ UNCHANGED end_mark_curs

\* Mutant: the reverse recorded takes out the byte in front of the cursor.
edit_insert_ahead_mixed_up(s, c) ==
  /\ Record(s, << Code(IF c \in Blanks THEN "BACKSPACE_BR" ELSE "BACKSPACE", 0) >>)
  /\ InsertAhead(c)
  /\ ShiftDisplay(cursor < start_display, c, 1)
  /\ lines' = lines + One(c = NL) /\ UNCHANGED curs_line
  /\ mark1' = mark1 + One(mark1 >= cursor)
  /\ mark2' = mark2 + One(mark2 >= cursor)
  /\ UNCHANGED end_mark_curs

edit_insert_ahead(s, c) ==
  /\ Record(s, << Code(IF c \in Blanks THEN "DELCHAR_BR" ELSE "DELCHAR", 0) >>)
  /\ InsertAhead(c)
  /\ ShiftDisplay(cursor < start_display, c, 1)
  /\ lines' = lines + One(c = NL) /\ UNCHANGED curs_line
  /\ mark1' = mark1 + One(mark1 >= cursor)
  /\ mark2' = mark2 + One(mark2 >= cursor)
  /\ UNCHANGED end_mark_curs

Kept(s) == stack' = s /\ UNCHANGED <<textVars, lineVars, displayVars, markVars>>

(* A byte taken out behind the cursor, or in front of it.  The codes of the *)
(* markers, if any, are recorded first.                                     *)
DeleteByte(s, markers) ==
  LET p == text[cursor]
  IN  /\ Delete
      /\ Record(s, markers \o << Code("AHEAD", p) >>)
      /\ lines' = lines - One(p = NL) /\ UNCHANGED curs_line
      /\ mark1' = mark1 - One(mark1 > cursor)
      /\ end_mark_curs' = end_mark_curs - One(mark1 > cursor)
      /\ mark2' = mark2 - One(mark2 > cursor)

BackspaceByte(s, markers) ==
  LET p == text[cursor - 1]
  IN  /\ Backspace
      /\ Record(s, markers \o << Code("INSERT", p) >>)
      /\ lines' = lines - One(p = NL) /\ curs_line' = curs_line - One(p = NL)
      /\ mark1' = mark1 - One(mark1 >= cursor)
      /\ end_mark_curs' = end_mark_curs - One(mark1 >= cursor)
      /\ mark2' = mark2 - One(mark2 >= cursor)

(* With byte_delete, or of a character that is one byte.                    *)
edit_delete(s) ==
  \/ cursor = size /\ Kept(s)
  \/ /\ DeleteByte(s, MarkersIfSelected)
     /\ ShiftDisplay(cursor < start_display, text[cursor], -1)

edit_backspace(s) ==
  \/ cursor = 0 /\ Kept(s)
  \/ /\ BackspaceByte(s, MarkersIfSelected)
     /\ ShiftDisplay(cursor - 1 < start_display, text[cursor - 1], -1)

(* edit_cursor_move by -1 and by 1 *)
move_left(s) ==
  \/ cursor = 0 /\ Kept(s)
  \/ /\ CursorLeft
     /\ Record(s, << Code("CURS_RIGHT", 0) >>)
     /\ curs_line' = curs_line - One(text[cursor - 1] = NL)
     /\ UNCHANGED <<lines, displayVars, markVars>>

move_right(s) ==
  \/ cursor = size /\ Kept(s)
  \/ /\ CursorRight
     /\ Record(s, << Code("CURS_LEFT", 0) >>)
     /\ curs_line' = curs_line + One(text[cursor] = NL)
     /\ UNCHANGED <<lines, displayVars, markVars>>

edit_mark_cmd(unmark) ==
  /\ Record(stack, Markers)
  /\ IF unmark THEN mark1' = 0 /\ mark2' = 0 /\ UNCHANGED end_mark_curs
     ELSE IF mark2 >= 0 THEN mark1' = cursor /\ mark2' = -1 /\ end_mark_curs' = -1
     ELSE mark2' = cursor /\ end_mark_curs' = cursor /\ UNCHANGED mark1
  /\ UNCHANGED <<textVars, lineVars, displayVars>>

(* The window is scrolled by lines from where it starts, as many as         *)
(* start_line says.  Behind the end of the text every byte reads as a       *)
(* newline.                                                                 *)
BeginsLine(p) == p \in 1 .. size => text[p - 1] = NL
LineOf(p) == NewlinesBefore(p) + Max({0, p - size})

edit_scroll_upward(n) ==
  LET i == Min({n, start_line})
  IN  /\ i # 0
      /\ start_line' = start_line - i
      /\ \E p \in 0 .. start_display :
           /\ BeginsLine(p)
           /\ LineOf(p) = Max({0, LineOf(start_display) - Max({0, i})})
           /\ start_display' = p

edit_scroll_downward(n) ==
  LET i == Min({n, lines - start_line - Rows})
  IN  /\ i > 0
      /\ start_line' = start_line + i
      /\ IF LineOf(start_display) >= lines THEN UNCHANGED start_display
         ELSE \E p \in 0 .. size :
                /\ BeginsLine(p) /\ LineOf(p) = Min({lines, LineOf(start_display) + i})
                /\ start_display' = p

edit_move_display(l) ==
  /\ IF l < start_line THEN edit_scroll_upward(start_line - l)
     ELSE edit_scroll_downward(l - start_line)
  /\ UNCHANGED <<textVars, lineVars, markVars, stack>>

-----------------------------------------------------------------------------
(* Commands.                                                                *)

(* edit_execute_key_command and edit_execute_cmd, but for Undo and Redo.    *)
key_command ==
  /\ pc = "idle" /\ keys < MaxKeys
  /\ Record(stack, KeyPress)
  /\ redo_stack_reset' = TRUE
  /\ pc' = "command" /\ keys' = keys + 1
  /\ UNCHANGED <<textVars, lineVars, displayVars, markVars, cur_ac, undos, redos, ops, original, remarked, charVars>>

(* edit_update_cursor: a mouse button goes down or up.  The release does    *)
(* nothing unless the selection is being made.                              *)
mouse_press ==
  /\ pc = "idle" /\ keys < MaxKeys /\ "mouse" \in Ops
  /\ Record(stack, KeyPress)
  /\ pc' = "mouse" /\ keys' = keys + 1
  /\ UNCHANGED <<textVars, lineVars, displayVars, markVars, redo_stack_reset, cur_ac, undos, redos, ops, original, remarked, charVars>>

Alteration ==
  \/ \E c \in Byte : "insert" \in Ops /\ edit_insert(stack, c)
  \/ \E c \in Byte : "ahead" \in Ops /\ edit_insert_ahead(stack, c)
  \/ "delete" \in Ops /\ edit_delete(stack)
  \/ "backspace" \in Ops /\ edit_backspace(stack)
  \/ "mark" \in Ops /\ \E unmark \in BOOLEAN : edit_mark_cmd(unmark)

Movement ==
  \/ "move" \in Ops /\ (move_left(stack) \/ move_right(stack))
  \/ "scroll" \in Ops /\ \E l \in -MaxSize .. MaxSize : edit_move_display(l)

command_step ==
  /\ ops < MaxOps
  /\ \/ pc = "command" /\ (Alteration \/ Movement)
     \/ pc = "mouse" /\ (move_left(stack) \/ move_right(stack))
  /\ ops' = ops + 1
  /\ UNCHANGED <<redo_stack_reset, pc, cur_ac, keys, undos, redos, original, remarked, charVars>>

(* The Delete and the Backspace key on a character of n bytes in a text of  *)
(* UTF-8.  Which bytes make a character is left open, but for a newline,    *)
(* which is in none.  The markers are recorded with the first byte.         *)
Character(p, n) == p >= 0 /\ p + n <= size /\ \A i \in p .. p + n - 1 : text[i] # NL

char_begins ==
  /\ pc = "command" /\ ops < MaxOps /\ ops' = ops + 1
  /\ \E n \in 2 .. CharBytes :
       /\ char_left' = n - 1
       /\ \/ /\ "delete" \in Ops /\ Character(cursor, n)
             /\ DeleteByte(stack, MarkersIfSelected)
             /\ pc' = "delete" /\ drifted' = (drifted \/ cursor < start_display)
          \/ /\ "backspace" \in Ops /\ Character(cursor - n, n)
             /\ BackspaceByte(stack, MarkersIfSelected)
             /\ pc' = "backspace" /\ drifted' = (drifted \/ cursor - n < start_display)
  /\ UNCHANGED <<displayVars, redo_stack_reset, cur_ac, keys, undos, redos, original, remarked>>

(* The next byte; the display start moves by one byte with the last.        *)
char_step ==
  LET before == IF pc = "delete" THEN cursor < start_display ELSE cursor - 1 < start_display
  IN  /\ \/ pc = "delete" /\ DeleteByte(stack, << >>)
         \/ pc = "backspace" /\ BackspaceByte(stack, << >>)
      /\ char_left' = char_left - 1
      /\ start_display' = start_display - One(char_left = 1 /\ before)
      /\ pc' = IF char_left = 1 THEN "command" ELSE pc
      /\ UNCHANGED <<start_line, redo_stack_reset, cur_ac, keys, undos, redos, ops, original, remarked, drifted>>

command_end ==
  /\ \/ pc = "command" /\ Kept(stack)
     \/ pc = "mouse" /\ edit_mark_cmd(FALSE)
  /\ pc' = "idle" /\ ops' = 0
  /\ UNCHANGED <<redo_stack_reset, cur_ac, keys, undos, redos, original, remarked, charVars>>

-----------------------------------------------------------------------------
(* Undo.  The key is not recorded; edit_group_undo runs edit_do_undo once,  *)
(* or as long as the next code is the one this run began with.              *)

undo_command ==
  /\ pc = "idle" /\ undos < MaxUndos /\ undos' = undos + 1
  /\ redo_stack_reset' = FALSE
  /\ pc' = "undo" /\ cur_ac' = Top(stack.undo)
  /\ UNCHANGED <<textVars, lineVars, displayVars, markVars, stack, keys, redos, ops, original, remarked, charVars>>

UndoPopped == [stack EXCEPT !.undo = Popped(@)]
RedoPopped == [stack EXCEPT !.redo = Popped(@)]

(* What both loops make of a code that is no key press; s is the stack      *)
(* after the pop.                                                           *)
Replay(ac, s) ==
  \/ ac.op = "CURS_RIGHT" /\ move_right(s)
  \/ ac.op = "CURS_LEFT" /\ move_left(s)
  \/ ac.op = "BACKSPACE" /\ edit_backspace(s)
  \/ ac.op = "DELCHAR" /\ edit_delete(s)
  \/ ac.op = "AHEAD" /\ edit_insert_ahead(s, ac.arg)
  \/ ac.op = "INSERT" /\ edit_insert(s, ac.arg)
  \/ /\ ac.op = "MARK_1" /\ mark1' = ac.arg /\ stack' = s
     /\ UNCHANGED <<textVars, lineVars, displayVars, mark2, end_mark_curs>>
  \/ /\ ac.op = "MARK_2" /\ mark2' = ac.arg /\ stack' = s
     /\ UNCHANGED <<textVars, lineVars, displayVars, mark1, end_mark_curs>>

undo_action ==
  /\ pc = "undo"
  /\ \E ac \in {Top(stack.undo)}, s \in {UndoPopped} :
       \/ Replay(ac, s)
       \/ ac.op = "BACKSPACE_BR" /\ edit_backspace(s)
       \/ ac.op = "DELCHAR_BR" /\ edit_delete(s)
       \/ /\ ac.op = "MARK_CURS" /\ end_mark_curs' = ac.arg /\ stack' = s
          /\ UNCHANGED <<textVars, lineVars, displayVars, mark1, mark2>>
  /\ UNCHANGED <<redo_stack_reset, ctlVars>>

(* The last code of one edit_do_undo. *)
Landed(ac) ==
  /\ IsKey(ac) \/ ac = STACK_BOTTOM
  /\ start_display' = IF IsKey(ac) THEN ac.arg ELSE start_display
  /\ start_line' = start_line + NewlinesBefore(start_display') - NewlinesBefore(start_display)
  /\ UNCHANGED <<textVars, lineVars, markVars>>

\* Mutant: an Undo that finds the stack empty goes on as a group.
undo_end_any_group ==
  LET next == Top(UndoPopped.undo)
  IN  /\ pc = "undo"
      /\ Landed(Top(stack.undo)) /\ stack' = UndoPopped
      /\ pc' = IF option_group_undo /\ next = cur_ac THEN "undo" ELSE "idle"
      /\ UNCHANGED <<redo_stack_reset, cur_ac, keys, undos, redos, ops, original, remarked, charVars>>

undo_end ==
  LET next == Top(UndoPopped.undo)
  IN  /\ pc = "undo"
      /\ Landed(Top(stack.undo)) /\ stack' = UndoPopped
      /\ pc' = IF option_group_undo /\ next # STACK_BOTTOM /\ next = cur_ac
               THEN "undo" ELSE "idle"
      /\ UNCHANGED <<redo_stack_reset, cur_ac, keys, undos, redos, ops, original, remarked, charVars>>

-----------------------------------------------------------------------------
(* Redo, whose own key press is recorded before redo_stack_reset is looked  *)
(* at.  The codes of a newline taken out have no case in its switch, and a  *)
(* MARK_CURS code falls in the range taken for mark2.                       *)

redo_command ==
  /\ pc = "idle" /\ redos < MaxRedos /\ redos' = redos + 1
  /\ Record(stack, KeyPress)
  /\ redo_stack_reset' = FALSE
  /\ pc' = "redo"
  /\ UNCHANGED <<textVars, lineVars, displayVars, markVars, cur_ac, keys, undos, ops, original, remarked, charVars>>

redo_action ==
  /\ pc = "redo"
  /\ \E ac \in {Top(stack.redo)}, s \in {RedoPopped} :
       \/ Replay(ac, s)
       \/ ac.op \in {"BACKSPACE_BR", "DELCHAR_BR"} /\ Kept(s)
       \/ /\ ac.op = "MARK_CURS" /\ mark2' = ac.arg + MARK_GAP /\ stack' = s
          /\ UNCHANGED <<textVars, lineVars, displayVars, mark1, end_mark_curs>>
  /\ remarked' = (remarked \/ Top(stack.redo).op \in {"MARK_1", "MARK_2", "MARK_CURS"})
  /\ UNCHANGED <<redo_stack_reset, pc, cur_ac, keys, undos, redos, ops, original, charVars>>

redo_end ==
  /\ pc = "redo"
  /\ Landed(Top(stack.redo)) /\ stack' = RedoPopped
  /\ pc' = "idle"
  /\ UNCHANGED <<redo_stack_reset, cur_ac, keys, undos, redos, ops, original, remarked, charVars>>

-----------------------------------------------------------------------------
(* A file loaded fast, with the cursor and the window at its beginning.     *)
UndoInit ==
  /\ size \in FirstTexts /\ text \in TextsOfSize(size) /\ cursor = 0
  /\ lines = NewlinesBefore(size) /\ curs_line = 0
  /\ start_display = 0 /\ start_line = 0
  /\ mark1 = 0 /\ mark2 = 0 /\ end_mark_curs = 0
  /\ stack = [undo |-> NewStack, redo |-> NewStack]
  /\ redo_stack_reset = FALSE
  /\ pc = "idle" /\ cur_ac = STACK_BOTTOM /\ keys = 0 /\ undos = 0 /\ redos = 0 /\ ops = 0
  /\ original = text /\ remarked = FALSE /\ char_left = 0 /\ drifted = FALSE

UndoStep == undo_action \/ undo_end
RedoStep == redo_action \/ redo_end

UndoNext ==
  \/ key_command \/ mouse_press \/ command_step \/ char_begins \/ char_step \/ command_end
  \/ undo_command \/ UndoStep
  \/ redo_command \/ RedoStep

(* The loops of Undo and Redo run without waiting for anything.             *)
UndoSpec ==
  UndoInit /\ [][UndoNext]_vars /\ WF_vars(UndoStep \/ RedoStep)

-----------------------------------------------------------------------------
TopIsKey(s) == IsKey(Top(s))
TopSeen(s) == s.cells[Len(s.cells)].seen
Restored(s) == TopIsKey(s) => text = TopSeen(s).text /\ cursor = TopSeen(s).cursor

(* The selection there was when the key was pressed.  Redo sets markers     *)
(* without recording them, and sets the wrong one for MARK_CURS.            *)
SelectionRestored(s) ==
  LET seen == TopSeen(s)
  IN  TopIsKey(s) /\ seen.mark2 >= 0 /\ seen.mark1 # seen.mark2 /\ ~remarked
        => mark1 = seen.mark1 /\ mark2 = seen.mark2

(* "If the user undos until the stack bottom, and the stack has not         *)
(* wrapped, then the file should be as it was when he loaded up."           *)
BottomIsOriginal ==
  pc = "idle" /\ Top(stack.undo) = STACK_BOTTOM /\ ~stack.undo.lost => text = original

(* When an Undo has popped its way to a key press, text, cursor and markers *)
(* are what they were when that key was pressed, and at the bottom the text *)
(* is that of the file: the codes in between are a faithful inverse, with   *)
(* their run lengths, whatever was undone and redone before.                *)
UndoRestores ==
  Restored(stack.undo) /\ SelectionRestored(stack.undo) /\ BottomIsOriginal

(* A Redo brings back what the Undo step it reverses had found.             *)
RedoRestores == Restored(stack.redo)

(* The line counts kept by the alterations, the moves, Undo and Redo are    *)
(* those of the text: curs_row is computed from them.  Excepted is          *)
(* start_line once a character of several bytes has been taken out in front *)
(* of the display: edit_delete and edit_backspace move the display start by *)
(* one byte for all of them.                                                *)
LinesExact ==
  /\ lines = NewlinesBefore(size)
  /\ curs_line = NewlinesBefore(cursor)
  /\ ~drifted => start_line = NewlinesBefore(start_display)

(* An Undo ends, also when it goes on for a group. *)
UndoEnds == pc = "undo" ~> pc = "idle"
=============================================================================
