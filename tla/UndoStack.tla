----------------------------- MODULE UndoStack -----------------------------
(***************************************************************************)
(* The undo and the redo stack of the editor as values: the codes in use,  *)
(* the oldest first, and the number of cells allocated for them.  Pushing  *)
(* counts repeated codes, doubles the stack while it is allowed to, and    *)
(* then forgets the oldest key presses.                                    *)
(*                                                                         *)
(* In src/editor/edit.c a stack is a ring of numbers between two indices;  *)
(* UndoRing shows that the ring does what is said here.                    *)
(***************************************************************************)
EXTENDS Integers, Sequences, FiniteSets

CONSTANTS
  START_STACK_SIZE,  \* cells of a new stack (32)
  MaxUndo,           \* option_max_undo: a stack of so many cells stops growing
  Margin,            \* a stack with no more free cells is doubled (10)
  MAX_RUN            \* a code is counted up to so many times (1000000000)

ASSUME StackAssumption ==
  /\ START_STACK_SIZE \in Nat /\ MaxUndo \in Nat /\ Margin \in Nat /\ MAX_RUN \in Nat
  /\ 5 <= Margin /\ Margin <= START_STACK_SIZE /\ START_STACK_SIZE <= MaxUndo

-----------------------------------------------------------------------------
(* A number of the C stack is a code op with an operand arg: the byte to    *)
(* put back, a marker's position, start_display, or the run length.         *)

Code(op, arg) == [op |-> op, arg |-> arg]
KEY_PRESS(sd) == Code("KEY_PRESS", sd)
COUNT(n) == Code("COUNT", n)
STACK_BOTTOM == Code("STACK_BOTTOM", 0)
IsKey(c) == c.op = "KEY_PRESS"

(* A cell in use holds a code and, beside a key press code, what the one    *)
(* who pushed it saw: the properties compare with it.                       *)
Cell(c, seen) == [code |-> c, seen |-> IF IsKey(c) THEN seen ELSE << >>]

NewStack == [cells |-> << >>, size |-> START_STACK_SIZE, lost |-> FALSE]
Emptied(s) == [s EXCEPT !.cells = << >>]

-----------------------------------------------------------------------------
Doubled(s) ==
  IF Len(s.cells) > s.size - Margin /\ s.size < MaxUndo
  THEN [s EXCEPT !.size = 2 * @] ELSE s

(* With three or two cells free the oldest code is forgotten, and with it   *)
(* all codes up to the next key press.  A stack that then does not begin    *)
(* with a key press is emptied: one command alone has filled it.            *)
ForgetOldest(cells) ==
  LET along == {k \in 2 .. Len(cells) : \A j \in 2 .. k : ~IsKey(cells[j].code)}
  IN  SubSeq(cells, 2 + Cardinality(along), Len(cells))

\* Mutant: one command may fill the stack.
TrimmedAnyhow(s) ==
  LET full == Len(s.cells) \in {s.size - 3, s.size - 2}
  IN  [s EXCEPT !.cells = IF full THEN ForgetOldest(@) ELSE @, !.lost = @ \/ full]

\* Mutant: the second look ahead is missing.
TrimmedLate(s) ==
  LET full == Len(s.cells) = s.size - 2
      kept == IF full THEN ForgetOldest(s.cells) ELSE s.cells
      whole == kept = << >> \/ IsKey(kept[1].code)
  IN  [s EXCEPT !.cells = IF whole THEN kept ELSE << >>,
                !.lost = @ \/ full \/ ~whole]

Trimmed(s) ==
  LET full == Len(s.cells) \in {s.size - 3, s.size - 2}
      kept == IF full THEN ForgetOldest(s.cells) ELSE s.cells
      whole == kept = << >> \/ IsKey(kept[1].code)
  IN  [s EXCEPT !.cells = IF whole THEN kept ELSE << >>,
                !.lost = @ \/ full \/ ~whole]

(* A code pushed again is counted, a key press pushed again is dropped; but *)
(* not against the two oldest codes.                                        *)
Pushed(s0, c, seen) ==
  LET s == Doubled(s0)
      n == Len(s.cells)
      counted == n > 0 /\ s.cells[n].code.op = "COUNT"
      again == /\ n > 2
               /\ c = s.cells[IF counted THEN n - 1 ELSE n].code
               /\ counted => s.cells[n].code.arg > -MAX_RUN
      push(code) == Trimmed([s EXCEPT !.cells = Append(@, Cell(code, seen))])
  IN  IF again /\ IsKey(c) THEN s
      ELSE IF again /\ counted THEN [s EXCEPT !.cells[n].code.arg = @ - 1]
      ELSE push(IF again THEN COUNT(-2) ELSE c)

(* The code next popped, and the stack without it. *)
Top(s) ==
  LET n == Len(s.cells)
  IN  IF n = 0 THEN STACK_BOTTOM
      ELSE IF s.cells[n].code.op # "COUNT" THEN s.cells[n].code
      ELSE IF n = 1 THEN STACK_BOTTOM
      ELSE s.cells[n - 1].code

Popped(s) ==
  LET n == Len(s.cells)
  IN  IF Top(s) = STACK_BOTTOM THEN s
      ELSE IF s.cells[n].code.op = "COUNT" /\ s.cells[n].code.arg # -2
      THEN [s EXCEPT !.cells[n].code.arg = @ + 1]
      ELSE [s EXCEPT !.cells = SubSeq(@, 1, n - 1)]
=============================================================================
