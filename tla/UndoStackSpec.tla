--------------------------- MODULE UndoStackSpec ---------------------------
(***************************************************************************)
(* One undo or redo stack by itself: codes are pushed and popped in any    *)
(* order, and the stack is dropped when redo_stack_reset says so.          *)
(***************************************************************************)
EXTENDS UndoStack

CONSTANT Codes      \* the codes of the editor

(* COUNT and STACK_BOTTOM are never pushed: they are what the stack itself  *)
(* says.                                                                    *)
Pushable == {c \in Codes : c.op # "COUNT" /\ c # STACK_BOTTOM}

VARIABLE a_stack    \* the stack

StackInit == a_stack = NewStack

StackNext ==
  \/ \E c \in Pushable : a_stack' = Pushed(a_stack, c, << >>)
  \/ a_stack' = Popped(a_stack)
  \/ a_stack' = Emptied(a_stack)

StackSpec == StackInit /\ [][StackNext]_a_stack

-----------------------------------------------------------------------------
(* Whatever is pushed and popped, the oldest code kept is a key press, or   *)
(* nothing is kept: popping never runs into the bottom within a command.    *)
OldestIsKey == a_stack.cells = << >> \/ IsKey(a_stack.cells[1].code)

(* Forgetting comes in time: four cells at least are always free.           *)
RoomLeft == Len(a_stack.cells) <= a_stack.size - 4
=============================================================================
