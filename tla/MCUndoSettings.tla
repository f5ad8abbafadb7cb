--------------------------- MODULE MCUndoSettings ---------------------------
(***************************************************************************)
(* Undo in two settings: stacks in which everything fits, with texts of    *)
(* lines, characters of two bytes and every alteration and move; and       *)
(* stacks that fill up at twelve cells and forget, with selections made by *)
(* keys and by the mouse in a text of one line.  Beside them a stack by    *)
(* itself.  All begin with six cells.  The cfg's MaxKeys is the larger of  *)
(* two.                                                                    *)
(***************************************************************************)
EXTENDS EditUndo, UndoStackSpec

VARIABLE setting

(* Key presses at two display positions, a code without an operand and one  *)
(* with one.                                                                *)
TwoKeysTwoCodes ==
  {KEY_PRESS(0), KEY_PRESS(1), Code("BACKSPACE", 0), Code("INSERT", 7)}

Ample == INSTANCE EditUndo WITH
  MaxUndo <- 24, Margin <- 6, MAX_RUN <- 1000000000,
  MaxKeys <- 2

Tight == INSTANCE EditUndo WITH
  Byte <- Byte \ {NL}, CharBytes <- 1,
  MaxUndo <- 12, Margin <- 5, MAX_RUN <- 2,
  Ops <- {"insert", "backspace", "move", "mark", "mouse"},
  FirstTexts <- {0}, MaxUndos <- 2

SettingsInit ==
  /\ StackInit
  /\ \/ setting = "ample" /\ Ample!UndoInit
     \/ setting \in {"tight", "stack"} /\ Tight!UndoInit

SettingsNext ==
  \/ setting = "ample" /\ Ample!UndoNext /\ UNCHANGED <<setting, a_stack>>
  \/ setting = "tight" /\ Tight!UndoNext /\ UNCHANGED <<setting, a_stack>>
  \/ setting = "stack" /\ StackNext /\ UNCHANGED <<setting, vars>>

SettingsSpec == SettingsInit /\ [][SettingsNext]_<<setting, a_stack, vars>>
=============================================================================
