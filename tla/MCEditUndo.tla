----------------------------- MODULE MCEditUndo -----------------------------
(***************************************************************************)
(* Undo and redo with the keyboard.  A mouse press does not make the redo  *)
(* stack stale, though it moves the cursor: a Redo after it starts from    *)
(* another place, so that RedoRestores is asked of keys alone.             *)
(***************************************************************************)
EXTENDS EditUndo

KeysNext ==
  \/ key_command \/ command_step \/ char_begins \/ char_step \/ command_end
  \/ undo_command \/ UndoStep
  \/ redo_command \/ RedoStep

KeysSpec ==
  UndoInit /\ [][KeysNext]_vars /\ WF_vars(UndoStep \/ RedoStep)
=============================================================================
