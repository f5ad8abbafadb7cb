------------------------------ MODULE HexEdit -------------------------------
(***************************************************************************)
(* Editing in the hex mode of the viewer (src/viewer/view-hex.c and        *)
(* actions_cmd.c): bytes typed are kept in a list of changes, and saved    *)
(* one by one, each leaving the list as it is written.  The file is locked *)
(* while there are changes.                                                *)
(***************************************************************************)
EXTENDS Integers, FiniteSetsExt

CONSTANTS
  Offsets,      \* bytes of the file
  Values,       \* values of a byte
  Unchanged,    \* not a value
  MaxTyped      \* bound: keys typed

ASSUME OffsetsAssumption == Offsets \in SUBSET Nat /\ Unchanged \notin Values
ASSUME MaxTypedAssumption == MaxTyped \in Nat

VARIABLES
  remote,       \* the file is on a file system that stores it when it is closed
  stored,       \* the file
  fp,           \* the file as opened for writing
  change_list,  \* a value for each offset changed
  locked,       \* view->locked
  lock_link,    \* the lock on disk is the viewer's
  saving,       \* "no", "save", "quit": the save that is going on; "gone": closed
  typed,        \* what the user has last typed, or found
  dropped,      \* offsets whose change was dropped: see below
  keys

hex_vars ==
  <<remote, stored, fp, change_list, locked, lock_link, saving, typed, dropped, keys>>

Pending == {o \in Offsets : change_list[o] # Unchanged}
NoChanges == [o \in Offsets |-> Unchanged]

-----------------------------------------------------------------------------
(* lock_file is called with the first change; it may be refused, or the     *)
(* user may let another one's lock be.                                      *)
mcview_handle_editkey(o, v) ==
  /\ saving = "no" /\ keys < MaxTyped /\ keys' = keys + 1
  /\ change_list' = [change_list EXCEPT ![o] = v]
  /\ typed' = [typed EXCEPT ![o] = v] /\ dropped' = dropped \ {o}
  /\ IF Pending # {} THEN UNCHANGED <<locked, lock_link>>
     ELSE locked' \in BOOLEAN /\ lock_link' = (lock_link \/ locked')
  /\ UNCHANGED <<remote, stored, fp, saving>>

(* mcview_hexedit_save_changes, for CK_Save or on the way out.  The file    *)
(* may not open.                                                            *)
save_begins(why) ==
  /\ saving = "no" /\ Pending # {} /\ saving' = why /\ fp' = stored
  /\ UNCHANGED <<remote, stored, change_list, locked, lock_link, typed, dropped, keys>>

save_not_opened ==
  /\ saving = "no" /\ Pending # {}
  /\ UNCHANGED hex_vars

(* The change with the lowest offset is written and leaves the list.        *)
FirstChange == Min(Pending)
Left == [change_list EXCEPT ![FirstChange] = Unchanged]

save_byte ==
  /\ saving \in {"save", "quit"} /\ Pending # {}
  /\ fp' = [fp EXCEPT ![FirstChange] = change_list[FirstChange]]
  /\ stored' = IF remote THEN stored ELSE fp'
  /\ change_list' = Left
  /\ UNCHANGED <<remote, locked, lock_link, saving, typed, dropped, keys>>

(* The changes the file is without when a close fails: nobody looks behind  *)
(* save_error, and after the last byte the user is told, but the changes    *)
(* are gone.                                                                *)
Unstored == {o \in Offsets : fp[o] # stored[o]}
mc_close ==
  \/ stored' = fp /\ UNCHANGED dropped
  \/ remote /\ UNCHANGED stored /\ dropped' = dropped \cup Unstored

\* Mutant: a change leaves the list before it is written.
KeptOnErrorNot == Left

(* "Cannot save file", "Retry" or "Cancel": what is not written stays in    *)
(* the list.                                                                *)
KeptOnError == change_list

save_error ==
  /\ saving \in {"save", "quit"} /\ Pending # {}
  /\ mc_close /\ change_list' = KeptOnError
  /\ saving' = "no"
  /\ UNCHANGED <<remote, fp, locked, lock_link, typed, keys>>

mcview_unlock_file == lock_link' = (lock_link /\ ~locked) /\ locked' = FALSE

save_ends ==
  /\ saving \in {"save", "quit"} /\ Pending = {}
  /\ mcview_unlock_file /\ mc_close
  /\ saving' = IF saving = "quit" THEN "gone" ELSE "no"
  /\ UNCHANGED <<remote, fp, change_list, typed, keys>>

(* mcview_ok_to_quit: "No", or nothing has changed.                         *)
quit_unsaved ==
  /\ saving = "no" /\ saving' = "gone"
  /\ change_list' = NoChanges /\ dropped' = dropped \cup Pending /\ mcview_unlock_file
  /\ UNCHANGED <<remote, stored, fp, typed, keys>>

(* Another file is viewed, by CK_FileNext or from the history, without a    *)
(* question: mcview_done first forgets the name, so that the lock, which    *)
(* mcview_hexedit_free_change_list is to remove, stays.                     *)
mcview_done ==
  /\ saving = "no" /\ saving' = "gone"
  /\ change_list' = NoChanges /\ dropped' = dropped \cup Pending /\ locked' = FALSE
  /\ UNCHANGED <<remote, stored, fp, lock_link, typed, keys>>

-----------------------------------------------------------------------------
HexInit ==
  /\ remote \in BOOLEAN /\ stored \in [Offsets -> Values] /\ fp = stored
  /\ change_list = NoChanges /\ locked = FALSE /\ lock_link = FALSE
  /\ saving = "no" /\ typed = stored /\ dropped = {} /\ keys = 0

HexNext ==
  \/ \E o \in Offsets, v \in Values : mcview_handle_editkey(o, v)
  \/ \E why \in {"save", "quit"} : save_begins(why)
  \/ save_not_opened \/ save_byte \/ save_error \/ save_ends \/ quit_unsaved \/ mcview_done

HexSpec == HexInit /\ [][HexNext]_hex_vars

-----------------------------------------------------------------------------
(* However often saving fails half way and is tried again, with keys typed  *)
(* in between: every byte is, in the file or in the list of changes, what   *)
(* was typed last, and the file is locked while the list is not empty, if   *)
(* the lock was got.  Lost are only the changes not saved on the way out    *)
(* and those of a close that fails.                                         *)
ChangesKept ==
  /\ saving \in {"no", "gone"} =>
       \A o \in Offsets \ dropped :
         typed[o] = IF o \in Pending THEN change_list[o] ELSE stored[o]
  /\ locked => lock_link /\ saving # "gone"
  /\ saving = "no" /\ Pending = {} => ~locked
=============================================================================
