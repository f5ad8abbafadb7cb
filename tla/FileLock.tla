------------------------------ MODULE FileLock ------------------------------
(***************************************************************************)
(* The lock protocol of the editor: lib/lock.c and its callers in          *)
(* src/editor/edit.c and src/editor/editcmd.c.                             *)
(*                                                                         *)
(* A file is locked by a symbolic link beside it that names a process.     *)
(* Editor processes share the links and nothing else; a system call is one *)
(* step, and the other processes run between any two.  A process has one   *)
(* thread: while a window of it is inside a call its other windows wait.   *)
(* Two windows of a process may show the same file.                        *)
(***************************************************************************)
EXTENDS Integers, FiniteSets

CONSTANTS
  Processes,   \* editor processes, each started once
  Windows,     \* editor windows
  Files,       \* local files
  Owner,       \* the process of a window
  Pid, Host,   \* the number of a process, and where it runs
  NoProcess,   \* what a link names that is not there
  NoFile

ASSUME OwnerAssumption == Owner \in [Windows -> Processes]
ASSUME PidAssumption ==
  \A p, q \in Processes : Host[p] = Host[q] /\ Pid[p] = Pid[q] => p = q
ASSUME NoneAssumption == NoProcess \notin Processes /\ NoFile \notin Files

VARIABLES
  link,        \* link[f]: the process the link of file f names
  process,     \* process[p]: "running", "exited" or "crashed"
  edit,        \* edit[w]: the WEdit of window w
  call,        \* call[w]: where in a call window w is, and its local variables
  disturbed    \* for the properties: which of "end", "grab", "close" happened

vars == <<link, process, edit, call, disturbed>>

WEdit == [open : BOOLEAN, filename : Files \cup {NoFile},
          modified : BOOLEAN, delete_file : BOOLEAN, locked : BOOLEAN]

(* A call is at a system call of lock_file or unlock_file, for the reason   *)
(* why and on the given file, or at edit_save_file or its name dialog.      *)
LockSteps == {"lstat", "readlink", "kill", "query", "unlink", "symlink"}
UnlockSteps == {"unlock_lstat", "unlock_readlink", "unlock_unlink"}

Call == [at : LockSteps \cup UnlockSteps \cup {"idle", "save_file", "ask_name"},
         why : {"", "modification", "save", "save_as", "saved", "save cancelled", "save failed",
                "save_as failed", "saved under new name", "close", "clean"},
         file : Files \cup {NoFile},
         seen : Processes \cup {NoProcess},  \* whom lock_file has read from the link
         exp : Files \cup {NoFile},          \* the file saved to
         save_lock : BOOLEAN]                \* lock_file has succeeded for this save

NoEdit == [open |-> FALSE, filename |-> NoFile,
           modified |-> FALSE, delete_file |-> FALSE, locked |-> FALSE]
Idle == [at |-> "idle", why |-> "", file |-> NoFile,
         seen |-> NoProcess, exp |-> NoFile, save_lock |-> FALSE]

-----------------------------------------------------------------------------
(* Window w may begin something, or is the one at step s of a call.         *)
Free(w) ==
  /\ process[Owner[w]] = "running"
  /\ \A v \in Windows : Owner[v] = Owner[w] => call[v] = Idle
IdleEditor(w) == Free(w) /\ edit[w].open
At(w, s) == process[Owner[w]] = "running" /\ call[w].at = s

Goto(w, s) == call' = [call EXCEPT ![w].at = s]
Return(w) == call' = [call EXCEPT ![w] = Idle]

lock_file(w, f, why) ==
  call' = [call EXCEPT ![w].at = "lstat", ![w].file = f, ![w].why = why]
unlock_file(w, f, why) ==
  call' = [call EXCEPT ![w].at = "unlock_lstat", ![w].file = f, ![w].why = why]

Link(w) == link[call[w].file]
SetLink(w, p) == link' = [link EXCEPT ![call[w].file] = p]

(* kill (pid, 0) reaches some process of this host that has the number.     *)
Answers(w, p) ==
  \E q \in Processes :
    process[q] = "running" /\ Host[q] = Host[Owner[w]] /\ Pid[q] = Pid[p]

-----------------------------------------------------------------------------
(* What follows a call, or a save that needs none.                          *)

LockReturns(w, result) ==
  \/ /\ call[w].why = "modification" /\ Return(w)
     /\ edit' = [edit EXCEPT ![w].locked = result, ![w].modified = TRUE]
  \/ /\ call[w].why # "modification" /\ UNCHANGED edit
     /\ call' = [call EXCEPT ![w].at = "save_file", ![w].save_lock = result,
                             ![w].file = NoFile, ![w].seen = NoProcess]

\* Mutant: the new name is taken from the call that has returned.
SavedUnnamed(w) ==
  /\ Return(w)
  /\ edit' = [edit EXCEPT ![w].filename = Idle.exp, ![w].modified = FALSE,
                          ![w].delete_file = FALSE, ![w].locked = FALSE]

Saved(w) ==
  /\ Return(w)
  /\ edit' = [edit EXCEPT ![w].filename = call[w].exp, ![w].modified = FALSE,
                          ![w].delete_file = FALSE, ![w].locked = FALSE]

(* edit_save_cmd tries edit_save_as_cmd when it has failed.                 *)
AskName(w) == call' = [call EXCEPT ![w] = [Idle EXCEPT !.at = "ask_name"]]
Unlocked(w) == edit' = [edit EXCEPT ![w].locked = FALSE]

(* The second unlock_file: of the old name, or by edit_clean.               *)
UnlockAgain(w, why) ==
  /\ call' = [call EXCEPT ![w].at = "unlock_lstat", ![w].why = why,
                          ![w].file = edit[w].filename, ![w].save_lock = FALSE]
  /\ UNCHANGED edit

Closed(w) == Return(w) /\ edit' = [edit EXCEPT ![w] = NoEdit]

\* Mutant: the lock of the old name is forgotten.
UnlockReturnsNewName(w) ==
  \/ call[w].why \in {"saved", "saved under new name"} /\ Saved(w)
  \/ call[w].why = "save cancelled" /\ Return(w) /\ Unlocked(w)
  \/ call[w].why = "save failed" /\ AskName(w) /\ Unlocked(w)
  \/ call[w].why = "save_as failed" /\ Return(w) /\ UNCHANGED edit
  \/ call[w].why = "close" /\ UnlockAgain(w, "clean")
  \/ call[w].why = "clean" /\ Closed(w)

UnlockReturns(w) ==
  \/ call[w].why = "saved" /\ Saved(w)
  \/ call[w].why = "save cancelled" /\ Return(w) /\ Unlocked(w)
  \/ call[w].why = "save failed" /\ AskName(w) /\ Unlocked(w)
  \/ call[w].why = "save_as failed" /\ Return(w) /\ UNCHANGED edit
  \/ /\ call[w].why = "saved under new name"
     /\ IF edit[w].locked THEN UnlockAgain(w, "saved") ELSE Saved(w)
  \/ call[w].why = "close" /\ UnlockAgain(w, "clean")
  \/ call[w].why = "clean" /\ Closed(w)

-----------------------------------------------------------------------------
(* The system calls of lock_file.                                           *)

lock_lstat(w) ==
  /\ At(w, "lstat")
  /\ Goto(w, IF Link(w) = NoProcess THEN "symlink" ELSE "readlink")
  /\ UNCHANGED <<link, process, edit, disturbed>>

lock_readlink(w) ==
  /\ At(w, "readlink")
  /\ \/ Link(w) = NoProcess /\ LockReturns(w, FALSE)
     \/ /\ Link(w) # NoProcess /\ UNCHANGED edit
        /\ call' = [call EXCEPT ![w].at = "kill", ![w].seen = Link(w)]
  /\ UNCHANGED <<link, process, disturbed>>

lock_kill(w) ==
  /\ At(w, "kill")
  /\ call' = [call EXCEPT ![w].at = IF Answers(w, call[w].seen) THEN "query" ELSE "unlink",
                          ![w].seen = NoProcess]
  /\ UNCHANGED <<link, process, edit, disturbed>>

lock_query_grab(w) ==
  /\ At(w, "query") /\ Goto(w, "unlink") /\ disturbed' = disturbed \cup {"grab"}
  /\ UNCHANGED <<link, process, edit>>

lock_query_ignore(w) ==
  /\ At(w, "query") /\ LockReturns(w, FALSE)
  /\ UNCHANGED <<link, process, disturbed>>

lock_unlink(w) ==
  /\ At(w, "unlink") /\ Goto(w, "symlink") /\ SetLink(w, NoProcess)
  /\ UNCHANGED <<process, edit, disturbed>>

\* Mutant: that symlink fails is not noticed.
lock_symlink_unchecked(w) ==
  /\ At(w, "symlink")
  /\ IF Link(w) = NoProcess THEN SetLink(w, Owner[w]) ELSE UNCHANGED link
  /\ LockReturns(w, TRUE)
  /\ UNCHANGED <<process, disturbed>>

lock_symlink(w) ==
  /\ At(w, "symlink")
  /\ IF Link(w) = NoProcess
     THEN SetLink(w, Owner[w]) /\ LockReturns(w, TRUE)
     ELSE UNCHANGED link /\ LockReturns(w, FALSE)
  /\ UNCHANGED <<process, disturbed>>

-----------------------------------------------------------------------------
(* The system calls of unlock_file.  A link that vanishes between lstat and *)
(* readlink is taken for one without contents, and removed.                 *)

unlock_lstat(w) ==
  /\ At(w, "unlock_lstat")
  /\ \/ Link(w) = NoProcess /\ UnlockReturns(w)
     \/ Link(w) # NoProcess /\ Goto(w, "unlock_readlink") /\ UNCHANGED edit
  /\ UNCHANGED <<link, process, disturbed>>

Ours(w, p) == p # NoProcess => Pid[p] = Pid[Owner[w]]

unlock_readlink(w) ==
  /\ At(w, "unlock_readlink")
  /\ \/ ~Ours(w, Link(w)) /\ UnlockReturns(w)
     \/ Ours(w, Link(w)) /\ Goto(w, "unlock_unlink") /\ UNCHANGED edit
  /\ UNCHANGED <<link, process, disturbed>>

unlock_unlink(w) ==
  /\ At(w, "unlock_unlink") /\ UnlockReturns(w) /\ SetLink(w, NoProcess)
  /\ UNCHANGED <<process, disturbed>>

-----------------------------------------------------------------------------
(* The callers.                                                             *)

(* edit_init *)
open(w, f, new) ==
  /\ Free(w) /\ ~edit[w].open
  /\ edit' = [edit EXCEPT ![w] = [NoEdit EXCEPT !.open = TRUE, !.filename = f, !.delete_file = new]]
  /\ UNCHANGED <<link, process, call, disturbed>>

edit_modification(w) ==
  /\ IdleEditor(w) /\ ~edit[w].modified
  /\ IF edit[w].delete_file
     THEN edit' = [edit EXCEPT ![w].modified = TRUE] /\ UNCHANGED call
     ELSE lock_file(w, edit[w].filename, "modification") /\ UNCHANGED edit
  /\ UNCHANGED <<link, process, disturbed>>

NeedsLock(w) == ~edit[w].locked /\ ~edit[w].delete_file

(* Saving to f begins with its lock, if it is wanted. *)
LockAndSave(w, f, wanted, why) ==
  /\ call' = [call EXCEPT ![w] =
                [Idle EXCEPT !.at = IF wanted THEN "lstat" ELSE "save_file", !.why = why,
                             !.file = IF wanted THEN f ELSE NoFile, !.exp = f]]
  /\ UNCHANGED <<link, process, edit, disturbed>>

edit_save_cmd(w) ==
  IdleEditor(w) /\ LockAndSave(w, edit[w].filename, NeedsLock(w), "save")

(* The user, or edit_save_cmd after it has failed, asks for a name; the     *)
(* user may cancel.                                                         *)
edit_save_as_cmd(w, f) ==
  /\ IdleEditor(w) \/ At(w, "ask_name")
  /\ LockAndSave(w, f, f # edit[w].filename \/ NeedsLock(w), "save_as")

save_as_cancelled(w) ==
  /\ At(w, "ask_name") /\ Return(w)
  /\ UNCHANGED <<link, process, edit, disturbed>>

(* What edit_save_cmd makes of the result of edit_save_file: 1 saved, 0     *)
(* failed, -1 cancelled.                                                    *)
save_returns(w, res) ==
  /\ At(w, "save_file") /\ call[w].why = "save"
  /\ IF (res = 1 /\ edit[w].locked) \/ call[w].save_lock
     THEN /\ unlock_file(w, edit[w].filename,
                         CASE res = 1 -> "saved" [] res = 0 -> "save failed" [] res = -1 -> "save cancelled")
          /\ UNCHANGED edit
     ELSE \/ res = 1 /\ Saved(w)
          \/ res = 0 /\ AskName(w) /\ UNCHANGED edit
          \/ res = -1 /\ Return(w) /\ UNCHANGED edit
  /\ UNCHANGED <<link, process, disturbed>>

(* What edit_save_as_cmd makes of it. *)
save_as_returns(w, res) ==
  LET different_filename == call[w].exp # edit[w].filename
      save_lock == call[w].save_lock
      locked == edit[w].locked
  IN  /\ At(w, "save_file") /\ call[w].why = "save_as"
      /\ \/ /\ res = 1 /\ different_filename /\ save_lock /\ UNCHANGED edit
            /\ unlock_file(w, call[w].exp, "saved under new name")
         \/ /\ res = 1 /\ locked /\ (different_filename => ~save_lock) /\ UNCHANGED edit
            /\ unlock_file(w, edit[w].filename, "saved")
         \/ /\ res = 1 /\ ~different_filename /\ ~locked /\ save_lock /\ UNCHANGED edit
            /\ unlock_file(w, edit[w].filename, "saved")
         \/ res = 1 /\ ~save_lock /\ ~locked /\ Saved(w)
         \/ /\ res # 1 /\ save_lock /\ UNCHANGED edit
            /\ unlock_file(w, call[w].exp, "save_as failed")
         \/ res # 1 /\ ~save_lock /\ Return(w) /\ UNCHANGED edit
      /\ UNCHANGED <<link, process, disturbed>>

(* A window is closed with its text unmodified or to be discarded: by       *)
(* edit_close_cmd, or by edit_clean alone as the editor is quit.            *)
close_unlocked(w) ==
  /\ IdleEditor(w) /\ ~edit[w].locked /\ Closed(w)
  /\ UNCHANGED <<link, process, disturbed>>

edit_close_cmd(w) ==
  /\ IdleEditor(w) /\ edit[w].locked /\ unlock_file(w, edit[w].filename, "close")
  /\ disturbed' = disturbed \cup {"close"}
  /\ UNCHANGED <<link, process, edit>>

edit_clean(w) ==
  /\ IdleEditor(w) /\ edit[w].locked /\ unlock_file(w, edit[w].filename, "clean")
  /\ UNCHANGED <<link, process, edit, disturbed>>

quit(p) ==
  /\ process[p] = "running"
  /\ \A w \in Windows : Owner[w] = p => ~edit[w].open
  /\ process' = [process EXCEPT ![p] = "exited"]
  /\ disturbed' = disturbed \cup {"end"}
  /\ UNCHANGED <<link, edit, call>>

crash(p) ==
  /\ process[p] = "running" /\ process' = [process EXCEPT ![p] = "crashed"]
  /\ edit' = [w \in Windows |-> IF Owner[w] = p THEN NoEdit ELSE edit[w]]
  /\ call' = [w \in Windows |-> IF Owner[w] = p THEN Idle ELSE call[w]]
  /\ disturbed' = disturbed \cup {"end"}
  /\ UNCHANGED link

-----------------------------------------------------------------------------
Init ==
  /\ link = [f \in Files |-> NoProcess]
  /\ process = [p \in Processes |-> "running"]
  /\ edit = [w \in Windows |-> NoEdit]
  /\ call = [w \in Windows |-> Idle]
  /\ disturbed = {}

LockCalls(w) ==
  \/ lock_lstat(w) \/ lock_readlink(w) \/ lock_kill(w)
  \/ lock_query_grab(w) \/ lock_query_ignore(w)
  \/ lock_unlink(w) \/ lock_symlink(w)

UnlockCalls(w) == unlock_lstat(w) \/ unlock_readlink(w) \/ unlock_unlink(w)

Commands(w) ==
  \/ \E f \in Files : open(w, f, TRUE) \/ open(w, f, FALSE) \/ edit_save_as_cmd(w, f)
  \/ edit_modification(w)
  \/ edit_save_cmd(w) \/ save_as_cancelled(w)
  \/ \E res \in {-1, 0, 1} : save_returns(w, res) \/ save_as_returns(w, res)
  \/ close_unlocked(w) \/ edit_close_cmd(w) \/ edit_clean(w)

Next ==
  \/ \E w \in Windows : LockCalls(w) \/ UnlockCalls(w) \/ Commands(w)
  \/ \E p \in Processes : quit(p) \/ crash(p)

Spec == Init /\ [][Next]_vars

-----------------------------------------------------------------------------
TypeOK ==
  /\ link \in [Files -> Processes \cup {NoProcess}]
  /\ process \in [Processes -> {"running", "exited", "crashed"}]
  /\ edit \in [Windows -> WEdit]
  /\ call \in [Windows -> Call]
  /\ \A w \in Windows :
       /\ edit[w].open => edit[w].filename \in Files
       /\ call[w].at \in LockSteps \cup UnlockSteps => call[w].file \in Files
       /\ call[w].at = "save_file" => call[w].exp \in Files
  /\ disturbed \subseteq {"end", "grab", "close"}

(* The window believes it holds the lock of f: for its modified text, or    *)
(* for the save going on.                                                   *)
Holds(w, f) ==
  \/ edit[w].locked /\ edit[w].filename = f
  \/ call[w].save_lock /\ call[w].exp = f

(* No lock is left behind: a link names only a crashed process, or one with *)
(* a window that will remove it.  Every way out of a save, under either     *)
(* name, and of a window gives back what it has taken.                      *)
NoLeak ==
  \A f \in Files :
    link[f] # NoProcess /\ process[link[f]] # "crashed"
      => \E w \in Windows : Owner[w] = link[f] /\ Holds(w, f)

(* While no process ends, no user grabs a lock and no locked window is      *)
(* closed by edit_close_cmd, locks exclude: who believes to hold one is     *)
(* named by the link, and is the only one, through all saves that fail, are *)
(* cancelled or go to another name.                                         *)
Excluding ==
  \A w \in Windows, f \in Files :
    Holds(w, f) => link[f] = Owner[w] /\ \A v \in Windows : Holds(v, f) => v = w

OneHost == \A p, q \in Processes : Host[p] = Host[q]

Exclusive == OneHost /\ disturbed = {} => Excluding

(* The same where processes end, so that a lock may be stale: "the FILE is  *)
(* considered to be locked by the process specified by the link".           *)
ExclusiveWhenStale == OneHost /\ disturbed \subseteq {"end"} => Excluding
=============================================================================
