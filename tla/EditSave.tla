------------------------------ MODULE EditSave ------------------------------
(***************************************************************************)
(* Opening, saving and closing a file: src/editor/editcmd.c and            *)
(* src/editor/edit.c.                                                      *)
(*                                                                         *)
(* One editor window saves a text to a local disk.  Every system call that *)
(* changes the disk may fail and is a step of its own, as is every dialog; *)
(* other sessions write the same files, and the editor may crash, between  *)
(* any two.  The locks of FileLock are advisory and left out here.         *)
(*                                                                         *)
(* Texts are told apart up to their line breaks, which a save may change.  *)
(* Times are told apart as far as stat1, the last stat of the editor, does: *)
(* no two writes happen within one second, the unit of st_mtime.           *)
(***************************************************************************)
EXTENDS Integers

CONSTANTS
  Files,        \* names the user knows
  Texts,        \* non-empty texts
  Empty,        \* the empty text
  Torn,         \* a text of which some is missing
  Absent,       \* no such file
  NoName,       \* the window has no file name
  MaxSaves,     \* bound: calls of edit_save_file
  MaxEvents,    \* bound: windows opened, one after the other, and writes by others
  CanCrash      \* whether the editor may crash

ASSUME SaveAssumption ==
  /\ MaxSaves \in Nat /\ MaxEvents \in Nat /\ CanCrash \in BOOLEAN
  /\ Empty \notin Texts /\ Torn \notin Texts \cup {Empty} /\ NoName \notin Files

VARIABLES
  option_save_mode,
  disk,      \* disk[n]: what file n holds
  stat1,     \* the file whose st_mtime is the one in edit->stat1, if there is one
  edit,      \* the WEdit of the window
  save,      \* where in a save the window is, and the local variables of the calls
  saves, sessions, others,  \* so far
  known,     \* for the properties: the text the window last read or saved
  held,      \* for the properties: the files that held a text at first
  mishaps    \* for the properties: what has happened of the list Mishap

counters == <<saves, sessions, others>>
vars == <<option_save_mode, disk, stat1, edit, save, counters, known, held, mishaps>>

Contents == Texts \cup {Empty, Torn}
Modes == {"quick", "safe", "backup"}

(* A file, its backup, and the temporary file of a save to it.              *)
Real(f) == <<f, "real", 0>>
Backup(f) == <<f, "backup", 0>>
Temp(f, k) == <<f, "temp", k>>
Names == (Files \X {"real", "backup"} \X {0}) \cup (Files \X {"temp"} \X (1 .. MaxSaves))

File == [text : Contents, linked : BOOLEAN]
ASSUME AbsentAssumption == Absent \notin File

NoTime == << >>        \* stat1.st_mtime is 0
Stale == << "stale" >> \* no file has it any more

WEdit == [open : BOOLEAN, text : Contents, filename : Files \cup {NoName},
          modified : BOOLEAN, delete_file : BOOLEAN, skip_detach_prompt : BOOLEAN,
          lb : {"asis", "changed"}]

NoEdit == [open |-> FALSE, text |-> Empty, filename |-> NoName, modified |-> FALSE,
           delete_file |-> FALSE, skip_detach_prompt |-> FALSE, lb |-> "asis"]

Dialogs == {"ask_name", "ask_overwrite", "ask_detach", "ask_modified"}
SaveCalls == {"stat", "mkstemps", "open", "write", "restat", "backup", "rename"}

SaveState ==
  [at : {"idle", "return", "reload"} \cup Dialogs \cup SaveCalls,
   cmd : {"save", "save_as"}, closing : BOOLEAN, file : Files \cup {NoName},
   mode : Modes,             \* this_save_mode
   meantime : BOOLEAN,       \* st_mtime of the file is not the one of stat1
   res : {-1, 0, 1},         \* what edit_save_file returns
   agreed : BOOLEAN,         \* for the properties: the user has agreed to overwrite
   old : File \cup {Absent}] \* for the properties: the file as the save began

Idle == [at |-> "idle", cmd |-> "save", closing |-> FALSE, file |-> NoName, mode |-> "quick",
         meantime |-> FALSE, res |-> 0, agreed |-> FALSE, old |-> Absent]

(* "other": another session has written the file during a save; "stream":   *)
(* a text streamed out was lost in part, unnoticed; "unlinked": a reload    *)
(* has removed the file; "spoilt": saving an unmodified text has failed;    *)
(* "reload": a reload has failed; "empty": the user has chosen to save the  *)
(* empty text, or what a crash left torn.                                   *)
Mishap == {"other", "stream", "unlinked", "spoilt", "reload", "empty"}
Add(m) == mishaps' = mishaps \cup {m}

-----------------------------------------------------------------------------
(* The disk.                                                                *)

Exists(n) == disk[n] # Absent
Holding(n, t) == Exists(n) /\ disk[n].text = t
Put(n, t) == disk' = [disk EXCEPT ![n] = [text |-> t, linked |-> Exists(n) /\ disk[n].linked]]
Write(n, t) == Put(n, t) /\ stat1' = IF stat1 = n THEN Stale ELSE stat1
Rename(m, n) ==
  /\ disk' = [disk EXCEPT ![m] = Absent, ![n] = disk[m]]
  /\ stat1' = IF stat1 = m THEN n ELSE IF stat1 = n THEN Stale ELSE stat1
Unlinked(f) == [disk EXCEPT ![Real(f)] = Absent]

IdleEditor == edit.open /\ save = Idle
At(s) == save.at = s
Goto(s) == save' = [save EXCEPT !.at = s]
Return(res) == save' = [save EXCEPT !.at = "return", !.res = res]

-----------------------------------------------------------------------------
(* Opening and changing.                                                    *)

(* edit_load_file, with check_file_access, which creates a file not there.  *)
edit_load_file(f) ==
  LET new == ~Exists(Real(f))
      text == IF new THEN Empty ELSE disk[Real(f)].text
  IN  /\ ~edit.open /\ sessions + others < MaxEvents /\ sessions' = sessions + 1
      /\ IF new THEN Put(Real(f), Empty) ELSE UNCHANGED disk
      /\ edit' = [NoEdit EXCEPT !.open = TRUE, !.text = text, !.filename = f, !.delete_file = new]
      /\ stat1' = Real(f)
      /\ known' = text
      /\ UNCHANGED <<option_save_mode, save, saves, others, held, mishaps>>

open_unnamed ==
  /\ ~edit.open /\ sessions + others < MaxEvents /\ sessions' = sessions + 1
  /\ edit' = [NoEdit EXCEPT !.open = TRUE] /\ stat1' = NoTime /\ known' = Empty
  /\ UNCHANGED <<option_save_mode, disk, save, saves, others, held, mishaps>>

edit_modification(t) ==
  /\ IdleEditor /\ t # edit.text
  /\ edit' = [edit EXCEPT !.text = t, !.modified = TRUE]
  /\ UNCHANGED <<option_save_mode, disk, stat1, save, counters, known, held, mishaps>>

-----------------------------------------------------------------------------
(* The commands.                                                            *)

Begin(s) ==
  /\ saves < MaxSaves /\ saves' = saves + 1
  /\ save' = [s EXCEPT !.at = "stat", !.mode = option_save_mode]
  /\ IF edit.text \notin Texts THEN Add("empty") ELSE UNCHANGED mishaps
  /\ UNCHANGED <<option_save_mode, disk, stat1, sessions, others, known, held>>

AskName(s) ==
  /\ save' = [Idle EXCEPT !.at = "ask_name", !.cmd = "save_as", !.closing = s.closing]
  /\ UNCHANGED <<option_save_mode, disk, stat1, edit, counters, known, held>>

(* A text without a name is saved under one the user is asked for.          *)
Save(s) ==
  \/ edit.filename = NoName /\ AskName(s) /\ UNCHANGED mishaps
  \/ edit.filename # NoName /\ Begin([s EXCEPT !.file = edit.filename]) /\ UNCHANGED edit

edit_save_confirm_cmd == IdleEditor /\ Save(Idle)
edit_save_as_cmd == IdleEditor /\ AskName(Idle) /\ UNCHANGED mishaps

(* edit_clean of a window whose state has become e, together with the end   *)
(* of the command; or the window stays.                                     *)
Close(e) ==
  /\ edit' = NoEdit /\ save' = Idle /\ stat1' = NoTime
  /\ disk' = IF e.delete_file THEN Unlinked(e.filename) ELSE disk

Finish(e, ret) ==
  IF save.closing /\ ret THEN Close(e) ELSE edit' = e /\ save' = Idle /\ UNCHANGED <<disk, stat1>>

(* edit_close_cmd with an unmodified text, or one the user gives up in      *)
(* edit_ok_to_exit; and with one to be saved first.                         *)
edit_close_cmd ==
  /\ IdleEditor /\ Close(edit)
  /\ UNCHANGED <<option_save_mode, counters, known, held, mishaps>>

close_after_save ==
  IdleEditor /\ edit.modified /\ Save([Idle EXCEPT !.closing = TRUE])

(* edit_get_save_file_as: the line breaks chosen count even if the command  *)
(* is cancelled later.                                                      *)
save_as_named(f, lb) ==
  LET named == [save EXCEPT !.file = f]
  IN  /\ At("ask_name") /\ edit' = [edit EXCEPT !.lb = lb]
      /\ \/ /\ f # edit.filename /\ Exists(Real(f))
            /\ save' = [named EXCEPT !.at = "ask_overwrite"]
            /\ UNCHANGED <<option_save_mode, disk, stat1, counters, known, held, mishaps>>
         \/ f = edit.filename /\ Begin(named)
         \/ ~Exists(Real(f)) /\ Begin(named)

overwrite == At("ask_overwrite") /\ Begin([save EXCEPT !.agreed = TRUE]) /\ UNCHANGED edit

save_as_cancelled ==
  /\ At("ask_name") \/ At("ask_overwrite")
  /\ Finish(edit, FALSE)
  /\ UNCHANGED <<option_save_mode, counters, known, held, mishaps>>

-----------------------------------------------------------------------------
(* edit_save_file.                                                          *)

\* Mutant: the temporary file is only made, not used.
SaveNameReal == Real(save.file)

SaveName == IF save.mode = "quick" THEN Real(save.file) ELSE Temp(save.file, saves)
Unprompted(mode) == IF mode = "quick" THEN "open" ELSE "mkstemps"
CheckMeantime(s) == IF s.meantime THEN "ask_modified" ELSE Unprompted(s.mode)

\* Mutant: only a quick save looks at the times.
stat_quick_only ==
  LET d == disk[Real(save.file)]
      mode == IF d = Absent THEN "quick" ELSE save.mode
      s == [save EXCEPT !.mode = mode, !.old = d,
              !.meantime = mode = "quick" /\ d # Absent /\ stat1 \notin {NoTime, Real(save.file)}]
      detach == mode = "quick" /\ d # Absent /\ d.linked /\ ~edit.skip_detach_prompt
  IN  /\ At("stat")
      /\ save' = [s EXCEPT !.at = IF detach THEN "ask_detach" ELSE CheckMeantime(s)]
      /\ UNCHANGED <<option_save_mode, disk, stat1, edit, counters, known, held, mishaps>>

(* mc_open, to see whether the file is there, and mc_stat.                  *)
stat ==
  LET d == disk[Real(save.file)]
      mode == IF d = Absent THEN "quick" ELSE save.mode
      s == [save EXCEPT !.mode = mode, !.old = d,
              !.meantime = d # Absent /\ stat1 \notin {NoTime, Real(save.file)}]
      detach == mode = "quick" /\ d # Absent /\ d.linked /\ ~edit.skip_detach_prompt
  IN  /\ At("stat")
      /\ save' = [s EXCEPT !.at = IF detach THEN "ask_detach" ELSE CheckMeantime(s)]
      /\ UNCHANGED <<option_save_mode, disk, stat1, edit, counters, known, held, mishaps>>

detach_answered(yes) ==
  LET s == [save EXCEPT !.mode = IF yes THEN "safe" ELSE @]
  IN  /\ At("ask_detach")
      /\ save' = [s EXCEPT !.at = CheckMeantime(s)]
      /\ edit' = [edit EXCEPT !.skip_detach_prompt = TRUE]
      /\ UNCHANGED <<option_save_mode, disk, stat1, counters, known, held, mishaps>>

save_anyway ==
  /\ At("ask_modified")
  /\ save' = [save EXCEPT !.at = Unprompted(save.mode), !.agreed = TRUE]
  /\ UNCHANGED <<option_save_mode, disk, stat1, edit, counters, known, held, mishaps>>

save_cancelled ==
  /\ At("ask_detach") \/ At("ask_modified")
  /\ Return(-1)
  /\ UNCHANGED <<option_save_mode, disk, stat1, edit, counters, known, held, mishaps>>

mkstemps ==
  /\ At("mkstemps") /\ Write(SaveName, Empty) /\ Goto("open")
  /\ UNCHANGED <<option_save_mode, edit, counters, known, held, mishaps>>

open_for_writing ==
  /\ At("open") /\ Write(SaveName, Torn) /\ Goto("write")
  /\ UNCHANGED <<option_save_mode, edit, counters, known, held, mishaps>>

(* What is done with the file once it is written.                           *)
Install(s) ==
  CASE s.mode = "quick" -> [s EXCEPT !.at = "return", !.res = 1]
    [] s.mode = "safe" -> [s EXCEPT !.at = "rename"]
    [] s.mode = "backup" -> [s EXCEPT !.at = "backup"]

\* Mutant: a short write is not noticed.
write_asis_unchecked ==
  /\ At("write") /\ edit.lb = "asis"
  /\ Write(SaveName, edit.text) \/ Write(SaveName, Torn)
  /\ Goto("restat")
  /\ UNCHANGED <<option_save_mode, edit, counters, known, held, mishaps>>

write_asis ==
  /\ At("write") /\ edit.lb = "asis"
  /\ Write(SaveName, edit.text) /\ Goto("restat")
  /\ UNCHANGED <<option_save_mode, edit, counters, known, held, mishaps>>

restat ==
  /\ At("restat") /\ stat1' = SaveName
  /\ save' = Install(save)
  /\ UNCHANGED <<option_save_mode, disk, edit, counters, known, held, mishaps>>

(* edit_write_stream; nobody looks at what fclose returns.                  *)
write_stream ==
  /\ At("write") /\ edit.lb = "changed"
  /\ \/ Write(SaveName, edit.text) /\ UNCHANGED mishaps
     \/ Write(SaveName, Torn) /\ Add("stream")
  /\ save' = Install(save)
  /\ UNCHANGED <<option_save_mode, edit, counters, known, held>>

rename_to_backup ==
  /\ At("backup") /\ Rename(Real(save.file), Backup(save.file)) /\ Goto("rename")
  /\ UNCHANGED <<option_save_mode, edit, counters, known, held, mishaps>>

rename ==
  /\ At("rename") /\ Rename(SaveName, Real(save.file)) /\ Return(1)
  /\ UNCHANGED <<option_save_mode, edit, counters, known, held, mishaps>>

(* Each of the calls may fail. *)
call_fails ==
  /\ save.at \in SaveCalls \ {"stat"} /\ Return(0)
  /\ UNCHANGED <<option_save_mode, disk, stat1, edit, counters, known, held, mishaps>>

-----------------------------------------------------------------------------
(* What the callers make of the result.                                     *)

Spoilt == save.res = 0 /\ ~edit.modified /\ save.file = edit.filename
NoteSpoilt == IF Spoilt THEN Add("spoilt") ELSE UNCHANGED mishaps

SavedEdit == [edit EXCEPT !.modified = FALSE, !.delete_file = FALSE]

\* Mutant: a cancelled save counts as one.
save_returns_any ==
  /\ At("return") /\ save.cmd = "save" /\ NoteSpoilt
  /\ \/ /\ save.res # 0 /\ Finish(SavedEdit, TRUE) /\ known' = edit.text
        /\ UNCHANGED <<option_save_mode, counters, held>>
     \/ save.res = 0 /\ AskName(save)

save_returns ==
  /\ At("return") /\ save.cmd = "save" /\ NoteSpoilt
  /\ \/ /\ save.res = 1 /\ Finish(SavedEdit, TRUE) /\ known' = edit.text
        /\ UNCHANGED <<option_save_mode, counters, held>>
     \/ save.res = 0 /\ AskName(save)
     \/ /\ save.res = -1 /\ Finish(edit, TRUE)
        /\ UNCHANGED <<option_save_mode, counters, known, held>>

save_as_returns ==
  LET named == [edit EXCEPT !.filename = save.file]
  IN  /\ At("return") /\ save.cmd = "save_as" /\ NoteSpoilt
      /\ \/ /\ save.res = 1 /\ edit.lb = "asis" /\ known' = edit.text
            /\ Finish([SavedEdit EXCEPT !.filename = save.file], TRUE)
         \/ /\ save.res = 1 /\ edit.lb = "changed" /\ known' = edit.text
            /\ edit' = named /\ Goto("reload") /\ UNCHANGED <<disk, stat1>>
         \/ save.res # 1 /\ Finish(edit, FALSE) /\ UNCHANGED known
      /\ UNCHANGED <<option_save_mode, counters, held>>

(* edit_reload: the text is loaded into a new WEdit, the old one is cleaned *)
(* up and replaced, and only then is it marked as saved.                    *)
edit_reload ==
  LET d == disk[Real(save.file)]
      e == [NoEdit EXCEPT !.open = TRUE, !.text = d.text, !.filename = save.file]
  IN  /\ At("reload") /\ known' = d.text
      /\ IF save.closing THEN edit' = NoEdit /\ stat1' = NoTime
         ELSE edit' = e /\ stat1' = IF edit.delete_file THEN Stale ELSE Real(save.file)
      /\ save' = Idle
      /\ IF edit.delete_file
         THEN disk' = Unlinked(save.file) /\ Add("unlinked")
         ELSE UNCHANGED <<disk, mishaps>>
      /\ UNCHANGED <<option_save_mode, counters, held>>

reload_fails ==
  /\ At("reload") /\ Finish(SavedEdit, TRUE) /\ Add("reload")
  /\ UNCHANGED <<option_save_mode, counters, known, held>>

-----------------------------------------------------------------------------
Checked == {"ask_detach", "ask_modified"} \cup (SaveCalls \ {"stat"})

other_writes(f, t) ==
  /\ sessions + others < MaxEvents /\ others' = others + 1
  /\ Exists(Real(f)) /\ Write(Real(f), t)
  /\ IF save.at \in Checked /\ save.file = f THEN Add("other") ELSE UNCHANGED mishaps
  /\ UNCHANGED <<option_save_mode, edit, save, saves, sessions, known, held>>

crash ==
  /\ CanCrash /\ edit.open
  /\ edit' = NoEdit /\ save' = Idle /\ stat1' = NoTime
  /\ UNCHANGED <<option_save_mode, disk, counters, known, held, mishaps>>

-----------------------------------------------------------------------------
Init ==
  /\ option_save_mode \in Modes
  /\ held \in SUBSET Files
  /\ \E t \in Texts, linked \in BOOLEAN :
       /\ linked => option_save_mode = "quick"  \* no other mode looks at links
       /\ disk = [n \in Names |-> IF \E f \in held : n = Real(f)
                               THEN [text |-> t, linked |-> linked] ELSE Absent]
  /\ edit = NoEdit /\ save = Idle /\ stat1 = NoTime
  /\ saves = 0 /\ sessions = 0 /\ others = 0
  /\ known = Empty /\ mishaps = {}

Commands ==
  \/ \E f \in Files : edit_load_file(f)
  \/ open_unnamed
  \/ \E t \in Texts : edit_modification(t)
  \/ edit_save_confirm_cmd \/ edit_save_as_cmd \/ edit_close_cmd \/ close_after_save

Answers ==
  \/ \E f \in Files, lb \in {"asis", "changed"} : save_as_named(f, lb)
  \/ overwrite \/ save_as_cancelled
  \/ \E yes \in BOOLEAN : detach_answered(yes)
  \/ save_anyway \/ save_cancelled

edit_save_file ==
  \/ stat \/ mkstemps \/ open_for_writing
  \/ write_asis \/ restat \/ write_stream
  \/ rename_to_backup \/ rename \/ call_fails

Next ==
  \/ Commands \/ Answers \/ edit_save_file
  \/ save_returns \/ save_as_returns \/ edit_reload \/ reload_fails
  \/ \E f \in Files, t \in Texts : other_writes(f, t)
  \/ crash

Spec == Init /\ [][Next]_vars

-----------------------------------------------------------------------------
(* The types, for proofs.                                                   *)
TypeOK ==
  /\ option_save_mode \in Modes
  /\ disk \in [Names -> File \cup {Absent}]
  /\ edit \in WEdit /\ (~edit.open => edit = NoEdit)
  /\ save \in SaveState /\ (save.at = "idle" => save = Idle)
  /\ stat1 \in Names \cup {NoTime, Stale} /\ saves \in 0 .. MaxSaves 
  /\ sessions \in Nat /\ others \in Nat /\ sessions + others <= MaxEvents
  /\ known \in Contents /\ held \subseteq Files /\ mishaps \subseteq Mishap

Undisturbed(ms) == mishaps \cap ms = {}

(* With safe saves or backups a file that held a text is never lost, over   *)
(* any number of saves that fail or are cut off by a crash at any point:    *)
(* the file, its backup or a temporary file holds some whole text.          *)
Whole(n) == Exists(n) /\ disk[n].text \in Texts
CopySurvives ==
  option_save_mode # "quick" /\ Undisturbed({"stream", "unlinked", "empty"})
    => \A f \in held : \E n \in Names : n[1] = f /\ Whole(n)

(* What edit_save_file returns is true.  After 1 the file is the text, and  *)
(* its backup what the file was; after 0 or -1 a safe save has left the     *)
(* file as it was ("the original file is untouched"), or, between the two   *)
(* renames, as its backup.                                                  *)
ResultIsTrue ==
  At("return") /\ Undisturbed({"other", "stream"}) /\ others = 0
    => LET f == save.file
       IN  /\ save.res = 1 => Holding(Real(f), edit.text)
           /\ save.res = 1 /\ save.mode = "backup" => disk[Backup(f)] = save.old
           /\ save.res = -1 => disk[Real(f)] = save.old
           /\ save.res = 0 /\ save.mode = "safe" => disk[Real(f)] = save.old
           /\ save.res = 0 /\ save.mode = "backup" => save.old \in {disk[Real(f)], disk[Backup(f)]}

(* A window that says its text is not modified can be closed without loss:  *)
(* the file holds the text, whatever has failed or been cancelled before.   *)
UnmodifiedIsOnDisk ==
  IdleEditor /\ ~edit.modified /\ edit.filename # NoName
    /\ others = 0 /\ Undisturbed({"stream", "unlinked", "spoilt"})
    => Holding(Real(edit.filename), edit.text)

(* "Prevent overwriting changes from other editor sessions": what a save    *)
(* replaces is what the window last read or saved, or the user has agreed;  *)
(* unless another session writes between the look at the time and the end   *)
(* of the save.                                                             *)
NoSilentOverwrite ==
  [][(open_for_writing \/ rename_to_backup \/ rename)
       /\ Exists(Real(save.file)) /\ disk'[Real(save.file)] # disk[Real(save.file)]
       /\ Undisturbed({"other", "reload"}) /\ save.file = edit.filename
       => save.agreed \/ disk[Real(save.file)].text = known]_vars

(* "TRUE if it's OK to exit, FALSE to continue editing": a window that is   *)
(* to be saved before it is closed is closed only if it has been saved.     *)
ClosedIsSaved ==
  [][~CanCrash /\ edit.open /\ ~edit'.open /\ At("return") => save.res = 1]_vars

(* "New file, delete it if it's not modified or saved": a file the editor   *)
(* removes as a window is cleaned up does not hold the text of a save.      *)
RemovedIsUnsaved ==
  [][\A f \in Files :
       Exists(Real(f)) /\ disk'[Real(f)] = Absent /\ ~rename_to_backup
         => disk[Real(f)].text \notin Texts]_vars
=============================================================================
