------------------------------- MODULE Panel -------------------------------
(***************************************************************************)
(* A panel of the file manager at work (src/filemanager/panel.c,           *)
(* fman-dir.c, panelize.c, and the loops over marked files in chmod.c,     *)
(* achown.c, chown.c, chattr.c and file.c).  Files come and go while the   *)
(* panel shows what it has read; a directory is read entry by entry, and   *)
(* now and then the screen is refreshed meanwhile, which may find that the *)
(* terminal has another size.                                              *)
(***************************************************************************)
EXTENDS PanelList, FiniteSetsExt

CONSTANTS
  TopDir,       \* the directory with the names Names; each of Dirs is below it
  Heights,      \* numbers of lines a panel may have
  Scrolls,      \* of "none", "pages", "center": the options for scrolling
  READ_STEPS,   \* entries read between two refreshs: 16
  MaxCommands,  \* bound: commands of the user
  MaxChanges    \* bound: changes by others

ASSUME TopAssumption == TopDir \notin Dirs
ASSUME HeightsAssumption == Heights \in SUBSET (Nat \ {0})
ASSUME StepsAssumption == READ_STEPS \in Nat \ {0}

VARIABLES
  disk,      \* the names in each directory
  cwdir,     \* panel->cwd_vpath
  p,         \* the panel's list, marks and cursor
  found,     \* panelized_panel.list: the files the last Find has brought
  load,      \* a directory that is being read
  batch,     \* a loop over the marked files
  commands, changes

panel_vars == <<disk, cwdir, p, found, load, batch, commands, changes>>

Directories == {TopDir} \cup Dirs
NoLoad == [on |-> FALSE]
NoBatch == [op |-> "none"]
AtRest == ~load.on /\ batch.op = "none"

(* The panel is re-drawn in the size of the terminal: MSG_DRAW.            *)
Redrawn(q, h) == adjust_top_file([q EXCEPT !.items = h])

-----------------------------------------------------------------------------
(* Reading a directory.  A reload keeps the names that were marked, and  *)
(* how many; "want" is where the cursor shall be afterwards.  What was     *)
(* shown before is kept as history.                                        *)
Loading(q, dir, want, fresh) ==
  /\ cwdir' = dir
  /\ p' = [q EXCEPT !.list = dir_list_init]
  /\ load' = [on |-> TRUE, todo |-> disk[dir], count |-> 0, want |-> want,
              fresh |-> fresh, keep |-> MarkedNames(q), cnt |-> Cardinality(MarkedNames(q)),
              before |-> [marked |-> MarkedNames(p), cursor |-> Cursor(p), dir |-> cwdir]]

(* reload_panelized: the files that are there still, with a new stat; a    *)
(* size that was counted is lost, but the entry goes on as counted.        *)
Kept(q) ==
  LET first[i \in 0..Len(q.list)] ==
        IF i = 0 THEN << >>
        ELSE IF q.list[i].name \in disk[cwdir] \cup {DotDot}
        THEN Append(first[i - 1], [q.list[i] EXCEPT !.size = FileSize])
        ELSE first[i - 1]
  IN first[Len(q.list)]

reload_panelized(q) == recalculate_panel_summary([q EXCEPT !.list = Kept(q)])

(* panel_reload: where a directory is gone, its parent is shown.           *)
panel_recursive_cd_to_parent ==
  IF cwdir = TopDir \/ cwdir \in disk[TopDir] THEN cwdir ELSE TopDir

(* A directory that cannot be opened is shown empty.                       *)
opendir_fails(q, want) ==
  /\ cwdir' = panel_recursive_cd_to_parent
  /\ p' = try_to_select(recalculate_panel_summary([q EXCEPT !.list = dir_list_init]), want)
  /\ UNCHANGED load

update_one_panel_widget(q, want) ==
  IF q.is_panelized
  THEN p' = try_to_select(reload_panelized(q), want) /\ UNCHANGED <<cwdir, load>>
  ELSE \/ Loading(q, panel_recursive_cd_to_parent, want, FALSE)
       \/ opendir_fails(q, want)

\* Mutant: only the number of marks is looked at.
MarkRead_any(n) == load.cnt > 0

(* handle_dirent and dir_list_append.  A file that vanished since readdir  *)
(* found it is listed with an empty stat, or it is not found.              *)
MarkRead(n) == load.cnt > 0 /\ n \in load.keep

read_entry(n) ==
  LET e == [FileEntry(n, n \in disk[cwdir]) EXCEPT !.marked = ~load.fresh /\ MarkRead(n)]
      left == [load EXCEPT !.todo = @ \ {n}]
  IN /\ load.on /\ n \in load.todo
     /\ \/ /\ p' = [p EXCEPT !.list = Append(@, e)]
           /\ load' = [left EXCEPT !.count = @ + 1, !.cnt = IF e.marked THEN @ - 1 ELSE @]
        \/ n \notin disk[cwdir] /\ load' = left /\ UNCHANGED p
     /\ UNCHANGED <<disk, cwdir, found, batch, commands, changes>>

(* rotate_dash, mc_refresh, dialog_change_screen_size, MSG_DRAW.           *)
refresh_while_reading(h) ==
  /\ load.on /\ load.count > 0 /\ load.count % READ_STEPS = 0 /\ load.todo # {}
  /\ h # p.items /\ p' = Redrawn(p, h)
  /\ UNCHANGED <<disk, cwdir, found, load, batch, commands, changes>>

read_all ==
  LET sorted == dir_list_sort(p)
      shown == IF load.fresh THEN sorted
               ELSE recalculate_panel_summary(
                      IF sorted.selected >= Len(sorted.list)
                      THEN do_select(sorted, Len(sorted.list) - 1) ELSE sorted)
  IN /\ load.on /\ load.todo = {} /\ load' = NoLoad
     /\ p' = try_to_select(shown, load.want)
     /\ UNCHANGED <<disk, cwdir, found, batch, commands, changes>>

reread_cmd ==
  /\ AtRest /\ commands < MaxCommands /\ commands' = commands + 1
  /\ update_one_panel_widget(p, Cursor(p))
  /\ UNCHANGED <<disk, found, batch, changes>>

(* panel_do_cd_int: into the directory at the cursor, or up to the parent, *)
(* where the cursor goes to the directory left.                            *)
panel_do_cd(dir, want) ==
  /\ AtRest /\ commands < MaxCommands /\ commands' = commands + 1
  /\ \/ dir = TopDir /\ cwdir # TopDir /\ want = cwdir
     \/ /\ dir \in disk[TopDir] /\ cwdir = TopDir /\ want = NoName
        /\ p.list[p.selected + 1].dir /\ dir = Cursor(p)
  /\ Loading(panel_clean_dir(p), dir, want, TRUE)
  /\ UNCHANGED <<disk, found, batch, changes>>

-----------------------------------------------------------------------------
(* Commands that change marks, the cursor or the order of the list.        *)
Command(q) ==
  /\ commands < MaxCommands /\ commands' = commands + 1 /\ p' = q
  /\ UNCHANGED <<disk, cwdir, found, load, batch, changes>>

do_mark_file ==
  AtRest /\ \E scroll \in Scrolls :
    LET marked == do_file_mark(p, p.selected + 1, ~p.list[p.selected + 1].marked)
    IN \/ Command(marked)
       \/ Command(move_down(marked, scroll))
       \/ Command(move_up(marked, scroll))

(* By the arrow commands, by a pattern, or all.                            *)
mark_many ==
  /\ AtRest
  /\ \/ \E scroll \in Scrolls, mark \in BOOLEAN :
          \/ Command(mark_file_right(p, scroll, mark))
          \/ Command(mark_file_left(p, scroll, mark))
     \/ \E S \in SUBSET DOMAIN p.list, mark \in BOOLEAN : Command(MarkAll(p, S, mark))
     \/ \E files_only \in BOOLEAN : Command(panel_select_invert_files(p, files_only))

move ==
  /\ AtRest
  /\ \/ \E scroll \in Scrolls : Command(move_down(p, scroll)) \/ Command(move_up(p, scroll))
     \/ Command(prev_page(p)) \/ Command(next_page(p))
     \/ \E i \in Targets(p) : Command(go_to(p, i))

sort_reverse == AtRest /\ Command(panel_re_sort([p EXCEPT !.reverse = ~@]))

(* compare_dir marks files the other panel has not, or has with other      *)
(* contents: any of the files.                                             *)
compare_dir ==
  AtRest /\ \E S \in SUBSET {i \in DOMAIN p.list : ~p.list[i].dir} :
    Command(MarkAll([Unmarked(p) EXCEPT !.stale = FALSE], S, TRUE))

(* The directory at the cursor, or each that is marked, or each one; the   *)
(* user may stop it.                                                       *)
CountTree(q, S) ==
  [q EXCEPT !.list = [i \in DOMAIN @ |->
     IF i \in S THEN [@[i] EXCEPT !.size = TreeSize, !.computed = TRUE] ELSE @[i]]]

\* Mutant: what is marked is not added up again.
Counted_only(q, S) == CountTree(q, S)

Counted(q, S) == recalculate_panel_summary(CountTree(q, S))

Countable(q) == {i \in DOMAIN q.list : q.list[i].dir /\ q.list[i].name # DotDot}

single_dirsize_cmd(q, scroll) ==
  LET S == {q.selected + 1} \cap Countable(q)
      moved == IF scroll = "stay" THEN q ELSE move_down(q, scroll)
  IN Counted(moved, S)

dirsizes_cmd(q, last) ==
  Counted(q, {i \in Countable(q) : i <= last /\ (q.dirs_marked # 0 => q.list[i].marked)})

smart_dirsize_cmd ==
  AtRest /\ IF Cursor(p) = DotDot \/ p.dirs_marked # 0
  THEN \E last \in 0..Len(p.list) : Command(dirsizes_cmd(p, last))
  ELSE \E scroll \in Scrolls \cup {"stay"} :
         Command(single_dirsize_cmd(p, scroll)) \/ Command(Counted(p, {}))

(* find_file: what was found fills the panel, and is kept as it was found. *)
find_panelize(S) ==
  LET files == dir_list_init \o SetToSeq({FileEntry(n, TRUE) : n \in S})
      q == [panel_clean_dir(p) EXCEPT !.list = files, !.is_panelized = TRUE]
  IN /\ cwdir = TopDir /\ S \subseteq disk[TopDir]
     /\ AtRest /\ commands < MaxCommands /\ commands' = commands + 1
     /\ found' = files /\ p' = try_to_select(dir_list_sort(q), NoName)
     /\ UNCHANGED <<disk, cwdir, load, batch, changes>>

(* do_panelize_cd: it is shown again.  The counts are those of the list    *)
(* that was shown before.                                                  *)
do_panelize_cd ==
  /\ AtRest /\ cwdir = TopDir
  /\ Command(try_to_select(
       [p EXCEPT !.list = IF found = << >> THEN dir_list_init ELSE found,
                 !.is_panelized = TRUE,
                 !.stale = p.stale \/ p.marked # 0],
       NoName))

-----------------------------------------------------------------------------
(* chmod_cmd, and with it chown_cmd, advanced_chown_cmd and chattr_cmd: a  *)
(* dialog for each marked file, or "Set all" for the rest of them.         *)
NextMarked(q, from) == {i \in from..Len(q.list) : q.list[i].marked}
OnDisk(n) == n = DotDot \/ n \in disk[cwdir]

Ended(b, update) == [b EXCEPT !.op = "done", !.update = update]

\* Mutant: the search starts behind the last file.
next_file_behind(q, b, op) ==
  IF NextMarked(q, b.file + 1) = {} THEN [b EXCEPT !.op = "astray"]
  ELSE [b EXCEPT !.op = op, !.file = Min(NextMarked(q, b.file + 1))]

(* next_file looks for a mark until it finds one.                          *)
next_file(q, b, op) ==
  IF NextMarked(q, b.file) = {} THEN [b EXCEPT !.op = "astray"]
  ELSE [b EXCEPT !.op = op, !.file = Min(NextMarked(q, b.file))]

FileOf(q, b) == q.list[IF b.chosen = {} THEN q.selected + 1 ELSE b.file].name

(* The top of the loop of chmod_cmd.                                       *)
ask(q, b) ==
  LET at == IF q.marked # 0 THEN next_file(q, b, "ask") ELSE [b EXCEPT !.op = "ask"]
  IN IF at.op = "ask" /\ ~OnDisk(FileOf(q, at)) THEN Ended(at, FALSE) ELSE at

chmod_cmd ==
  /\ AtRest /\ commands < MaxCommands /\ commands' = commands + 1
  /\ batch' = ask(p, [op |-> "ask", file |-> 1, chosen |-> MarkedNames(p),
                      done |-> {}, update |-> FALSE])
  /\ UNCHANGED <<disk, cwdir, p, found, load, changes>>

(* The file at hand is done with: the mark goes.                           *)
TakenCareOf(b) == [b EXCEPT !.done = @ \cup ({FileOf(p, b)} \cap b.chosen)]
MarkGone(b) == IF p.marked # 0 THEN do_file_mark(p, b.file, FALSE) ELSE p

dialog_ends ==
  LET b == TakenCareOf(batch)
      q == MarkGone(batch)
  IN p' = q /\ batch' = IF q.marked = 0 THEN Ended(b, TRUE) ELSE ask(q, b)

(* "Skip", or "Set" with or without an error; "Cancel", there or in the    *)
(* question after an error.                                                *)
chmod_dialog ==
  /\ batch.op = "ask"
  /\ \/ dialog_ends
     \/ \E update \in BOOLEAN : batch' = Ended(batch, update) /\ UNCHANGED p
  /\ UNCHANGED <<disk, cwdir, found, load, commands, changes>>

\* Mutant: they are offered always.
CanSetAll_always == TRUE

(* "Set all" and "Set marked" are offered with two files marked or more.   *)
CanSetAll == p.marked >= 2

(* do_chmod, and the end of the loop in apply_mask.                        *)
do_chmod(first) ==
  LET b == TakenCareOf(batch)
      q == do_file_mark(p, batch.file, FALSE)
  IN /\ p' = q
     /\ batch' \in {Ended(b, TRUE),
                    IF q.marked = 0 /\ ~first THEN Ended(b, TRUE)
                    ELSE next_file(q, b, "apply")}

apply_mask ==
  /\ \/ batch.op = "ask" /\ CanSetAll /\ do_chmod(TRUE)
     \/ batch.op = "apply" /\ do_chmod(FALSE)
  /\ UNCHANGED <<disk, cwdir, found, load, commands, changes>>

(* panel_operate: one file, the only one marked or that at the cursor, or  *)
(* all that are marked, one after the other.  A file copied stays, one     *)
(* moved or deleted goes.                                                  *)
Removed(n) ==
  [d \in Directories |-> IF d = cwdir THEN disk[d] \ {n}
                    ELSE IF cwdir = TopDir /\ d = n THEN {} ELSE disk[d]]

panel_get_file ==
  IF p.marked # 0 /\ NextMarked(p, 1) # {} THEN p.list[Min(NextMarked(p, 1))].name
  ELSE Cursor(p)

operate_single ==
  LET n == panel_get_file
      b == [op |-> "done", file |-> 1, chosen |-> {}, done |-> {}, update |-> TRUE]
  IN /\ AtRest /\ commands < MaxCommands /\ commands' = commands + 1
     /\ p.marked <= 1 /\ n # DotDot /\ batch' = b
     /\ \/ UNCHANGED <<disk, p>>                 \* skipped, aborted, or gone
        \/ OnDisk(n) /\ p' = unmark_files(p) /\ disk' \in {disk, Removed(n)}
     /\ UNCHANGED <<cwdir, found, load, changes>>

operate_many ==
  /\ AtRest /\ commands < MaxCommands /\ commands' = commands + 1
  /\ p.marked > 1
  /\ batch' = [op |-> "operate", file |-> 1, chosen |-> MarkedNames(p),
               done |-> {}, update |-> TRUE]
  /\ UNCHANGED <<disk, cwdir, p, found, load, changes>>

operate_one_file ==
  LET b == [batch EXCEPT !.file = Min(NextMarked(p, batch.file))]
      n == p.list[b.file].name
  IN /\ batch.op = "operate"
     /\ IF NextMarked(p, batch.file) = {}
        THEN batch' = Ended(batch, TRUE) /\ UNCHANGED <<disk, p>>
        ELSE \/ /\ OnDisk(n)                              \* FILE_CONT
                /\ p' = do_file_mark(p, b.file, FALSE)
                /\ batch' = [b EXCEPT !.done = @ \cup {n}]
                /\ disk' \in {disk, Removed(n)}
             \/ /\ batch' \in {[b EXCEPT !.file = @ + 1],  \* FILE_SKIP
                              Ended(b, TRUE)}             \* FILE_ABORT
                /\ UNCHANGED <<disk, p>>
     /\ UNCHANGED <<cwdir, found, load, commands, changes>>

(* chmod_done, or the end of panel_operate.                                *)
batch_done ==
  /\ batch.op = "done" /\ batch' = NoBatch
  /\ IF batch.update THEN update_one_panel_widget(p, Cursor(p))
     ELSE UNCHANGED <<cwdir, p, load>>
  /\ UNCHANGED <<disk, found, commands, changes>>

-----------------------------------------------------------------------------
(* Others add and remove files.  A directory being read may show one more. *)
others_change(d, n) ==
  /\ changes < MaxChanges /\ changes' = changes + 1
  /\ d # TopDir => d \in disk[TopDir] /\ n \notin Dirs
  /\ IF n \in disk[d]
     THEN disk' = [e \in Directories |-> IF e = d THEN disk[e] \ {n}
                                    ELSE IF d = TopDir /\ e = n THEN {} ELSE disk[e]]
     ELSE disk' = [disk EXCEPT ![d] = @ \cup {n}]
  /\ load' \in {load} \cup
       IF load.on /\ d = cwdir /\ n \in disk'[d] \ Listed(p)
       THEN {[load EXCEPT !.todo = @ \cup {n}]} ELSE {}
  /\ UNCHANGED <<cwdir, p, found, batch, commands>>

(* The size of the terminal changes while a key is waited for, here or in  *)
(* a dialog of a loop over files.                                          *)
resize(h) ==
  /\ ~load.on /\ batch.op # "astray" /\ h # p.items /\ p' = Redrawn(p, h)
  /\ UNCHANGED <<disk, cwdir, found, load, batch, commands, changes>>

PanelInit ==
  /\ disk \in [Directories -> SUBSET Names]
  /\ disk[TopDir] = Names /\ \A d \in Dirs : disk[d] \cap Dirs = {}
  /\ cwdir = TopDir /\ found = << >> /\ load = NoLoad /\ batch = NoBatch
  /\ \E h \in Heights :
       p = dir_list_sort(
             [list |-> dir_list_init \o SetToSeq({FileEntry(n, TRUE) : n \in Names}),
              marked |-> 0, dirs_marked |-> 0, total |-> 0, selected |-> 0, top_file |-> 0,
              items |-> h, reverse |-> FALSE, is_panelized |-> FALSE, stale |-> FALSE])
  /\ commands = 0 /\ changes = 0

PanelNext ==
  \/ \E n \in Names : read_entry(n)
  \/ \E h \in Heights : refresh_while_reading(h) \/ resize(h)
  \/ read_all \/ reread_cmd
  \/ \E d \in Directories, want \in Dirs \cup {NoName} : panel_do_cd(d, want)
  \/ do_mark_file \/ mark_many \/ move \/ sort_reverse \/ compare_dir \/ smart_dirsize_cmd
  \/ \E S \in SUBSET Names : find_panelize(S)
  \/ do_panelize_cd
  \/ chmod_cmd \/ chmod_dialog \/ apply_mask
  \/ operate_single \/ operate_many \/ operate_one_file \/ batch_done
  \/ \E d \in Directories, n \in Names : others_change(d, n)

PanelSpec == PanelInit /\ [][PanelNext]_panel_vars

-----------------------------------------------------------------------------
MarkedAt(q) == {i \in DOMAIN q.list : q.list[i].marked}
Weighing(q, w) == {i \in MarkedAt(q) : Weight(q.list[i]) = w}

(* The counts and the total are those of the marked entries, whatever was  *)
(* marked, counted, re-read, moved or deleted in between: but for a list   *)
(* of files found that has been shown again.  What weighs anything weighs  *)
(* FileSize or TreeSize.  This is what panel.h says of them, and what      *)
(* chmod_cmd and its like and panel_operate believe.                       *)
Tally(q) ==
  /\ q.marked = Cardinality(MarkedAt(q))
  /\ q.dirs_marked = Cardinality({i \in MarkedAt(q) : q.list[i].dir})
  /\ q.total = FileSize * Cardinality(Weighing(q, FileSize))
                + TreeSize * Cardinality(Weighing(q, TreeSize))

SummaryTrue == ~load.on /\ ~p.stale => Tally(p) /\ DotDot \notin MarkedNames(p)

(* Whenever a key can be pressed, the cursor is on an entry, which is among*)
(* those shown, and no line is wasted.                                     *)
CursorShown ==
  ~load.on =>
    /\ p.selected \in 0..(Len(p.list) - 1)
    /\ p.selected - p.top_file \in 0..(p.items - 1)
    /\ p.top_file <= Greater(0, Len(p.list) - p.items)

(* A loop over the marked files takes each of them once and no other file: *)
(* those done with and those still marked are those marked at first.       *)
EachOnce ==
  ~p.stale /\ batch.op # "none" /\ batch.chosen # {} =>
    /\ batch.op # "astray"
    /\ batch.done \cap MarkedNames(p) = {}
    /\ batch.done \cup MarkedNames(p) = batch.chosen

(* A directory that is read again shows the marks and the cursor on the    *)
(* files that had them, whatever has come, gone or been drawn meanwhile;   *)
(* but for one that was removed, in whose place its parent is shown.       *)
Reloaded == load.on /\ ~load'.on
MarksKept ==
  [][Reloaded /\ ~load.fresh /\ load.before.dir = cwdir =>
       /\ MarkedNames(p') = load.before.marked \cap Listed(p')
       /\ (load.before.cursor \in Listed(p') => Cursor(p') = load.before.cursor)]_panel_vars
=============================================================================
