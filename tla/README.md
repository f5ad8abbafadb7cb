# A specification of neo-mc

neo-mc is a fork of Midnight Commander built around its internal editor. This directory
holds TLA+ models of it, the configurations with which TLC checks them, and theorems about
them that the TLA+ proof system checks. Paths are relative to the root of the repository;
`editor/` stands for `src/editor/`.

1. [The system](#1-the-system)
2. [The modules](#2-the-modules)
3. [The runs](#3-the-runs)
4. [The proofs](#4-the-proofs)
5. [Where the code and its documentation disagree](#5-where-the-code-and-its-documentation-disagree)
6. [What is not modelled](#6-what-is-not-modelled)
7. [The plan](#7-the-plan)

## 1. The system

mc is one process with one thread and a main loop that hands keys and mouse events to
widgets. What makes it hard is around that thread: other editor processes, a subshell, a
background copy, remote servers, and a disk on which every call may fail.

| Part | State | Operations | Interacts with | Hard | Correct if |
|---|---|---|---|---|---|
| Text buffer, `editor/editbuffer.c` | two arrays of blocks on both sides of the cursor | insert and delete on either side, move, load, write | the editor, by `edit_buffer_get_byte` and the alterations | block boundaries, partial chunks, short reads and writes | it is a text with a cursor; what is written is that text |
| Undo and redo, `editor/edit.c` | two rings of codes; `redo_stack_reset`, `undo_stack_disable` | push, pop, Undo, group Undo, Redo | buffer, markers, display | run lengths, wrapping, doubling, stacks that feed each other | Undo restores, Redo restores, no Undo runs off the bottom |
| File locks, `lib/lock.c` | a symbolic link beside the file; `locked` in each window | `lock_file`, `unlock_file` | other processes through the disk, the user through a dialog | interleaved system calls, stale locks, crashes | locks exclude; none is left behind |
| Open, save, close, `editor/editcmd.c`, `editor/edit.c` | `modified`, `delete_file`, `stat1`, `skip_detach_prompt`, `lb`; the disk | load, save, save as, close, reload | locks, disk, dialogs, other sessions | a call fails after others succeeded; a crash; a write by others | no text is lost; what is reported is true |
| Line breaks, `editor/edit.c` | none | `edit_write_stream` | save | looks one byte ahead, also at the end | every line break is converted, no byte else changes |
| Bookmarks, `editor/bookmark.c` | a doubly linked list with a moving head | insert, clear, shift | alterations of newlines | several on one line | a bookmark stays with its line |
| Editor commands, drawing, syntax, helpers | selection, search state, rule cache | blocks, search, macros, format, spelling | buffer, undo | cached rules | functions of the text |
| VFS core and stamps, `lib/vfs/` | open handles, directory entries with counts, stamps | open, close, free, expire | all file access; a timer | a file system freed while in use, free functions that change the list of stamps | what is open is not freed, what is idle is |
| Remote and archive file systems, `src/vfs/` | connections, caches, local copies | connect, transfer, list | servers, the VFS core | time-outs, lost connections, an archive inside another | no answer is taken for another's; a copy lives as long as its user |
| File operations, `src/filemanager/file.c` | the operation context, totals, link list | copy, move, erase | VFS, dialogs, background task | partial copies, overwriting, interruption | a source is removed only after its copy is whole |
| Background tasks, `src/task-background.c` | list of tasks, two pipes per task | register, call the parent, die | file operations, dialogs | a child dying within a message, dialogs within dialogs | a call is answered once, by its own answer |
| Panels, `src/filemanager/panel.c` and its dialogs | the list, the marks with their counts, cursor, first file shown | read, reload, mark, sort, panelize, work on marked files | VFS, other processes, the terminal | files that come and go, redraws while reading | counts are those of the marked files; marks and cursor stay with their files |
| Tree, find, hotlist | a cached tree with hooks, a search | load, scan, remove | VFS, hooks | hooks removed for others | - |
| Subshell, `src/subshell/` | alive and stopped flags, a pty and a pipe | invoke, synchronize, feed, exit | a shell, signals | SIGCHLD before the wait | neither waits for ever |
| Console saver, `src/consaver/`, `src/cons.handler.c` | the saved screen | save, restore, contents | a process on two pipes | one side gives up in an exchange | both agree on what the next byte is |
| Viewer, `src/viewer/` | growing buffer, change list, lock, cache of coordinates | read on, look up, edit, save | pipes, locks | retried saves, lookups interrupted and resumed | bytes are those of the source; a lookup is a walk |
| Diff viewer, `src/diffviewer/ydiff.c` | rows of two files, backups, `merged` | compare, merge, edit, save, give up | diff, the editor, the disk | line numbers of a hunk, failed backups | a merge changes its hunk only; "No" undoes all |
| Widgets, events, hooks, `lib/widget/`, `lib/event/`, `lib/hook.c` | focus, callback lists | send, add, delete, run | everything | lists that change while they are run | nothing deleted is called |
| Terminal, strings, search, configuration | key table, options | decode, convert, match | - | escape sequences cut by time-outs | functions of their input |

`PROJECT.json` lists every part with its sources and lists the hazards at their lines.

## 2. The modules

    EditText <------- EditBuffer (implements EditText)
        ^
    EditUndo -------> UndoStack <--- UndoStackSpec <--- UndoRing (implements it)

    EditBuffer  UndoRing  LineBreaks  Bookmarks  CoordCache  HexEdit  | MCEditorViewer
    EditUndo (twice)  UndoStackSpec                                   | MCUndoSettings
    EditSave  DiffView                                                | MCSaving
    FileLock  FileOp  VfsStamps  Panel --> PanelList                  | MCFiles
    EditUndo  TaskBackground  Subshell  ConsSaver                     | MCProgress

| Module of proofs | about |
|---|---|
| EditorViewerProofs | EditBuffer, LineBreaks, Bookmarks, HexEdit, CoordCache |
| UndoRingProofs | UndoRing |
| EditUndoProofs | EditUndo with EditText, UndoStackSpec with UndoStack |
| EditSaveProofs | EditSave, DiffView |
| FileLockProofs | FileLock |
| FilesProofs | FileOp, VfsStamps |
| ProcessProofs | TaskBackground, Subshell, ConsSaver |
| PanelProofs | Panel, PanelList |

`MC*` modules give constants their values. Those on the right put several modules in one
state space, of which one runs in each behaviour: they share no state, so nothing is
lost, and one run asks one kind of question of several parts. Operators keep the names of
the C functions. An operator marked "Mutant" is a variant of the definition after it with a
plausible mistake; no specification uses it, and it is there to show that a property would
notice the mistake (`PROJECT.json`, "mutants").

### The editor

**EditText** is what callers of the buffer rely on: a text, a size and a cursor, with
`Insert`, `InsertAhead`, `Delete`, `Backspace` and one-byte moves. `Load` stands for opening
a file.

**EditBuffer** is `editor/editbuffer.c`: `b1` and `b2` as sequences of blocks, allocation
and freeing of a block at a multiple of `EDIT_BUF_SIZE`, freed bytes that are not cleared,
the reading order and the reversal in `edit_buffer_read_file`, the chunks of
`edit_buffer_write_file` and the count it returns when any of them is short or fails.
`edit_cursor_move` is a loop over one-byte moves, and one iteration is one action.

**UndoStack** has the two stacks as values: cells from the oldest code on. `Pushed` counts
repetitions, drops a repeated key press, doubles the size, forgets whole key presses;
`Top` and `Popped` are `edit_pop_undo_action`. **UndoStackSpec** makes a specification of one
stack out of them. **UndoRing** is the array with `undo_stack_pointer`, `undo_stack_bottom`
and a mask, with stale numbers in cells given up and any numbers in cells that `g_realloc`
adds; it implements UndoStackSpec. `edit_push_redo_action` is the same code for the other
stack.

**EditUndo** composes EditText and UndoStack with the line counts, the display start, the
selection and the commands. `edit_push_undo_action` sends a code to the redo stack, behind a
`KEY_PRESS`, while an Undo runs. A command is a key press followed by any alterations and
moves, since blocks, search and macros make any such sequence. Undo and Redo take a step
per code. `Blanks` are the bytes up to 32, which push the `*_BR` codes; the newline among them
also counts as a line. Delete and Backspace in a UTF-8 text take out a character of up to
`CharBytes` bytes, one byte a step (`char_begins`, `char_step`): `char_left` counts those to go, and
the display start moves by one byte with the last, as in the code. Which bytes make a character is
left open, but for the newline, which is in none. `drifted` remembers that such a character was taken
out above the window. Scrolling goes by `start_line`, as `edit_scroll_upward` and
`edit_scroll_downward` do, wherever the window really is. An AHEAD or INSERT code
carries its byte; a MARK code its position, where the three number ranges of the code
overlap at `MARK_CURS - 2`, which `MARK_CURS` of the module translates. `remarked` remembers that
a Redo has set a marker, for the property: a Redo sets markers without recording what they
were.

**EditSave** has one window on a local disk. A name holds a text or nothing; a text is told
apart up to its line breaks. Each dialog and each call of `edit_save_file` is a step, any
call may fail, others may write, and the editor may crash in between. `stat1` is the file
that has the time in `edit->stat1`. `mishaps` collects what the properties make exceptions
for: a write by others during a save, data lost when a stream is closed, the removal of a
file by a reload, a failed reload, a failed save of an unmodified text, and the saving of an
empty or torn text.

**LineBreaks** is `edit_write_stream`: the text is written byte by byte, with the look at
the byte behind, and any `fputc` may fail. **Bookmarks** is the list of `editor/bookmark.c`,
entered wherever the last search ended; each mark remembers the line it was set on, for the
property. The text is the number of its lines, and the alterations, commands, searches and
saves that touch marks are actions.

### Files

**FileLock** has one step per system call of `lock_file` and `unlock_file`, and the callers:
`edit_modification`, `edit_save_cmd`, `edit_save_as_cmd`, `edit_close_cmd`, `edit_clean`.
`call[w].why` is the place the call returns to. A process has one thread, so that one of its
windows at most is in a call. `Answers` is `kill (pid, 0)`. Who grabs a lock, ends or closes
a locked window is remembered in `disturbed` for the properties.

**FileOp** copies or moves several files, by themselves or as a directory. A file is two
chunks; each call and each dialog of `copy_file_file` and `move_file_file` is a step, the
buttons of the progress dialog are looked at where the code looks, and another process may
create a target between any two steps. `answer` remembers how the target came to be
replaced, and `mishap` the files of which FILE_CONT does not say the truth; they are listed in
section 5. `MCFileOp.Several` has the four setups of `setup`: copy or move, files or a directory.

**VfsStamps** is `lib/vfs/gc.c` with its users: the archives of extfs with `fd_usage` and
their local copies, two panels, the current directory, open files. One of the panels at most is
no listing (`NoListing`); `check_panel_timestamp` then answers that anything is in use, and
`panel_sized_with_dir_new` goes to the directory saved for it and back. `vfs_expire` walks the
list entry by entry; freeing an inner archive writes its copy back, which opens and closes
files of the outer one and thereby adds and removes stamps during the walk.

**PanelList** has the operators on the record of a panel: marks with counts, cursor,
`adjust_top_file` and the ways to move, sorting. **Panel** lets it work: a directory is read
entry by entry with redraws in between, in which the terminal may have another size;
reloading; panelizing; directories counted; the loops over marked files of the mode, owner
and attribute dialogs and of `panel_operate`, with dialogs between two files. Other
processes make and remove files.

**DiffView** is `src/diffviewer/ydiff.c`. diff itself is outside the repository: it is any
longest common subsequence, as the commands that `scan_line` reads. `Printed` and `dff_reparse`
make rows of them, `HunkStart` and `HunkEnd` are `get_current_hunk`, and the three loops that
cut a hunk out with counters of their own are `dview_remove_hunk`, `dview_add_hunk` and
`dview_replace_hunk`. Writing the backup and the file may fail, with and without notice. The
viewer is started a second time, also after it was killed.

### What waits for others

**TaskBackground** has child processes that write a call piece by piece to a pipe and block
until the result comes, and the parent, whose event loops nest with its dialogs; the set of
channels found readable is local to each loop. **Subshell** has the shell with its pty and
its pipe, SIGCHLD and SIGSTOP, and `feed_subshell`, `synchronize`, `invoke_subshell`. Lines are
numbered, and a prompt carries the number of the line before it. `feed_subshell` finds the shell
alive in one step (`looks`), begins to wait in a second (`selects`) and takes a message or keys in
a third; SIGCHLD interrupts a `select` under way, not one about to begin (`missed`). One read may end
with a line (`types_line`), have other bytes behind it, or have the switch key behind it
(`switch_key`); `subshell_ready` changes in the first case only. **ConsSaver** has the two
processes byte by byte; SIGCHLD may run `handle_console (CONSOLE_DONE)` between any two steps.

### The viewer

**CoordCache** is `src/viewer/coord_cache.c`: three orders of the same entries, a lookup by
bisection and a walk from there that is interrupted and goes on, with `\r`, tabs and
overstruck characters (`a\ba`, `_\ba` and the bullet `+\bo`). The hex mode may write any byte, and
`rewritten` remembers one that an entry of the cache depended on. **HexEdit** is the change list of the hex mode, which is saved byte by
byte, with the lock of the file.

## 3. The runs

Every property of a passing run is violated by its mutant. Deadlock is not checked, because
every run stops at a bound; that nobody waits for ever is checked as liveness in `progress`.

| Run | Parts | Properties | Bounds, and why they are enough |
|---|---|---|---|
| `editor_and_viewer` | EditBuffer | `ImplementsText`, `LoadedIsFile`, `WrittenIsText`, `TypeOK` | Blocks of two bytes, texts of five: each side grows to three blocks and shrinks; partial, full and no last block. |
| | UndoRing | `RingIsStack` | Eight cells, doubled to sixteen, then wrapped; sixteen pushes; a margin of five, the least that doubling can do with. |
| | LineBreaks | `BreaksConverted` | All texts up to five of three bytes: each kind of break beside each other. |
| | Bookmarks | `MarksFollow` | Three lines, two marks: two on one line, joined and split. |
| | CoordCache | `AnswersTrue` | Files of four bytes, granule two: lookups before, between and behind entries. `_`, `+` and `o` make each kind of overstruck character. The search ends where the cache is stale (`CacheFresh`), of which nothing is claimed. |
| | HexEdit | `ChangesKept` | Two offsets, two values, four keys. |
| `undo_settings` | EditUndo | `UndoRestores`, `LinesExact` | Stacks of six cells that grow to what all codes need, with texts of two bytes that may be one character, two commands of two alterations or moves and three Undos; stacks of six cells that fill up at twelve, with runs of two, three commands, selections by keys and mouse and two Undos; and one Redo, which may set a marker. |
| | UndoStack | `OldestIsKey`, `RoomLeft` | Six cells, doubled to twelve, runs up to three: every way to fill a stack. |
| `saving` | EditSave | `CopySurvives`, `ResultIsTrue`, `UnmodifiedIsOnDisk`, `NoSilentOverwrite` | Two saves, two names, two texts, two events (windows opened or writes by others): in each of the three modes. |
| | DiffView | `RowsTrue`, `OnlyAsAsked` | Files of three lines together at first, and more by edits; two merges or edits, two sessions, one failure. |
| `files` | FileLock | `Exclusive`, `NoLeak`, `TypeOK` | Two processes with a window each and two files: saving under the other's name, both names locked at once. |
| | FileOp | `SourceSurvives`, `ReportIsTrue`, `NothingHalfDone`, `AgreedOverwrite` | Two sources of two chunks: an error in the middle of a file, an answer that holds for the second. |
| | VfsStamps | `StampsExact`, `CopyKept` | Three archives of which one is in another, two panels of which one may be no listing, one open file. |
| | Panel | `SummaryTrue`, `CursorShown`, `EachOnce`, `MarksKept` | Three names of which one may be a directory, two or three lines shown, four commands, one change by others: lists longer and shorter than the panel. |
| `progress` | EditUndo | `RedoRestores`, `UndoEnds` | Group Undo over three commands on one line. |
| | TaskBackground | `AnswersMatch`, `EveryCallReturns` | Two children with two questions, one death. |
| | Subshell | `InactiveAwaits`, `CommandReturns` | Five lines, with and without bytes or the switch key behind them in the read, one death of the shell, before and after `select` is called. |
| | ConsSaver | `TurnsMatch`, `RequestEnds` | Three lines on the screen, counts modulo eight, three requests, one death. |

Seven more runs give a counterexample each, see section 5.

What the properties say, beyond the names:

- `UndoRestores`: a key press code on the undo stack remembers what its key saw (`seen`, for
  the property only). Whenever it comes to the top, text and cursor are that again, whatever
  was undone and redone before, and so are the markers, if they selected something and no Redo
  has set a marker; and at the bottom of a stack that has forgotten
  nothing the text is that of the file, as the comment at `editor/edit.c:560` says.
  `RedoRestores` says it of the redo stack, whose steps are those of Undo, one alteration
  each; it is asked of keys alone, see section 5.
- `NoLeak`: a link that names a living or orderly ended process belongs to a window that
  will remove it. `Exclusive`: a window that believes it holds a lock is named by the link,
  and no other window believes so. It is stated for one host, as long as no process has
  ended, no user has grabbed a lock, and no locked window was closed by `edit_close_cmd`.
- `CopySurvives`: in the safe and the backup mode, a file that held a text has a whole copy
  somewhere, whatever fails and whenever the editor crashes. `NoSilentOverwrite`: what a save
  replaces is what the window last read or saved, or the user has agreed.
- `OnlyAsAsked`: a merge makes the hunk at the first row shown, and nothing else, that of
  the other file; "No" brings back both files as they were before the first merge not saved;
  no other step writes. Excepted are files written short unnoticed, backups of an earlier
  session, and the two cases of section 5. `RowsTrue`: the rows are the two files, in order
  and whole, and equal rows are equal, after each merge and edit.
- `SourceSurvives`, `ReportIsTrue`, `NothingHalfDone`: in the end each source is in its place or
  whole in its target; FILE_CONT is said of files that are as wanted; a target is untouched,
  as wanted, gone, or its fate was asked for, or its failed close was reported. All three except
  the files of `mishap`, for which the code goes wrong: these are listed in section 5.
- `StampsExact`: outside a walk, each stamp names a living archive, once, and an archive that
  was used and is no longer has one, so that it will be freed; not so an archive left while
  a panel is no listing (section 5), which `Remember` leaves out. `CopyKept`: the timer never
  frees an archive under one that works on a copy of its files.
- `MarksKept`: after a directory was read again, the marks are on the files that had them and
  the cursor on the file it was on, if they are still there. `EachOnce`: a loop over
  marked files takes each once. `SummaryTrue` is excepted for a list shown again by
  `do_panelize_cd` (section 5), as is `EachOnce`.
- `AnswersMatch`: a child gets the result of its own call, however dialogs are nested.
- `InactiveAwaits`: when the panels are back, the shell is at its prompt and nothing of an
  earlier line is left to be taken for an answer. `CommandReturns`: a command that was given
  to the shell ends and the panels come back. `astray` excepts from both a line typed ahead
  of a prompt, one that mc takes no note of because bytes or the switch key follow it in the same
  read, and a shell killed with lines left; `missed` excepts from the second a death that is told of
  just before `select` (section 5).
- `AnswersTrue`: a lookup finds what a walk from the beginning of the file finds. `Passable`
  excepts files with runs that have no byte to save an entry at for a whole granule, `rewritten`
  a cache that the hex mode has made stale (section 5).
- `LinesExact`: `lines` and `curs_line` are always the numbers of newlines in the text and before the
  cursor; `start_line` is that before the display start until the window has `drifted` (section 5).

Fairness, all of it weak:

- `UndoEnds`: of `UndoStep \/ RedoStep`. The loops of `edit_do_undo`, `edit_group_undo` and
  `edit_do_redo` call nothing that waits.
- `EveryCallReturns`: a child goes on; the parent's event loop attends to channels, and the
  user answers dialogs.
- `CommandReturns`: the shell reads, and ends its commands; signals are delivered; `feed_subshell`
  goes round its loop, in which `select` waits for a message or a signal; mc goes on. Nothing is
  assumed of the user. Output of the shell and a resized terminal, which wake `select` too, are left
  out, so that nothing rests on them.
- `RequestEnds`: neither process stops between two calls, except that the saver may die.

The bounds on questions, lines, kills and requests hold back only steps of users and of
failures, which have no fairness; no step that has is disabled by a bound.

## 4. The proofs

Theorems hold for every value of the constants under the `ASSUME`s of the modules. What they
say of the program, and why the code satisfies it:

- bytes include newline and NUL, and a block holds one byte at least (2^16 in the code);
- the margin of a stack is five cells at least and no larger than a new stack (10 and 32);
  for the ring, sizes are doubled up to a limit, and codes are not counts (`RingAssumption`);
  texts have a size (`FirstTextsAssumption`), and a window and a character as well
  (`WindowAssumption`);
- a process number is unique on its host; "no process", "no file", "no task" and the file that
  is not there (`AbsentAssumption`) are none of the processes, files and so on;
- what is copied is told apart from what another process writes and from a file that is
  gone (`ChunkAssumption`);
- a screen has a line at least, and a byte can hold the number of its lines
  (`RowsAssumption`, `BytesAssumption`), and so has a panel (`HeightsAssumption`); a directory has
  finitely many names (`NamesAssumption`); offsets, columns and bounds are natural numbers;
- backspace, newline, carriage return and tab are different bytes and not printable
  (`ControlAssumption`).

Each proof has one inductive invariant, one lemma for each action, and theorems that follow
from it:

- **EditorViewerProofs**, the buffer: `TypeCorrect` (`TypeOK`), `Refinement` (`ImplementsText`),
  `LoadCorrect` (`LoadedIsFile`) and `WritesTheText` (`WrittenIsText`). `TypeOK` is inductive: it says
  that a side of `n` bytes has exactly the blocks for them (`BlocksCover`). The lemmas `PutSide` and
  `ShrunkSide` say which bytes of a side change when one is put or taken off; each action then
  maps to the action of the text with the same name. Loading is an argument on division: byte
  `i` of the file is where `B2Byte` looks for it after the reversal. Writing: each chunk is the
  piece of the text that begins where the last one ended (`ChunksMakeText`), and such pieces
  joined make a beginning of the text (`PiecesMakeText`).
- **EditorViewerProofs**, the line breaks: `BreaksAreConverted` (`BreaksConverted`). Until a write
  fails, what was written is what is due for the bytes taken so far, and a `\r\n` pair is
  never split between two steps. `FlattenDoes` says what `FlattenSeq` computes for a sequence
  of any length.
- **EditorViewerProofs**, the bookmarks: `MarksAreFollowed` (`MarksFollow`). `BmInv` adds the
  imaginary bookmark at line -1 and the cursor's range: they make `book_mark_find` end at the
  place of the line from wherever it starts (`FindDoes`), which every operation rests on.
- **EditorViewerProofs**, the hex mode: `NoChangeLost` (`ChangesKept`). `ChangesKept` says nothing of the
  moments between two bytes of a save; `ChangesWritten` does: each byte is what was typed last, in the
  list or in the file as written so far, and but for a remote file that is the file itself.
- **EditorViewerProofs**, the coordinates: `AnswersAreTrue` (`AnswersTrue`), for files, granules and
  columns of any size. `CcInv` says that the cache holds places of the walk from the beginning
  that could be saved, the first one first and each behind the one before (`CacheTrue`). Lines
  and columns, in either mode, never go down along the walk but inside an overstruck character,
  and go up to a place that can be saved (`WalkGoesUp`, `Under`): so one cache serves both modes and
  three orders, the bisection finds the last entry not behind what is asked for (`FindIs`), the
  loop stops where the walk does (`WalkedIs`), and that is the first place that answers
  (`ExpectedIs`).
- **EditUndoProofs**, one stack: `OldestCodeIsKey` (`OldestIsKey`) and `StackHasRoom` (`RoomLeft`). The
  invariant `StackInv` joins them with the type: room is needed to know that a push forgets
  in time, and only what `ForgetOldest` leaves tells whether a stack begins with a key.
- **UndoRingProofs**: `RingStaysInRange` and `RingIsAStack` (`RingIsStack`). `RingInv` says that the
  indices are in the array, that four cells are free, and that the bottom is at 0 as long as
  the ring may still be doubled: that is why `g_realloc`, which moves nothing, does not tear
  a ring that has wrapped. Each operation of the ring is matched with the operator of
  UndoStack it stands for, storing, counting, doubling and forgetting, and the steps of a
  push follow one after another.
- **EditUndoProofs**, the commands: `UndoAlwaysRestores` (`UndoRestores`) and `LinesAlwaysExact` (`LinesExact`), of all
  alterations, selections by keys and mouse, Undo, group Undo and Redo. `EuInv` says that the
  undo stack is a way back: there is a `Trail` of views, one for each code and each repetition
  counted, from the text as it is to what the oldest code leads to; two views beside each
  other differ by what the code between them undoes, and where a key press stands, the view is
  what its key saw. A push adds a view at the near end (`PushLeads`), forgetting cuts at the far
  end, a pop goes one view along. What follows during an Undo is `UndoWay`: the codes it pops
  lead to the key it stops at, while it records on the other stack. Redo alters the text as the
  user does and so adds to the trail. A view holds a set of pairs of markers rather than one,
  because a key found with no selection does not say where the markers were. For the line
  counts, `NewlinesIn`, `NewlinesOut` and `NewlinesPassed` say by a bijection what one byte
  more, less, or passed by makes of the number of newlines before a place. `LinesInv` says that
  the counts are exact (`Counts`), that the window starts within the text until it has drifted
  (`Shown`), that the bytes left of a character are in the text and no newlines (`CharInv`), and of
  each key press on the undo stack that the window it remembers was within the text its key saw
  (`Keyed`), so that what an Undo goes back to starts in the text again; the key presses of the redo
  stack remember a window that starts at 0. `RedoAlwaysRestores`
  (`RedoRestores`) turns the trail round: `RdInv` says that the redo stack leads `Forward` from
  the text as it is, to the views the Undo has come from (`UndoForward`: each alteration of an
  Undo is `Reversed` by the code it records). A command drops that stack with the first code it
  records, a Redo goes one view along it (`RedoLeads`), and the codes it records itself go to the
  other stack. Redo sets markers without recording them, so that its trail is asked for none. The
  theorem is about any text, newlines and blanks included. It supposes that there are no mouse
  presses, `"mouse" \notin Ops`, and that no Redo has met one of the codes it does not know,
  `[]NoBreakMet`: an Undo may record `*_BR` codes and commands may drop them, but the first Redo that
  comes to one ends what is claimed, because the property fails there, which is the run
  `redo_newline`; for the mouse see section 5. `EuInv` quantifies
  over trails, an infinite set, so that TLC cannot evaluate it: it checks what follows from it.
- **EditSaveProofs**: `SaveTypeCorrect`, `TextsSurvive` (`CopySurvives`), `ResultsAreTrue`
  (`ResultIsTrue`), `UnmodifiedIsSafe` (`UnmodifiedIsOnDisk`), `OverwritesAreKnown`
  (`NoSilentOverwrite`). `IInv` says at each place of `edit_save_file` what the file, its backup and
  the temporary file hold: the old text is untouched until it is renamed or truncated, a
  temporary file has a name not used before, and what is renamed is whole. It also says of
  `stat1` and `modified` at each place what becomes of them if the next call fails.
- **FileLockProofs**: `LockTypeCorrect`, `NoLockLeaks`, `LocksExclude`. The invariant `Inv` adds
  to the properties what each window knows at each step of a call (`WindowOK`): which file
  the call is about, and which of the two locks, that of the window and that of the save,
  are held. `NoLeak` alone is not inductive, since a step inside `unlock_file` clears a flag
  whose meaning depends on why it was called. Each step of a window does one of four things
  to a lock (`LinkStep`: kept, taken, given back, removed), and one lemma per property says
  that these preserve it; `Calm` says why no lock is removed as stale meanwhile.
- **EditSaveProofs**, the diff viewer: `RowsAreTrue` (`RowsTrue`) and `OnlyAsAskedHolds` (`OnlyAsAsked`),
  for files of any length, any bytes in them, and any longest common subsequence diff may take. The rows
  of a side are described by a function that counts the lines up to each row (`CountsLines`), and a pair of
  sides by what stands abreast (`SideBySide`). By induction over the commands of the script, the rows
  read so far show both files up to the end of the last gap (`Reached`), and so in the end
  both files whole (`ReparseShows`). `DvInv` adds to that only that the backup of a file merged is the
  file before its first merge. For a merge, the rows around the first row shown give the places
  where the hunk cuts each file (`HunkTop`, `HunkBottom`, `CutsOf`): the lines in front of it, its own and
  those behind it are three pieces of each text, what the three loops of `dview_remove_hunk`,
  `dview_add_hunk` and `dview_replace_hunk` write is such pieces joined (`HunkRemoved`, `HunkAdded`,
  `HunkReplaced`; the loops take the line behind the hunk from the other file, which is equal), and
  `WithHunk`, which is written row by row, is the same ones (`RowsGrow`, `PieceByPiece`). `BehindFirst`
  and `PastLines` are needed where the code looks at a row that is not of the hunk.
- **FilesProofs**, copying and moving: `OpTypeCorrect`, `NoDataLost` (`SourceSurvives`), `ReportsAreTrue`
  (`ReportIsTrue`), `NoHalfCopies` (`NothingHalfDone`), `OverwritesAgreed` (`AgreedOverwrite`), for any
  number of files and all setups. `OpInv`: a source is whole in its place or whole in its target
  (`SourcesKept`), targets not yet reached are `Untouched`, and `HandOK` follows the file in hand from
  place to place: what was looked at, what was asked, how much has been written. Each
  action has a lemma that it keeps `OpInv` and takes such a step as the action properties
  demand (`StepOK`).
- **FilesProofs**, the stamps: `CopiesAreKept` (`CopyKept`). The invariant counts: an archive's
  `fd` is the number of the user's open files in it and one for the copy it holds for another
  archive, and no file is open while file systems are freed on request (`NoFileOpen`). Of
  `FewAssumption` the proof uses that there are finitely many archives, not that they are four.
- **FilesProofs**, the list of stamps: `StampsAlwaysExact` (`StampsExact`), for any panels and open
  files and at most four archives. `StInv` says what the list is outside a walk (`Resting`) and
  during one (`Walked`): NULL links are behind the place the walk has reached, no archive has two
  stamps, every archive that was in use is in use or stamped (`Cared`), and there are no more links
  than archives. A turn that frees an archive opens and closes a file of the one around it; each
  removes a link, and `FreeTidy` shows that the walk stays at its stamp and that none is doubled: a
  stamp would have to hide behind a NULL link after both removals, and with the one walked at that
  makes three links where two at most are left (`ThreeLinks`). Here four in `FewAssumption` counts;
  with five archives a stamp can be doubled. What the walk of `mc` on its way out leaves behind
  is not claimed: nothing reads the list after it. That a panel is no listing only lets fewer stamps
  be made: `Remember` says of which archives one is still due, and while a panel is none, those are in use
  or stamped by its definition (`Excused`).
- **PanelProofs**: `SummaryHolds` (`SummaryTrue`), `CursorHolds` (`CursorShown`), `EachOnceHolds`
  (`EachOnce`) and `MarksHold` (`MarksKept`), for directories and heights of any size. `PanelInv` says that
  names are distinct and ".." is among them and never marked, whence marks by name, which
  loops and reloads go by, and marks by entry, which are counted, are the same; of a directory
  half read, that the marks are those kept as far as they have come and `cnt` is the number still
  to come, so that the code may stop looking for marks when it reaches 0; of a loop, that no
  mark is before its place. The loops over a list are recursive functions; that such a function
  exists and stays within what its steps allow is `LoopRuns` and `LoopStays`. `SortDoes` says that the
  sorted list is a permutation, by counting those that precede each entry.
- **ProcessProofs**: `ResultsMatchCalls` (`AnswersMatch`), `InactiveIsAtPrompt` (`InactiveAwaits`),
  `SaverTurnsMatch` (`TurnsMatch`). The invariants list, for every place where the two sides may be
  together, what the channels between them hold: of a child, the pieces of its call not yet
  read, and which event loop has it (`BgInv`; loops further in cannot have the same child,
  because it waits); of the subshell, where the prompt with the number of the last line is
  (`SubInv`); of the saver, one line per step of the dialogue (`ConsInv`).

TLC checked each property first, and the invariants that it can evaluate as invariants of the runs;
`EuInv`, `PanelInv`, `CcInv` and `DvInv` speak of unbounded sets.

Out of reach of the prover: the four liveness properties, and everything with ENABLED.
Every safety property of a passing run is proved. The induction theorems of the library
take an operator as a parameter and cannot be used here; where an induction was needed it is by
a least counterexample (`NatInduct`), as in `FlattenDoes`.

## 5. Where the code and its documentation disagree

Each of these is a run in which TLC finds the counterexample.

- `redo_newline`: Undo has cases for `BACKSPACE_BR` and `DELCHAR_BR`, Redo has none
  (`editor/edit.c:1270`). Redo of an Undo that put back a newline, blank or tab does nothing.
- `lock_stale`: two editors that find the lock of a dead process: both ask `kill`, the first
  unlinks and makes its own lock, the second unlinks that and makes its own
  (`lib/lock.c:259`).
- `save_cancelled`: close a modified window, answer Yes to saving, and Cancel in a dialog of
  the save ("modified in the meantime", or hard links): the window is closed unsaved
  (`editor/editcmd.c:506`).
- `save_reload`: open a new file, save it by Save As with other line breaks: the file is
  written, loaded again, and removed (`editor/editcmd.c:1783`).
- `unix_breaks`: a text that ends in a newline is written with two when saved with Unix line
  breaks, because the byte behind the end reads as a newline (`editor/edit.c:1921`).
- `copy_unasked`: a copy in the background replaces existing files and asks nobody
  (`src/filemanager/filegui.c:1200`).
- `merge_hunk`: files `A` and `A X`: the merge that is to remove `X` removes `A` as well
  (`src/diffviewer/ydiff.c:2009`), because a hunk behind the first row is taken to begin at
  line 1. Likewise, merging a changed hunk from a row for which one file has no line doubles
  or drops lines behind it.

Seen while modelling, without a run of their own. In the editor:

- Undo after a mouse press does not drop the redo stack: `edit_update_cursor` pushes codes but
  does not set `redo_stack_reset`.
- Redo reads a `MARK_CURS` code as a `MARK_2` code (`editor/edit.c:1307`): the second Redo of an
  insertion over a selection that follows the cursor sets `mark2` to 500000002. `end_mark_curs`
  can drift below -2, when Undo does the same. CK_MarkAll and `edit_mark_current_word_cmd` set
  the selection without recording it.
- `edit_backspace` (`editor/edit.c:2725`) moves bookmarks with `curs_line` as it was before
  the newline was taken out: marks of the joined line go to the one before it.
- The results of `fclose` and `pclose` are ignored: a truncated text may be renamed over the
  original even in safe mode, where the manual says "the original file is untouched". A
  temporary file stays behind when a save fails (there is a FIXME) or the editor crashes.
- A failed save of an unmodified text leaves it marked unmodified, though in quick mode the file
  is gone. Line breaks chosen in a cancelled Save As count for the next save, which then does
  not update `stat1`, and the save after it asks about the editor's own modification.
- Line breaks of several kinds in a row are paired wrongly (`LineBreaks.Plain`).
- A Delete or Backspace of a UTF-8 character of several bytes above the window (in a macro, between
  whose commands nothing is drawn) moves `start_display` by one byte for all of them (`editor/edit.c:2669-2676`, `2729-2736`). The window then starts in the middle of a line, and
  with enough such characters on another one than `start_line` says (`EditUndo.drifted`).

With files:

- `edit_close_cmd` unlocks and so does the `edit_clean` it calls; the second `unlock_file` may
  meet the lock of another editor, and removes it if the link vanishes between its `lstat`
  and its `readlink` and is made anew before its `unlink` (`lib/lock.c:302-310`). `kill (pid, 0)`
  says nothing of a process on another host (`lib/lock.c:238`).
- Copies that are not whole and for which FILE_CONT is returned all the same (`FileOp.mishap`).
  The file is then untagged, though "Failed and skipped files are left tagged"
  (`src/doc/man/mc.1.in:2653`), and a move between file systems removes the source, so that data is
  lost:
  - a source linked to one copied before is linked to the target of that one, though that target is
    cut short, or is the old file because the user said No or the copy failed
    (`check_hardlinks`, `src/filemanager/file.c:386-423`);
  - a write error other than a full disk, answered by Skip, drops a chunk and leaves DEST_FULL
    ("Created, fully copied", `FileOp.FullIsWhole`);
  - the target cannot be closed, which the user is told, and neither can its owner or mode be set:
    Skip there turns the result into FILE_CONT (`src/filemanager/file.c:2661-2697`);
  - after Skip all, an error of close is not even told (`src/filemanager/file.c:2661`);
  - `do_append` stays set for later files; space for the file is allocated in front of
    what is appended; and a file to be appended to is removed when the allocation fails and the
    user gives up.
- A full copy that could not be closed stays, without its last chunk, and nobody asks whether to
  keep it (`FileOp.CloseReported`). After Skip all, read errors are retried for ever.
  `move_file_file` asks before `copy_file_file` looks at the target.
- `check_panel_timestamp` says that every archive is in use while a panel is not a listing
  (`src/filemanager/filemanager.c:475-487`): an archive left while the other side shows information,
  a tree or a file gets no stamp. The timer does not free it, until it is visited and left again
  or mc ends.
- `mc_chdir` stamps the directory it leaves (`interface.c:694`), so that a nested archive may be freed after
  the one it is in, against the comment in `gc.c:259` (`VfsStamps.NestedFirst`). With five archives, three
  NULL entries ahead of a stamp double it.
- `do_panelize_cd` brings a list with marks but leaves the counts as they were
  (`src/filemanager/panelize.c:382`; `panel.h:121` calls `marked` the "Count of marked files");
  `next_file` then looks for a mark beyond the end of the list. In the mode and owner
  dialogs, `need_update` is reset for each file, so that the panel is not updated if the next
  one is cancelled; a marked file that was deleted ends the loop. When a directory vanishes,
  its marks go by name to the parent. `reload_panelized` replaces a counted size of a directory.
- Diff viewer: "No" writes back a backup `FILE~~~` that it did not make in this session, for
  instance one left when mc was killed, or cut short by a full disk, also to a file that was
  not merged (`DiffView.Orphaned`); `fflush` and `fclose` of a backup are not looked at.
  A merge with both files empty reads the first of no rows. Lines longer than 10 kB count as
  several. The dialog calls Esc a "No".
- Hex mode: the commands for the next file drop changes unasked and leave the lock
  (`src/viewer/view-lib.c:218`); an error of close after a partial save is ignored.
- The cache of coordinates is kept when the hex mode has written bytes: `mcview_set_byte`
  (`src/viewer/datasource.c:267`) and `mcview_hexedit_save_changes` drop the data read, and only
  `mcview_done` (`src/viewer/view-lib.c:229`) drops the cache. Where line breaks or tabs were put in or taken out, the
  line numbers and columns shown are wrong until the file is closed (`CoordCache.rewritten`).
- The tree of a dialog removes all hooks with its function when it is destroyed, those of other
  trees included (`lib/hook.c`, `src/filemanager/tree.c`); the tree is not modelled.

With other processes:

- The parent keeps the writing ends of its pipes, so that it never reads an end of file of a
  child that died in the middle of a message: it hangs (`TaskBackground.Hung`), and the code for
  that case (`src/task-background.c:224`) is not reached. The list of jobs reads `tl->pid` of a task it has
  just freed (`src/filemanager/boxes.c:515-517`); the model kills the right process.
- Subshell: "INACTIVE: the default state; awaiting a command" (`subshell-common.c:118`) does not
  hold when the user typed ahead of the prompt (`Subshell.InactiveAwaitsAlways`), and neither when a
  line at the prompt comes in one read with bytes behind it: `subshell_ready` is reset only if the
  last byte is a line end (`subshell-common.c:882`). With the switch key behind the line
  (`subshell-common.c:859-877`), mc takes the shell for inactive while it runs the command.
- `feed_subshell` looks at `subshell_alive` (`subshell-common.c:756`) and then waits in `select` (771).
  A SIGCHLD between the two is slept through: mc keeps the slave of the pty and the writing end of
  the pipe open itself, so that no end of file comes, and a QUIETLY call does not watch the keyboard
  either (`Subshell.missed`).
- Console saver: if SIGCHLD comes while the saver is being waited for, `waitpid (0)` waits for any
  child; a write after its death raises SIGPIPE.

## 6. What is not modelled

Of the parts modelled:

- Editor: which bytes make a UTF-8 character; columns of a selection and their codes; syntax state; slow loading through a filter,
  which pushes on the redo stack; the reset of the display start by a Redo that finds it beyond
  the text; pipe filters, ownership, permissions and remote files in a save; saving while mc is
  shut down; a file that cannot be opened for reading and is therefore saved in quick mode. Times
  are compared by the second in the code; EditSave assumes no two writes within one second. The
  check for a final newline is one more dialog that can be cancelled. Links that are not of the
  form `user@host.pid`.
- FileOp: symbolic links and devices, the check for the same file, the dialogs of a single file,
  totals and progress, recursion, erasing by itself; refused chown and chmod.
- VfsStamps: file systems on `direntry.c`, a failing helper of extfs, failing opens.
- Panel: the root directory (where the list is empty while it is read, and the cursor -1),
  several columns, filters and hidden files, the unsorted order and other orders than by name,
  links, names given twice by an external panelize, history, the user menu.
- DiffView: a diff that fails or finds a file changed while it is read (the sides are then of
  different lengths), a file written by others between comparison and merge, the options that
  take different lines for equal, lines without a newline, searching and the marks within lines.
- TaskBackground: stop and resume, calls that return strings. Subshell: the start of the first
  shell, the one call of `feed_subshell` with a limit of ten seconds, output of the shell and a
  resized terminal, which wake `select`, fish and zsh. Viewer: the growing buffer, formatting,
  searching.

The other parts of the system are listed in `PROJECT.json` with reasons: parsers, formatters
and drawing are sequential functions without state; the remote file systems are clients of
servers outside the repository; the tree, hooks and the decoder of escape sequences are left
for lack of room, not because they could not be modelled.

## 7. The plan

The order is by what would be lost if it were wrong: the user's text first, then files, then
the session.

1. Done: all modules above; the proofs of section 4.
2. Left: hooks and the tree, the decoder of escape sequences, the connections of ftpfs, the growing
   buffer of the viewer, the cache of syntax rules, and focus in dialogs.

