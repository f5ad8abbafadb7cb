------------------------------ MODULE DiffView ------------------------------
(***************************************************************************)
(* The diff viewer (src/diffviewer/ydiff.c).  The output of diff is turned *)
(* into two lists of rows that stand side by side; the difference at the   *)
(* first row shown can be merged into either file, which is rewritten at   *)
(* once.  A backup made before the first merge is what "No" on the way out *)
(* goes back to; to save is to remove it.                                  *)
(***************************************************************************)
EXTENDS Integers, FiniteSetsExt, SequencesExt

CONSTANTS
  LineValues,     \* what a line can hold
  MaxLines,       \* bound: lines of both files at first
  NoBackup,       \* not a text
  MaxMerges,      \* bound: merges and edits
  MaxSessions,    \* bound: times the viewer is started
  MaxFailures     \* bound: files that cannot be written

ASSUME NoBackupAssumption == NoBackup \notin Seq(LineValues)
ASSUME DiffBoundsAssumption == {MaxLines, MaxMerges, MaxSessions, MaxFailures} \subseteq Nat

VARIABLES
  compared,       \* the files on disk, DIFF_LEFT and DIFF_RIGHT
  backups,        \* the files of the same names with "~~~" added
  merged,         \* dview->merged
  rows,           \* dview->a
  skip_rows,      \* the first row shown, counted from 0
  viewing,        \* the viewer is on the screen
  did,            \* the last step that writes files, and which of them
  before,         \* the files that were merged, before the first merge
  torn,           \* files written short, themselves or in their backup
  counts          \* of what is bounded

dv_vars ==
  <<compared, backups, merged, rows, skip_rows, viewing, did, before, torn, counts>>

Sides == {1, 2}
Opposite(s) == 3 - s

-----------------------------------------------------------------------------
(* Some places of a text, first to last, and the lines there.               *)
InOrder(text, places) ==
  LET upto[k \in 0..Len(text)] ==
        IF k = 0 THEN << >>
        ELSE IF k \in places THEN Append(upto[k - 1], k) ELSE upto[k - 1]
  IN  upto[Len(text)]
Lines(text, at) == [i \in DOMAIN at |-> text[at[i]]]

(* diff finds as many lines as it can that both files have, in one order,   *)
(* and names what lies in between: lines old[1] to old[2] of the left file  *)
(* (the line in front of them if there is none, for "a"), and likewise of   *)
(* the right one.                                                           *)
Common(l, r, k) ==
  {m \in {InOrder(l, I) : I \in kSubset(k, DOMAIN l)}
          \X {InOrder(r, J) : J \in kSubset(k, DOMAIN r)} : Lines(l, m[1]) = Lines(r, m[2])}
Longest(l, r) ==
  Common(l, r, Max({k \in 0..Min({Len(l), Len(r)}) : Common(l, r, k) # {}}))

DiffCmd(a, b) ==
  LET none == [s \in Sides |-> b[s] = a[s] + 1]
  IN  [cmd |-> IF none[1] THEN "a" ELSE IF none[2] THEN "d" ELSE "c",
       a |-> [s \in Sides |-> IF none[s] THEN <<a[s], a[s]>> ELSE <<a[s] + 1, b[s] - 1>>]]

Ends(m, l, r) ==
  <<<<0, 0>>>> \o [i \in DOMAIN m[1] |-> <<m[1][i], m[2][i]>>] \o <<<<Len(l) + 1, Len(r) + 1>>>>

Script(m, l, r) ==
  LET ends == Ends(m, l, r)
      upto[k \in 0..Len(ends) - 1] ==
        IF k = 0 THEN << >>
        ELSE IF ends[k + 1] = <<ends[k][1] + 1, ends[k][2] + 1>> THEN upto[k - 1]
        ELSE Append(upto[k - 1], DiffCmd(ends[k], ends[k + 1]))
  IN  upto[Len(ends) - 1]

-----------------------------------------------------------------------------
(* Rows: the line they show, or none, and how it differs.                   *)
Numbered(ch, from, to) == [i \in 1..(to - from) |-> [ch |-> ch, line |-> from + i]]
Blank(ch, n) == [i \in 1..n |-> [ch |-> ch, line |-> 0]]
Greatest(m, n) == IF m > n THEN m ELSE n

\* Mutant: for the right file as for the left one.
AddCmd_left(ord) == "a"
AddCmd(ord) == IF ord = 1 THEN "a" ELSE "d"

(* One turn of the loop of dff_reparse: the lines up to a command, and its  *)
(* own.  For the right file, additions and deletions change places.         *)
Printed(ord, st, op) ==
  LET own == op.a[ord]
      other == op.a[Opposite(ord)]
      n == IF op.cmd = AddCmd(ord) THEN own[1] ELSE own[1] - 1
      equal == st.rows \o Numbered("EQU", st.line, n)
  IN  IF op.cmd = AddCmd(ord)
        THEN [line |-> n, rows |-> equal \o Blank("DEL", other[2] - other[1] + 1)]
      ELSE IF op.cmd = "c"
        THEN [line |-> own[2],
              rows |-> equal \o Numbered("CHG", n, own[2])
                         \o Blank("CHG", Greatest(0, other[2] - other[1] - (own[2] - own[1])))]
        ELSE [line |-> own[2], rows |-> equal \o Numbered("ADD", n, own[2])]

Parsed(ord, ops) ==
  LET turn[k \in 0..Len(ops)] ==
        IF k = 0 THEN [line |-> 0, rows |-> << >>] ELSE Printed(ord, turn[k - 1], ops[k])
  IN  turn[Len(ops)]

dff_reparse(ord, text, ops) ==
  Parsed(ord, ops).rows \o Numbered("EQU", Parsed(ord, ops).line, Len(text))

(* dview_update keeps the first row shown among the rows there are.         *)
Shown(k, rs) == Greatest(0, IF k > Len(rs[1]) - 1 THEN Len(rs[1]) - 1 ELSE k)

(* dview_redo and dview_update, with the files as they are now.             *)
Redone(files, row) ==
  \E m \in Longest(files[1], files[2]) :
    /\ rows' = [s \in Sides |-> dff_reparse(s, files[s], Script(m, files[1], files[2]))]
    /\ skip_rows' = Shown(row, rows')

-----------------------------------------------------------------------------
(* Where the hunk at the first row shown is, by the rows of both sides.     *)
LastRow == Len(rows[1]) - 1
Row(s, k) == rows[s][k + 1]
Differs(k) == Row(1, k).ch # "EQU"

HunkStart ==
  LET equal == {k \in 1..skip_rows : ~Differs(k)}
  IN  IF equal = {} THEN [s \in Sides |-> 1]
      ELSE [s \in Sides |-> Row(s, Max(equal)).line + 1]

HunkEnd ==
  LET run == {k \in skip_rows..LastRow : \A j \in skip_rows..k : Differs(j)}
      lines(s) == {Row(s, k).line : k \in run} \ {0}
  IN  [s \in Sides |-> IF lines(s) = {} THEN 1 ELSE Greatest(HunkStart[s], Max(lines(s)))]

(* A file as it is read in a loop, line by line: the lines written on.      *)
Written(text, places) == Lines(text, InOrder(text, places))

(* The first loop of each reads one line more than it writes, which the     *)
(* others do not see, nor count.                                            *)
Counted(k) == k - 1

\* Mutant: the last line of a hunk is left out as dview_replace_hunk does it.
KeepsLine_after(k, from1, to1) == k < from1 \/ (k > from1 /\ Counted(k) > to1)
KeepsLine(k, from1, to1) == k < from1 \/ (k > from1 /\ Counted(k) >= to1)

dview_remove_hunk(t) ==
  Written(compared[t], {k \in DOMAIN compared[t] : KeepsLine(k, HunkStart[t], HunkEnd[t])})

HunkAndNext(s) ==
  Written(compared[s], HunkStart[s]..HunkEnd[s] + 1)

dview_add_hunk(t) ==
  Written(compared[t], 1..HunkStart[t] - 1) \o HunkAndNext(Opposite(t))
    \o Written(compared[t], HunkStart[t] + 1..Len(compared[t]))

dview_replace_hunk(t) ==
  Written(compared[t], 1..HunkStart[t] - 1) \o HunkAndNext(Opposite(t))
    \o Written(compared[t], {k \in HunkStart[t] + 1..Len(compared[t]) : Counted(k) > HunkEnd[t]})

(* What do_merge_hunk writes to file t, by the character of the left row.   *)
MergeText(t) ==
  LET ch == Row(1, skip_rows).ch
  IN  IF ch = "CHG" THEN dview_replace_hunk(t)
      ELSE IF ch = (IF t = 1 THEN "ADD" ELSE "DEL") THEN dview_remove_hunk(t)
      ELSE dview_add_hunk(t)

-----------------------------------------------------------------------------
(* A file is written whole, not at all, or cut short when the disk is full, *)
(* which may go unnoticed: results of fflush and fclose are dropped.        *)
Outcomes == {"whole", "not opened", "cut", "cut unseen"}
Fails(how) == IF how = "whole" THEN 0 ELSE 1
CutShort(how) == how \in {"cut", "cut unseen"}
OnDisk(how, new, old) ==
  IF how = "whole" THEN new ELSE IF CutShort(how) THEN << >> ELSE old
Reported(how) == how \in {"whole", "cut unseen"}

Failures(n) == counts.failures + n <= MaxFailures
Count(merges, failures) ==
  counts' = [counts EXCEPT !.merges = @ + merges, !.failures = @ + failures]

(* No backup, and so no merge; dview_redo follows all the same.             *)
merge_refused(t) ==
  \E how \in {"not opened", "cut"} :
    /\ viewing /\ rows[1] # << >> /\ Differs(skip_rows) /\ ~merged[t]
    /\ Failures(1) /\ Count(0, 1)
    /\ backups' = [backups EXCEPT ![t] = OnDisk(how, compared[t], @)]
    /\ torn' = torn \union (IF CutShort(how) THEN {t} ELSE {})
    /\ Redone(compared, skip_rows) /\ did' = <<"refused", t>>
    /\ UNCHANGED <<compared, merged, viewing, before>>

(* saved: how the backup is written; how: the file.  The temporary file     *)
(* with the merged text may fail as well, before the file is touched.       *)
BackupMade(t, saved) ==
  IF merged[t] THEN backups ELSE [backups EXCEPT ![t] = OnDisk(saved, compared[t], @)]

do_merge_hunk(t) ==
  \E saved \in {"whole", "cut unseen"}, how \in Outcomes \ {"cut unseen"} :
    /\ viewing /\ rows[1] # << >> /\ Differs(skip_rows)
    /\ merged[t] => saved = "whole"
    /\ counts.merges < MaxMerges
    /\ Failures(Fails(saved) + Fails(how)) /\ Count(1, Fails(saved) + Fails(how))
    /\ backups' = BackupMade(t, saved)
    /\ merged' = [merged EXCEPT ![t] = TRUE]
    /\ before' = IF merged[t] THEN before ELSE [before EXCEPT ![t] = compared[t]]
    /\ compared' = [compared EXCEPT ![t] = OnDisk(how, MergeText(t), @)]
    /\ torn' = torn \union (IF CutShort(saved) \/ CutShort(how) THEN {t} ELSE {})
    /\ Redone(compared', skip_rows)
    /\ did' = <<IF how = "whole" THEN "merged" ELSE "refused", t>>
    /\ UNCHANGED viewing

(* dview_edit: the editor is shown, and may save.  Here a line is removed   *)
(* or one added at the end.                                                 *)
Edited(text) ==
  {RemoveAt(text, k) : k \in DOMAIN text} \union {Append(text, v) : v \in LineValues}

dview_edit(s) ==
  /\ viewing /\ counts.merges < MaxMerges /\ Count(1, 0)
  /\ \E text \in Edited(compared[s]) : compared' = [compared EXCEPT ![s] = text]
  /\ Redone(compared', skip_rows) /\ did' = <<"edited", s>>
  /\ UNCHANGED <<backups, merged, viewing, before, torn>>

-----------------------------------------------------------------------------
(* Moving about.                                                            *)
Move(row) ==
  /\ viewing /\ skip_rows' = Shown(row, rows) /\ did' = <<"moved", 0>>
  /\ UNCHANGED <<compared, backups, merged, rows, viewing, before, torn, counts>>

Differing == {j \in 0..LastRow : Differs(j)}
Equal == (0..LastRow) \ Differing

(* The first of these rows at k or behind, or the end.                      *)
FirstFrom(k, S) == Min({j \in S : j >= k} \union {LastRow + 1})

(* The last of these rows up to k, or the first one.                        *)
LastUpTo(k, S) == Max({j \in S : j <= k} \union {0})

find_next_hunk(k) == FirstFrom(FirstFrom(k, Equal), Differing)

find_prev_hunk(k) ==
  LET behind == LastUpTo(LastUpTo(LastUpTo(k, Equal), Differing), Equal)
  IN  IF behind > 0 THEN behind + 1 ELSE behind

HunkNext == rows[1] # << >> /\ Move(find_next_hunk(skip_rows))
HunkPrev == rows[1] # << >> /\ Move(find_prev_hunk(skip_rows))
Up == skip_rows > 0 /\ Move(skip_rows - 1)
Down == Move(skip_rows + 1)

(* Lines of the right file; the first row for 0, the last for one too many. *)
dview_goto_cmd(n) ==
  Move(IF n = 0 THEN 0 ELSE FirstFrom(0, {j \in 0..LastRow : Row(2, j).line = n}))

-----------------------------------------------------------------------------
(* dview_save.                                                              *)
Without(Of) == [s \in Sides |-> IF s \in Of THEN NoBackup ELSE backups[s]]
Merged == {s \in Sides : merged[s]}
Unmerged == [s \in Sides |-> FALSE]
NoneBefore == [s \in Sides |-> NoBackup]
NoRows == [s \in Sides |-> << >>]
Left == merged' = Unmerged /\ before' = NoneBefore /\ rows' = NoRows /\ skip_rows' = 0

dview_save ==
  /\ viewing /\ Merged # {} /\ backups' = Without(Merged) /\ did' = <<"saved", 0>>
  /\ \/ /\ merged' = Unmerged /\ before' = NoneBefore
        /\ UNCHANGED <<rows, skip_rows, viewing>>
     \/ viewing' = FALSE /\ Left        \* by Yes on the way out
  /\ UNCHANGED <<compared, torn, counts>>

(* No on the way out, or Esc, which is No: whatever backup there is of each *)
(* file is written back, and removed if that is reported to be done.        *)
HasBackup == {s \in Sides : backups[s] # NoBackup}

dview_restore ==
  \E how \in [Sides -> Outcomes] :
    LET failed == Quantify(Sides, LAMBDA s : how[s] # "whole")
    IN  /\ viewing /\ Merged # {} /\ viewing' = FALSE
        /\ \A s \in Sides \ HasBackup : how[s] = "whole"
        /\ Failures(failed) /\ Count(0, failed)
        /\ compared' = [s \in Sides |->
             IF s \in HasBackup THEN OnDisk(how[s], backups[s], compared[s]) ELSE compared[s]]
        /\ torn' = torn \union {s \in Sides : how[s] # "whole"}
        /\ backups' = Without({s \in HasBackup : Reported(how[s])})
        /\ did' = <<"restored", 0>>
        /\ Left

(* It leaves without a question, or mc is killed, or crashes: as it does    *)
(* when a merge is asked for and there are no rows.                         *)
dview_ends ==
  /\ viewing /\ viewing' = FALSE /\ did' = <<"ended", 0>> /\ Left
  /\ UNCHANGED <<compared, backups, torn, counts>>

dview_init ==
  /\ ~viewing /\ viewing' = TRUE /\ counts.sessions < MaxSessions
  /\ counts' = [counts EXCEPT !.sessions = @ + 1]
  /\ did' = <<"started", 0>> /\ Redone(compared, 0)
  /\ UNCHANGED <<compared, backups, merged, before, torn>>

-----------------------------------------------------------------------------
(* Before the viewer is started for the first time.                         *)
DvInit ==
  /\ compared \in [Sides -> BoundedSeq(LineValues, MaxLines)]
  /\ Len(compared[1]) + Len(compared[2]) <= MaxLines
  /\ backups = NoneBefore /\ merged = Unmerged /\ before = NoneBefore
  /\ rows = NoRows /\ skip_rows = 0 /\ viewing = FALSE /\ did = <<"none", 0>> /\ torn = {}
  /\ counts = [merges |-> 0, sessions |-> 0, failures |-> 0]

DvNext ==
  \/ \E s \in Sides : merge_refused(s) \/ do_merge_hunk(s) \/ dview_edit(s)
  \/ HunkNext \/ HunkPrev \/ Up \/ Down
  \/ \E n \in 0..(Len(compared[2]) + 1) : dview_goto_cmd(n)
  \/ dview_save \/ dview_restore \/ dview_ends \/ dview_init

DvSpec == DvInit /\ [][DvNext]_dv_vars

-----------------------------------------------------------------------------
(* The rows show each file whole and in order, both sides are as long, and  *)
(* rows said to be equal are; the first row shown is one of them.           *)
LinesOf(s) ==
  Lines([k \in DOMAIN rows[s] |-> rows[s][k].line],
        InOrder(rows[s], {k \in DOMAIN rows[s] : rows[s][k].line # 0}))

RowsTrue ==
  viewing =>
    /\ Len(rows[1]) = Len(rows[2])
    /\ \A s \in Sides : LinesOf(s) = [i \in DOMAIN compared[s] |-> i]
    /\ \A k \in 0..LastRow : Differs(k) \/ compared[1][Row(1, k).line] = compared[2][Row(2, k).line]
    /\ skip_rows \in 0..Greatest(0, LastRow)

(* The hunk at the first row shown, and file t with the other one's rows in *)
(* place of its own there.                                                  *)
InHunk(k) == \A j \in 0..LastRow : j \in k..skip_rows \/ j \in skip_rows..k => Differs(j)

WithHunk(t) ==
  FlattenSeq([i \in DOMAIN rows[t] |->
    LET s == IF InHunk(i - 1) THEN Opposite(t) ELSE t
        n == rows[s][i].line
    IN  IF n = 0 THEN << >> ELSE <<compared[s][n]>>])

(* mc.1 on F5: "Merge the current hunk.  Only the current hunk will be      *)
(* merged."                                                                 *)
OnlyCurrentHunk ==
  [][\A t \in Sides : did' = <<"merged", t>> => compared'[t] = WithHunk(t)]_dv_vars

(* Two cases go wrong: the hunk is only in the file it is removed from, and *)
(* the one row before it is taken for a part of it; and the first row shown *)
(* is a later one of a hunk than one of the files has lines for.            *)
BehindFirst == Row(1, 0).ch = "EQU" /\ \A k \in 1..skip_rows : Differs(k)
PastLines(s) == Row(1, skip_rows).ch = "CHG" /\ Row(s, skip_rows).line = 0

(* Whatever is merged, edited, saved, given up or interrupted, and in which *)
(* order: a merge makes the hunk, and nothing else, of one file that of the *)
(* other one; "No" brings back what there was before the first merge, also  *)
(* of both files, and leaves a file that was not merged alone; other steps  *)
(* write to no file.  But for files cut short, and for a backup left behind *)
(* by an earlier session, which "No" takes for one of its own.              *)
Orphaned(s) == ~merged[s] /\ backups[s] # NoBackup

OnlyAsAsked ==
  [][\A t \in Sides \ torn' :
       CASE did' = <<"edited", t>> -> TRUE
         [] did' = <<"merged", t>> ->
              BehindFirst \/ (\E s \in Sides : PastLines(s)) \/ compared'[t] = WithHunk(t)
         [] did' = <<"restored", 0>> ->
              Orphaned(t) \/ compared'[t] = IF merged[t] THEN before[t] ELSE compared[t]
         [] OTHER -> compared'[t] = compared[t]]_dv_vars
=============================================================================
