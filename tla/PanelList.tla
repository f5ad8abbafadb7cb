----------------------------- MODULE PanelList -----------------------------
(***************************************************************************)
(* The list of files of a panel (src/filemanager/panel.c and fman-dir.c):  *)
(* a record with the list, the counts of what is marked, the cursor and    *)
(* the part that is shown, and the operators that change it.  Entries are  *)
(* indexed from 1, the cursor from 0 as in the code.  There is one column, *)
(* and the panel is not at the root, so that ".." is its first entry.      *)
(***************************************************************************)
EXTENDS Integers, SequencesExt

CONSTANTS
  Names,     \* names of files, as numbers: their order is that of the names
  Dirs       \* those that are directories

ASSUME NamesAssumption ==
  Names \in SUBSET (Nat \ {0}) /\ IsFiniteSet(Names) /\ Dirs \in SUBSET Names

DotDot == 0
NoName == -1
FileSize == 1      \* st_size of any file, and of a directory before its
TreeSize == 3      \* contents are counted; and then

FileEntry(n, alive) ==
  [name |-> n, dir |-> n \in Dirs /\ alive, size |-> IF alive THEN FileSize ELSE 0,
   computed |-> FALSE, marked |-> FALSE]

dir_list_init == <<[FileEntry(DotDot, TRUE) EXCEPT !.dir = TRUE]>>

MarkedNames(q) == {e.name : e \in {e \in Range(q.list) : e.marked}}
Listed(q) == {e.name : e \in Range(q.list)}
Cursor(q) == q.list[q.selected + 1].name

-----------------------------------------------------------------------------
(* Marks.                                                                  *)
Weight(e) == IF e.dir /\ ~e.computed THEN 0 ELSE e.size

do_file_mark(q, i, mark) ==
  LET e == q.list[i]
      sign == IF mark THEN 1 ELSE -1
  IN IF e.marked = mark \/ e.name = DotDot THEN q
     ELSE [q EXCEPT !.list[i].marked = mark, !.marked = @ + sign,
                    !.dirs_marked = IF e.dir THEN @ + sign ELSE @,
                    !.total = @ + sign * Weight(e)]

(* A loop over the list: entry i gets the mark marks[i], where there is one.  *)
MarkEach(q, marks) ==
  LET after[i \in 0..Len(q.list)] ==
        IF i = 0 THEN q
        ELSE IF i \in DOMAIN marks THEN do_file_mark(after[i - 1], i, marks[i])
        ELSE after[i - 1]
  IN after[Len(q.list)]

MarkAll(q, S, mark) == MarkEach(q, [i \in S |-> mark])

(* file_mark for every entry, and no mark counted.                         *)
Unmarked(q) ==
  [q EXCEPT !.list = [i \in DOMAIN @ |-> [@[i] EXCEPT !.marked = FALSE]],
            !.marked = 0, !.dirs_marked = 0, !.total = 0]

unmark_files(q) == IF q.marked = 0 THEN q ELSE Unmarked(q)

recalculate_panel_summary(q) ==
  MarkAll([Unmarked(q) EXCEPT !.stale = FALSE],
          {i \in DOMAIN q.list : q.list[i].marked}, TRUE)

panel_select_invert_files(q, files_only) ==
  MarkEach(q, [i \in {i \in DOMAIN q.list : ~(files_only /\ q.list[i].dir)} |->
                 ~q.list[i].marked])

-----------------------------------------------------------------------------
(* The cursor and the first file shown.                                    *)
Lesser(a, b) == IF a < b THEN a ELSE b
Greater(a, b) == IF a > b THEN a ELSE b

\* Mutant: the end of the list is not looked at.
adjust_top_file_end(q) ==
  LET low == Greater(Greater(q.top_file, 0), q.selected - q.items + 1)
  IN [q EXCEPT !.top_file = IF Len(q.list) <= q.items THEN 0
                            ELSE Lesser(low, q.selected)]

adjust_top_file(q) ==
  LET len == Len(q.list)
      selected == IF q.selected > len - 1 THEN len - 1 ELSE Greater(q.selected, 0)
      low == Greater(Greater(q.top_file, 0), selected - q.items + 1)
  IN [q EXCEPT !.selected = selected,
               !.top_file = IF len <= q.items THEN 0
                            ELSE Lesser(Lesser(low, len - q.items), selected)]

select_item(q) == adjust_top_file(q)

(* With scroll_pages or scroll_center more is scrolled than is needed.     *)
move_down(q, scroll) ==
  LET down == q.selected + 1
      top == CASE scroll = "pages" /\ down - q.top_file = q.items ->
                    Lesser(q.top_file + q.items \div 2, Len(q.list) - q.items)
               [] scroll = "center" /\ down - q.top_file > q.items \div 2 ->
                    Lesser(q.top_file + 1, Len(q.list) - q.items)
               [] OTHER -> q.top_file
  IN IF down = Len(q.list) THEN q
     ELSE select_item([q EXCEPT !.selected = down, !.top_file = top])

move_up(q, scroll) ==
  LET up == q.selected - 1
      top == CASE scroll = "pages" /\ up < q.top_file ->
                    Greater(q.top_file - q.items \div 2, 0)
               [] scroll = "center" /\ up - q.top_file < q.items \div 2 ->
                    Greater(q.top_file - 1, 0)
               [] OTHER -> q.top_file
  IN IF q.selected = 0 THEN q
     ELSE select_item([q EXCEPT !.selected = up, !.top_file = top])

prev_page(q) ==
  LET items == Lesser(q.items, q.top_file)
  IN IF q.selected = 0 /\ q.top_file = 0 THEN q
     ELSE select_item([q EXCEPT !.selected = IF items = 0 THEN 0 ELSE @ - items,
                                !.top_file = @ - items])

next_page(q) ==
  LET len == Len(q.list)
      most == IF q.top_file > len - 2 * q.items THEN len - q.items - q.top_file
              ELSE q.items
      items == Greater(most, -q.top_file)
  IN IF q.selected = len - 1 THEN q
     ELSE select_item([q EXCEPT !.selected = IF items = 0 THEN len - 1 ELSE @ + items,
                                !.top_file = @ + items])

(* A click, a quick search, goto_top_file and its like, Home and End: the  *)
(* cursor goes to some place, which may be beyond the end of a short list. *)
Targets(q) == 0..(Len(q.list) - 1) \cup q.top_file..(q.top_file + q.items - 1)
go_to(q, i) == select_item([q EXCEPT !.selected = i])

(* The entry under the cursor, n times with a move behind it, then once.   *)
Marking(q, n, to, scroll, mark) ==
  LET here(r) == do_file_mark(r, r.selected + 1, mark)
      step(r) == IF to = "right" THEN move_down(here(r), scroll)
                 ELSE move_up(here(r), scroll)
      after[k \in 0..n] == IF k = 0 THEN q ELSE step(after[k - 1])
  IN here(after[n])

mark_file_right(q, scroll, mark) ==
  Marking(q, Lesser(q.items, Len(q.list) - q.selected - 1), "right", scroll, mark)

mark_file_left(q, scroll, mark) ==
  Marking(q, Lesser(q.items, q.selected + 1), "left", scroll, mark)

do_select(q, i) ==
  IF i = q.selected THEN q
  ELSE [q EXCEPT !.selected = i, !.top_file = Greater(i - (q.items + 1) \div 2, 0)]

IndexOf(q, n) == (CHOOSE i \in DOMAIN q.list : q.list[i].name = n) - 1

\* Mutant: the cursor stays where it is in the list.
do_try_to_select_place(q, n) ==
  IF q.selected >= Len(q.list) THEN do_select(q, Len(q.list) - 1) ELSE q

(* Past the last entry the cursor goes to it, when the name is not found.  *)
do_try_to_select(q, n) ==
  CASE n = NoName -> do_select(q, 0)
    [] n \in Listed(q) -> do_select(q, IndexOf(q, n))
    [] OTHER -> IF q.selected >= Len(q.list) THEN do_select(q, Len(q.list) - 1) ELSE q

try_to_select(q, n) == select_item(do_try_to_select(q, n))

(* ".." stays first whatever the order.                                    *)
Precedes(q, a, b) ==
  a # b /\ b # DotDot /\ (a = DotDot \/ IF q.reverse THEN a > b ELSE a < b)

(* Each entry comes behind those that precede it.                          *)
dir_list_sort(q) ==
  LET before(i) == {j \in DOMAIN q.list : Precedes(q, q.list[j].name, q.list[i].name)}
      from == [k \in DOMAIN q.list |->
                 CHOOSE i \in DOMAIN q.list : Cardinality(before(i)) = k - 1]
  IN [q EXCEPT !.list = [k \in DOMAIN @ |-> @[from[k]]]]

panel_re_sort(q) ==
  LET sorted == dir_list_sort(q)
      at == IndexOf(sorted, Cursor(q))
  IN select_item([sorted EXCEPT !.selected = at, !.top_file = at - q.items \div 2])

panel_clean_dir(q) ==
  [q EXCEPT !.list = << >>, !.marked = 0, !.dirs_marked = 0, !.total = 0,
            !.selected = 0, !.top_file = 0, !.is_panelized = FALSE, !.stale = FALSE]
=============================================================================
