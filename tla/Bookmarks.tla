----------------------------- MODULE Bookmarks ------------------------------
(***************************************************************************)
(* The bookmarks of an editor window (src/editor/bookmark.c): a list in    *)
(* the order of the lines, several marks of a line in the order they were  *)
(* set, entered at the node edit->book_mark, which is wherever the last    *)
(* search ended.  Marks move with the line breaks put in and taken out     *)
(* above them.                                                             *)
(***************************************************************************)
EXTENDS Integers, SequencesExt

CONSTANTS
  MaxLine,      \* bound: lines of a text
  MaxMarks      \* bound: bookmarks

ASSUME MarksAssumption == MaxLine \in Nat /\ MaxMarks \in Nat

VARIABLES
  book_mark,    \* [list, node]: the bookmarks and the node the window points to, 0
                \* without a list; a bookmark is a record [line, c, of, astray], `of'
                \* being the line it was set on, wherever that is now
  curs_line, last_line

bm_vars == <<book_mark, curs_line, last_line>>

Colors == {"BOOK_MARK_COLOR", "BOOK_MARK_FOUND_COLOR"}
Mark(l, color) == [line |-> l, c |-> color, of |-> l, astray |-> FALSE]

(* "must have an imaginary top bookmark at line -1"                         *)
Top == Mark(-1, "none")
NoMarks == [list |-> << >>, node |-> 0]

-----------------------------------------------------------------------------
(* The first node from the one pointed to, forwards or else backwards, that *)
(* is on or before the line while its successor, if there is one, is behind *)
(* it.  A way ends where it has "gone past it".  double_marks then finds no *)
(* further mark of the same line.                                           *)
book_mark_find(bm, line) ==
  LET list == bm.list
      n == Len(list)
      here(p) == list[p].line <= line /\ (p = n \/ list[p + 1].line > line)
      down == {p \in bm.node .. n : list[p].line > line \/ here(p)}
      up == {p \in 1 .. bm.node : here(p) \/ (p < n /\ list[p + 1].line <= line)}
  IN IF n = 0 THEN [list |-> <<Top>>, node |-> 1]
     ELSE [bm EXCEPT !.node = IF down # {} /\ here(Min(down)) THEN Min(down) ELSE Max(up)]

book_mark_query_color(bm, line, color) ==
  LET found == book_mark_find(bm, line)
  IN \E k \in 2 .. found.node : /\ bm.list[k].c = color
                                /\ \A j \in k .. found.node : bm.list[j].line = line

book_mark_insert(bm, line, color) ==
  LET found == book_mark_find(bm, line)
  IN [found EXCEPT !.list = InsertAt(@, found.node + 1, Mark(line, color))]

(* A window without bookmarks gets these, one after the other.              *)
Inserted(marks) ==
  LET bm[k \in 0 .. Len(marks)] ==
        IF k = 0 THEN NoMarks ELSE book_mark_insert(bm[k - 1], marks[k].line, marks[k].c)
  IN bm[Len(marks)]

(* "if there is only our dummy book mark left, clear it for speed"          *)
Cleared(bm) == IF Len(bm.list) = 1 /\ bm.node = 1 THEN NoMarks ELSE bm

(* The last one of that color and line goes, if there is one.               *)
book_mark_clear(bm, line, color) ==
  LET found == book_mark_find(bm, line)
      hits == {k \in 1 .. found.node : bm.list[k].line = line /\ bm.list[k].c = color}
  IN IF bm = NoMarks THEN bm
     ELSE IF hits = {} THEN Cleared(found)
     ELSE Cleared([list |-> RemoveAt(bm.list, Max(hits)), node |-> Max(hits) - 1])

(* Those of a list that are at some places.                                 *)
Only(list, places) ==
  FlattenSeq([k \in DOMAIN list |-> IF k \in places THEN <<list[k]>> ELSE << >>])

book_mark_flush(bm, colors) ==
  IF bm = NoMarks THEN bm
  ELSE Cleared([list |-> Only(bm.list, {k \in DOMAIN bm.list : bm.list[k].c \notin colors}),
                node |-> 1])

(* The bookmarks behind the one found for the cursor's line are moved by d, *)
(* while the lines move from the line `first' on.  A mark is astray when it *)
(* stays where its line does not.                                           *)
MovedBehind(bm, p, d, first) ==
  [bm EXCEPT !.list =
     [k \in 1 .. Len(bm.list) |->
        LET m == bm.list[k]
        IN [m EXCEPT !.line = IF k > p THEN @ + d ELSE @,
                     !.of = IF m.of >= first THEN @ + d ELSE @,
                     !.astray = @ \/ (d = -1 /\ m.line = curs_line /\ m.of >= first)]]]

\* Mutant: the bookmark found is moved as well.
ShiftFound(d, first) ==
  LET found == book_mark_find(book_mark, curs_line)
  IN book_mark' = IF book_mark = NoMarks THEN NoMarks
                  ELSE MovedBehind(found, found.node - 1, d, first)

Shift(d, first) ==
  LET found == book_mark_find(book_mark, curs_line)
  IN book_mark' = IF book_mark = NoMarks THEN NoMarks
                  ELSE MovedBehind(found, found.node, d, first)

-----------------------------------------------------------------------------
(* A newline put in and taken out before and behind the cursor: book_mark_  *)
(* inc and _dec of curs_line, before that changes.                          *)
bm_insert ==
  /\ last_line < MaxLine /\ Shift(1, curs_line + 1)
  /\ curs_line' = curs_line + 1 /\ last_line' = last_line + 1

bm_insert_ahead ==
  /\ last_line < MaxLine /\ Shift(1, curs_line + 1)
  /\ last_line' = last_line + 1 /\ UNCHANGED curs_line

bm_delete ==
  /\ curs_line < last_line /\ Shift(-1, curs_line + 1)
  /\ last_line' = last_line - 1 /\ UNCHANGED curs_line

(* The line that moves up is the cursor's own, its bookmarks do not.        *)
bm_backspace ==
  /\ curs_line > 0 /\ Shift(-1, curs_line)
  /\ curs_line' = curs_line - 1 /\ last_line' = last_line - 1

bm_cursor_move == curs_line' \in 0 .. last_line /\ UNCHANGED <<book_mark, last_line>>

-----------------------------------------------------------------------------
Commanded(bm) == book_mark' = bm /\ UNCHANGED last_line

(* First the mark a search has left goes, then one is set or taken away.    *)
CK_Bookmark ==
  LET bm == book_mark_clear(book_mark, curs_line, "BOOK_MARK_FOUND_COLOR")
  IN /\ Len(book_mark.list) <= MaxMarks
     /\ Commanded(IF book_mark_query_color(bm, curs_line, "BOOK_MARK_COLOR")
                  THEN book_mark_clear(book_mark_find(bm, curs_line), curs_line, "BOOK_MARK_COLOR")
                  ELSE book_mark_insert(bm, curs_line, "BOOK_MARK_COLOR"))
     /\ UNCHANGED curs_line

CK_BookmarkFlush ==
  /\ Commanded(book_mark_flush(book_mark_flush(book_mark, {"BOOK_MARK_COLOR"}),
                               {"BOOK_MARK_FOUND_COLOR"}))
  /\ UNCHANGED curs_line

(* The cursor goes to the next bookmark, or to the last one before, as far  *)
(* as the text has that line.                                               *)
Visits(bm, p) ==
  curs_line' = IF p <= Len(bm.list) /\ bm.list[p].line >= 0
               THEN Min({bm.list[p].line, last_line}) ELSE curs_line

CK_BookmarkNext ==
  LET found == book_mark_find(book_mark, curs_line)
  IN book_mark # NoMarks /\ Commanded(found) /\ Visits(found, found.node + 1)

CK_BookmarkPrev ==
  LET found == book_mark_find(book_mark, curs_line)
      before == {k \in 1 .. found.node : found.list[k].line # curs_line}
  IN book_mark # NoMarks /\ Commanded(found) /\ Visits(found, Max(before))

(* A search that sets bookmarks flushes those there are.                    *)
bm_do_search ==
  \E n \in 1 .. MaxMarks : \E lines \in [1 .. n -> 0 .. last_line] :
    /\ \A k \in 2 .. n : lines[k - 1] < lines[k]
    /\ Commanded(Inserted([k \in 1 .. n |-> Mark(lines[k], "BOOK_MARK_FOUND_COLOR")]))
    /\ \E k \in 1 .. n : curs_line' = lines[k]

(* The window is closed (book_mark_serialize) and the file loaded again     *)
(* (book_mark_restore).                                                     *)
Serialized(bm) ==
  LET found == book_mark_find(bm, 0)
      list == found.list
  IN Only(list, {k \in found.node .. Len(list) : list[k].c = "BOOK_MARK_COLOR" /\ list[k].line >= 0})

bm_save_and_load_position ==
  /\ book_mark # NoMarks
  /\ Commanded(Inserted(Serialized(book_mark)))
  /\ curs_line' \in 0 .. last_line

-----------------------------------------------------------------------------
BmInit == book_mark = NoMarks /\ curs_line = 0 /\ last_line = MaxLine

BmNext ==
  \/ bm_insert \/ bm_insert_ahead \/ bm_delete \/ bm_backspace \/ bm_cursor_move
  \/ CK_Bookmark \/ CK_BookmarkFlush \/ CK_BookmarkNext \/ CK_BookmarkPrev
  \/ bm_do_search \/ bm_save_and_load_position

BmSpec == BmInit /\ [][BmNext]_bm_vars

-----------------------------------------------------------------------------
(* The list stays in order, so that the node found does not depend on where *)
(* the search begins, and every bookmark is on the line it was set on,      *)
(* however many line breaks came and went: but for those of a line that was *)
(* joined to the one before it by a backspace.                              *)
MarksFollow ==
  /\ book_mark.node \in 0 .. Len(book_mark.list)
  /\ book_mark.node = 0 <=> book_mark.list = << >>
  /\ \A k \in 2 .. Len(book_mark.list) :
       LET m == book_mark.list[k]
       IN book_mark.list[k - 1].line <= m.line /\ (m.astray \/ m.line = m.of)
=============================================================================
