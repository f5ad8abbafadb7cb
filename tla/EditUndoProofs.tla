--------------------------- MODULE EditUndoProofs ---------------------------
(***************************************************************************)
(* That Undo restores what it should, and that the line counts are right,  *)
(* for every text, stack size, margin, run length and number of commands.  *)
(*                                                                         *)
(* The invariant says that the undo stack is a way back: there is a trail  *)
(* of views, one for every code and every repetition counted, from the     *)
(* text as it is to the text the oldest code leads to, and where a key     *)
(* press stands, the view is what was there when the key was pressed.      *)
(* Forgetting cuts the trail at its far end, a push adds to its near end,  *)
(* a pop goes one view along it.  Of the selection a view holds the pairs  *)
(* of markers with which every key further on finds its selection again:   *)
(* all pairs, once the markers themselves are on the stack.                *)
(* The redo stack is a way forward in the same sense, without markers, as  *)
(* long as no Redo meets a code it skips and no mouse press comes in; one  *)
(* stack by itself comes last.                                             *)
(***************************************************************************)
EXTENDS EditUndo, UndoStackSpec, FiniteSetTheorems, FunctionTheorems, SequenceTheorems, TLAPS

(* What is on the stacks: the codes pushed, and the counts Pushed adds; a   *)
(* key press code with what its key saw.                                    *)
Texts == UNION {TextsOfSize(n) : n \in Nat}
Sights == [text : Texts, cursor : Nat, mark1 : Int, mark2 : Int]

Recorded ==
  {Code(op, 0) : op \in {"CURS_LEFT", "CURS_RIGHT", "BACKSPACE", "BACKSPACE_BR",
                         "DELCHAR", "DELCHAR_BR"}}
  \cup {Code(op, c) : op \in {"AHEAD", "INSERT"}, c \in Byte}
  \cup {Code(op, n) : op \in {"MARK_1", "MARK_2", "MARK_CURS"}, n \in Int}
  \cup {KEY_PRESS(n) : n \in Nat}

Cells == [code : Recorded \cup {COUNT(n) : n \in Int}, seen : Sights \cup {<< >>}]
Stacks == [cells : Seq(Cells), size : Nat, lost : BOOLEAN]

(* The oldest code is a key press; a count follows a code that is neither a *)
(* key press nor a count.                                                   *)
Counted(cells) ==
  /\ cells # << >> => IsKey(cells[1].code)
  /\ \A k \in 1 .. Len(cells) :
       cells[k].code.op = "COUNT" =>
         /\ k > 1 /\ cells[k].code.arg <= -2
         /\ cells[k - 1].code.op \notin {"COUNT", "KEY_PRESS"}

StackOK(st) == st \in Stacks /\ Counted(st.cells)

(* What the operands of recorded codes are.                                *)
LEMMA CodeFacts ==
  ASSUME NEW c \in Recorded
  PROVE  /\ c = [op |-> c.op, arg |-> c.arg]
         /\ c.op # "COUNT" /\ c # STACK_BOTTOM
         /\ c.op \in {"MARK_1", "MARK_2", "MARK_CURS"} => c.arg \in Int
         /\ c.op = "KEY_PRESS" => c.arg \in Nat
         /\ c.op \in {"AHEAD", "INSERT"} => c.arg \in Byte
BY DEF Recorded, Code, KEY_PRESS, STACK_BOTTOM

(* A cell holds a recorded code or a count.                                *)
LEMMA CellFacts ==
  ASSUME NEW st \in Stacks, NEW k \in 1 .. Len(st.cells)
  PROVE  /\ st.cells[k] \in Cells
         /\ st.cells[k].code \in Recorded \/ \E n \in Int : st.cells[k].code = COUNT(n)
         /\ st.cells[k].code.op # "COUNT" => st.cells[k].code \in Recorded
<1>1. st.cells[k] \in Cells
  <2>1. st.cells \in Seq(Cells)
    BY DEF Stacks
  <2> QED BY <2>1, LenProperties
<1>2. st.cells[k].code \in Recorded \/ \E n \in Int : st.cells[k].code = COUNT(n)
  BY <1>1 DEF Cells
<1>3. ASSUME NEW n \in Int, st.cells[k].code = COUNT(n) PROVE st.cells[k].code.op = "COUNT"
  BY <1>3 DEF COUNT, Code
<1> QED BY <1>1, <1>2, <1>3

-----------------------------------------------------------------------------
(* Forgetting takes d codes off the bottom.                                 *)
Without(cells, d, new) ==
  /\ Len(new) = Len(cells) - d
  /\ \A k \in 1 .. Len(cells) - d : new[k] = cells[k + d]

LEMMA ForgetTakes ==
  ASSUME NEW S, NEW cells \in Seq(S), cells # << >>
  PROVE  /\ ForgetOldest(cells) \in Seq(S)
         /\ \E d \in 1 .. Len(cells) : Without(cells, d, ForgetOldest(cells))
<1> DEFINE along == {k \in 2 .. Len(cells) : \A j \in 2 .. k : ~IsKey(cells[j].code)}
<1>1. Len(cells) \in Nat /\ Len(cells) >= 1
  BY EmptySeq, LenProperties
<1>2. IsFiniteSet(2 .. Len(cells)) /\ Cardinality(2 .. Len(cells)) = Len(cells) - 1
  BY <1>1, FS_Interval
<1>3. along \subseteq 2 .. Len(cells)
  OBVIOUS
<1>4. Cardinality(along) \in 0 .. Len(cells) - 1
  BY <1>1, <1>2, <1>3, FS_Subset, FS_CardinalityType
<1> HIDE DEF along
<1> DEFINE d == 1 + Cardinality(along)
<1>5. d \in 1 .. Len(cells) /\ 2 + Cardinality(along) = d + 1
  BY <1>1, <1>4
<1>6. ForgetOldest(cells) = SubSeq(cells, d + 1, Len(cells))
  BY <1>5 DEF ForgetOldest, along
<1> HIDE DEF d
<1>7. \A i \in d + 1 .. Len(cells) : cells[i] \in S
  BY <1>1, <1>5, LenProperties
<1>8. /\ SubSeq(cells, d + 1, Len(cells)) \in Seq(S)
      /\ Len(SubSeq(cells, d + 1, Len(cells))) = Len(cells) - d
      /\ \A i \in 1 .. Len(cells) - d : SubSeq(cells, d + 1, Len(cells))[i] = cells[d + i]
  BY <1>1, <1>5, <1>7, SubSeqProperties
<1>9. Without(cells, d, SubSeq(cells, d + 1, Len(cells)))
  BY <1>1, <1>5, <1>8 DEF Without
<1> QED BY <1>5, <1>6, <1>8, <1>9

(* Trimmed forgets from the bottom, and says so.                            *)
LEMMA TrimmedTakes ==
  ASSUME NEW t \in Stacks
  PROVE  /\ Trimmed(t) \in Stacks
         /\ Trimmed(t).cells # << >> => IsKey(Trimmed(t).cells[1].code)
         /\ \E d \in 0 .. Len(t.cells) :
              /\ Without(t.cells, d, Trimmed(t).cells)
              /\ ~Trimmed(t).lost => d = 0 /\ ~t.lost
<1> DEFINE full == Len(t.cells) \in {t.size - 3, t.size - 2}
           kept == IF full THEN ForgetOldest(t.cells) ELSE t.cells
           whole == kept = << >> \/ IsKey(kept[1].code)
           cells == IF whole THEN kept ELSE << >>
           lost == t.lost \/ full \/ ~whole
<1>1. /\ t.cells \in Seq(Cells) /\ Len(t.cells) \in Nat /\ t.size \in Nat /\ t.lost \in BOOLEAN
      /\ t = [cells |-> t.cells, size |-> t.size, lost |-> t.lost]
  BY LenProperties DEF Stacks
<1>2. Trimmed(t) = [cells |-> cells, size |-> t.size, lost |-> lost]
  <2>1. Trimmed(t) = [t EXCEPT !.cells = cells, !.lost = @ \/ full \/ ~whole]
    BY DEF Trimmed
  <2> HIDE DEF cells, full, whole
  <2> QED BY <1>1, <2>1
<1>3. kept \in Seq(Cells) /\ \E d \in 0 .. Len(t.cells) : Without(t.cells, d, kept) /\ (~full => d = 0)
  <2>1. CASE full /\ t.cells # << >>
    BY <1>1, <2>1, ForgetTakes
  <2>2. CASE full /\ t.cells = << >>
    <3>1. Len(t.cells) = 0 /\ IsFiniteSet({}) /\ Cardinality({}) = 0
      BY <2>2, EmptySeq, FS_EmptySet
    <3>2. {k \in 2 .. Len(t.cells) : \A j \in 2 .. k : ~IsKey(t.cells[j].code)} = {}
      BY <3>1
    <3>3. ForgetOldest(t.cells) = SubSeq(t.cells, 2, 0)
      BY <3>1, <3>2 DEF ForgetOldest
    <3>4. SubSeq(t.cells, 2, 0) = << >>
      BY <1>1, SubSeqProperties, EmptySeq
    <3>5. Without(t.cells, 0, << >>)
      BY <3>1, EmptySeq DEF Without
    <3> QED BY <2>2, <3>1, <3>3, <3>4, <3>5, EmptySeq
  <2>3. CASE ~full
    BY <1>1, <2>3 DEF Without
  <2> QED BY <2>1, <2>2, <2>3
<1> HIDE DEF kept, full
<1>4. cells \in Seq(Cells)
  BY <1>3, EmptySeq
<1>5. lost \in BOOLEAN
  OBVIOUS
<1>6. Trimmed(t) \in Stacks
  <2> HIDE DEF cells, lost
  <2>1. [cells |-> cells, size |-> t.size, lost |-> lost] \in
          [cells : Seq(Cells), size : Nat, lost : BOOLEAN]
    BY <1>1, <1>4, <1>5
  <2> QED BY <1>2, <2>1 DEF Stacks
<1>7. cells # << >> => IsKey(cells[1].code)
  OBVIOUS
<1>8. \E d \in 0 .. Len(t.cells) : Without(t.cells, d, cells) /\ (~lost => d = 0 /\ ~t.lost)
  <2>1. CASE whole
    BY <1>3, <2>1
  <2>2. CASE ~whole
    <3>1. Without(t.cells, Len(t.cells), << >>)
      BY <1>1, EmptySeq DEF Without
    <3> QED BY <1>1, <2>2, <3>1
  <2> QED BY <2>1, <2>2
<1> HIDE DEF cells, lost
<1>9. Trimmed(t).cells = cells /\ Trimmed(t).lost = lost
  BY <1>2
<1> QED BY <1>6, <1>7, <1>8, <1>9

-----------------------------------------------------------------------------
(* What a push does to the codes: a key press pushed again is dropped, a    *)
(* code pushed once more is counted, any other is added, and then codes may *)
(* be forgotten.                                                            *)
Dropped(st, c, new) ==
  /\ IsKey(c) /\ Len(st.cells) > 0 /\ st.cells[Len(st.cells)].code = c
  /\ new.cells = st.cells /\ new.lost = st.lost

CountedUp(st, c, new) ==
  LET n == Len(st.cells)
  IN  /\ n > 1 /\ st.cells[n].code.op = "COUNT" /\ st.cells[n - 1].code = c /\ ~IsKey(c)
      /\ Len(new.cells) = n /\ \A k \in 1 .. n - 1 : new.cells[k] = st.cells[k]
      /\ new.cells[n].code = COUNT(st.cells[n].code.arg - 1)
      /\ new.lost = st.lost

Added(st, c, seen, new) ==
  \E code \in {c, COUNT(-2)}, d \in 0 .. Len(st.cells) + 1 :
    /\ code # c => /\ Len(st.cells) > 0 /\ ~IsKey(c)
                   /\ st.cells[Len(st.cells)].code = c
    /\ Without(Append(st.cells, Cell(code, seen)), d, new.cells)
    /\ new.cells # << >> => IsKey(new.cells[1].code)
    /\ ~new.lost => d = 0 /\ ~st.lost

(* Doubling leaves the codes alone.                                        *)
LEMMA DoubledIs ==
  ASSUME NEW st \in Stacks
  PROVE  Doubled(st) \in Stacks /\ Doubled(st).cells = st.cells /\ Doubled(st).lost = st.lost
<1>1. st = [cells |-> st.cells, size |-> st.size, lost |-> st.lost]
      /\ st.cells \in Seq(Cells) /\ st.size \in Nat /\ st.lost \in BOOLEAN
  BY DEF Stacks
<1>2. Doubled(st) = st \/ Doubled(st) = [st EXCEPT !.size = 2 * @]
  BY DEF Doubled
<1>3. [st EXCEPT !.size = 2 * @] = [cells |-> st.cells, size |-> 2 * st.size, lost |-> st.lost]
  BY <1>1
<1>4. 2 * st.size \in Nat
  BY <1>1
<1> QED BY <1>1, <1>2, <1>3, <1>4 DEF Stacks

(* Where a cell was before the first d were dropped.                       *)
LEMMA ShiftedPlace ==
  ASSUME NEW n \in Nat, NEW d \in 0 .. n + 1, NEW k \in 1 .. n + 1 - d, k # 1
  PROVE  k + d \in 1 .. n + 1 /\ k + d > 1 /\ k - 1 \in 1 .. n + 1 - d /\ (k - 1) + d = (k + d) - 1
OBVIOUS

(* A stack with one cell more, and what is forgotten of it.                 *)
LEMMA AddedIs ==
  ASSUME NEW st \in Stacks, Counted(st.cells), NEW c \in Recorded, NEW seen \in Sights,
         NEW code \in {c, COUNT(-2)},
         code # c => /\ Len(st.cells) > 0 /\ ~IsKey(c)
                     /\ st.cells[Len(st.cells)].code = c
  PROVE  LET new == Trimmed([st EXCEPT !.cells = Append(@, Cell(code, seen))])
         IN  StackOK(new) /\ Added(st, c, seen, new)
<1> DEFINE cells == Append(st.cells, Cell(code, seen))
           t == [st EXCEPT !.cells = Append(@, Cell(code, seen))]
           new == Trimmed(t)
           n == Len(st.cells)
<1>1. st = [cells |-> st.cells, size |-> st.size, lost |-> st.lost]
      /\ st.cells \in Seq(Cells) /\ st.size \in Nat /\ st.lost \in BOOLEAN /\ n \in Nat
  BY LenProperties DEF Stacks
<1>2. Cell(code, seen) \in Cells /\ Cell(code, seen).code = code
  <2>1. code \in Recorded \cup {COUNT(m) : m \in Int}
    OBVIOUS
  <2> QED BY <2>1 DEF Cell, Cells
<1>3. /\ cells \in Seq(Cells) /\ Len(cells) = n + 1
      /\ cells[n + 1] = Cell(code, seen) /\ \A k \in 1 .. n : cells[k] = st.cells[k]
  BY <1>1, <1>2, AppendProperties
<1>4. t = [cells |-> cells, size |-> st.size, lost |-> st.lost]
  <2>1. t = [st EXCEPT !.cells = cells]
    OBVIOUS
  <2> HIDE DEF cells, t
  <2> QED BY <1>1, <2>1
<1>5. t \in Stacks /\ t.cells = cells /\ t.lost = st.lost
  <2> HIDE DEF cells, t
  <2> QED BY <1>1, <1>3, <1>4 DEF Stacks
<1>6. /\ new \in Stacks
      /\ new.cells # << >> => IsKey(new.cells[1].code)
      /\ \E d \in 0 .. Len(cells) : Without(cells, d, new.cells) /\ (~new.lost => d = 0 /\ ~st.lost)
  <2> HIDE DEF t, cells
  <2> QED BY <1>5, TrimmedTakes
<1> HIDE DEF new, t, cells
<1>7. PICK d \in 0 .. n + 1 : Without(cells, d, new.cells) /\ (~new.lost => d = 0 /\ ~st.lost)
  BY <1>3, <1>6
<1>8. Added(st, c, seen, new)
  BY <1>6, <1>7 DEF Added, cells
<1>9. \A k \in 1 .. n + 1 : cells[k].code.op = "COUNT" /\ k > 1 =>
         cells[k].code.arg <= -2 /\ cells[k - 1].code.op \notin {"COUNT", "KEY_PRESS"}
  <2> SUFFICES ASSUME NEW k \in 1 .. n + 1, cells[k].code.op = "COUNT", k > 1
               PROVE  cells[k].code.arg <= -2 /\ cells[k - 1].code.op \notin {"COUNT", "KEY_PRESS"}
    OBVIOUS
  <2>1. CASE k \in 1 .. n
    <3>1. k - 1 \in 1 .. n
      BY <1>1, <2>1
    <3>2. cells[k] = st.cells[k] /\ cells[k - 1] = st.cells[k - 1]
      BY <1>3, <2>1, <3>1
    <3>3. k \in 1 .. Len(st.cells)
      BY <2>1
    <3> QED BY <3>2, <3>3 DEF StackOK, Counted
  <2>2. CASE k = n + 1
    <3>1. code = COUNT(-2)
      BY <2>2, <1>2, <1>3, CodeFacts
    <3>2. cells[k].code.arg = -2 /\ code # c
      BY <2>2, <1>2, <1>3, <3>1, CodeFacts DEF COUNT, Code
    <3>3. cells[k - 1].code = c
      BY <2>2, <1>1, <1>3, <3>2
    <3> QED BY <3>2, <3>3, CodeFacts DEF IsKey
  <2> QED BY <1>1, <2>1, <2>2
<1>10. Counted(new.cells)
  <2> SUFFICES ASSUME NEW k \in 1 .. Len(new.cells), new.cells[k].code.op = "COUNT"
               PROVE  /\ k > 1 /\ new.cells[k].code.arg <= -2
                      /\ new.cells[k - 1].code.op \notin {"COUNT", "KEY_PRESS"}
    BY <1>6 DEF Counted
  <2>1. Len(new.cells) = n + 1 - d /\ \A i \in 1 .. n + 1 - d : new.cells[i] = cells[i + d]
    BY <1>3, <1>7 DEF Without
  <2>2. k # 1
    <3> SUFFICES ASSUME k = 1 PROVE FALSE
      OBVIOUS
    <3>1. new.cells # << >>
      BY <1>6, EmptySeq
    <3> QED BY <1>6, <3>1 DEF IsKey
  <2>3. k + d \in 1 .. n + 1 /\ k + d > 1 /\ k - 1 \in 1 .. n + 1 - d /\ (k - 1) + d = (k + d) - 1
    <3>1. n \in Nat /\ d \in 0 .. n + 1 /\ k \in 1 .. n + 1 - d
      BY <1>1, <1>7, <2>1
    <3> HIDE DEF n
    <3> QED BY <2>2, <3>1, ShiftedPlace
  <2>4. new.cells[k] = cells[k + d] /\ new.cells[k - 1] = cells[(k + d) - 1]
    <3>1. k \in 1 .. n + 1 - d
      BY <2>1
    <3>2. new.cells[k] = cells[k + d]
      BY <2>1, <3>1
    <3>3. new.cells[k - 1] = cells[(k - 1) + d]
      BY <2>1, <2>3
    <3> QED BY <2>3, <3>2, <3>3
  <2> QED BY SMTT(60), <1>9, <2>2, <2>3, <2>4
<1>11. StackOK(new)
  BY <1>6, <1>10 DEF StackOK
<1> QED BY <1>8, <1>11 DEF new, t

(* One of the three, and the stack stays well formed.                      *)
LEMMA PushedDoes ==
  ASSUME NEW st, StackOK(st), NEW c \in Recorded, NEW seen \in Sights
  PROVE  LET new == Pushed(st, c, seen)
         IN  /\ StackOK(new)
             /\ Dropped(st, c, new) \/ CountedUp(st, c, new) \/ Added(st, c, seen, new)
<1> DEFINE s == Doubled(st)
           n == Len(s.cells)
           counted == n > 0 /\ s.cells[n].code.op = "COUNT"
           again == /\ n > 2
                    /\ c = s.cells[IF counted THEN n - 1 ELSE n].code
                    /\ counted => s.cells[n].code.arg > -MAX_RUN
           push(code) == Trimmed([s EXCEPT !.cells = Append(@, Cell(code, seen))])
           more == [s EXCEPT !.cells[n].code.arg = @ - 1]
           new == Pushed(st, c, seen)
<1>1. st \in Stacks /\ Counted(st.cells)
  BY DEF StackOK
<1>2. s \in Stacks /\ s.cells = st.cells /\ s.lost = st.lost
  BY <1>1, DoubledIs
<1>3. new = IF again /\ IsKey(c) THEN s
            ELSE IF again /\ counted THEN more
            ELSE push(IF again THEN COUNT(-2) ELSE c)
  BY DEF Pushed
<1>4. /\ s = [cells |-> s.cells, size |-> s.size, lost |-> s.lost] /\ n \in Nat
      /\ s.cells \in Seq(Cells) /\ s.size \in Nat /\ s.lost \in BOOLEAN
  <2> HIDE DEF s
  <2> QED BY <1>2, LenProperties DEF Stacks
<1>5. Counted(s.cells)
  BY <1>1, <1>2
<1> HIDE DEF s, new
<1>6. CASE again /\ IsKey(c)
  <2>1. ~counted
    <3> SUFFICES ASSUME counted PROVE FALSE
      OBVIOUS
    <3>1. n \in 1 .. Len(s.cells) /\ s.cells[n].code.op = "COUNT"
      BY <1>4
    <3>2. s.cells[n - 1].code.op # "KEY_PRESS"
      BY SMTT(60), <1>5, <3>1 DEF Counted
    <3> QED BY <1>6, <3>2 DEF IsKey
  <2>2. new = s /\ Dropped(st, c, s)
    BY SMTT(60), <1>2, <1>3, <1>6, <2>1 DEF Dropped
  <2>3. StackOK(s)
    BY <1>2, <1>5 DEF StackOK
  <2> QED BY <2>2, <2>3 DEF new
<1>7. CASE again /\ counted /\ ~IsKey(c)
  <2>1. n \in 1 .. Len(s.cells) /\ n - 1 \in 1 .. Len(s.cells) /\ s.cells[n].code.op = "COUNT"
    BY <1>4, <1>7
  <2>2. s.cells[n] \in Cells /\ s.cells[n].code.arg <= -2
    BY <1>2, <1>5, <2>1, CellFacts DEF Counted
  <2>3. PICK m \in Int : s.cells[n].code = COUNT(m)
    <3>1. s.cells[n].code \in Recorded \/ \E m \in Int : s.cells[n].code = COUNT(m)
      BY <1>2, <2>1, CellFacts
    <3> QED BY <2>1, <3>1, CodeFacts
  <2> DEFINE e == [code |-> COUNT(m - 1), seen |-> s.cells[n].seen]
             cells == [s.cells EXCEPT ![n] = e]
  <2>4. [s.cells[n] EXCEPT !.code.arg = @ - 1] = e
    BY <2>2, <2>3 DEF COUNT, Code, Cells
  <2>5. e \in Cells /\ e.code = COUNT(m - 1) /\ m = s.cells[n].code.arg
    BY <2>2, <2>3 DEF Cells, COUNT, Code
  <2>6. /\ cells \in Seq(Cells) /\ Len(cells) = n
        /\ \A k \in 1 .. n : cells[k] = IF k = n THEN e ELSE s.cells[k]
    <3> HIDE DEF e
    <3> QED BY <1>4, <2>1, <2>5, ExceptSeq
  <2>7. new = [s EXCEPT !.cells = cells]
    BY <1>3, <1>7, <2>4
  <2> HIDE DEF cells
  <2>8. new = [cells |-> cells, size |-> s.size, lost |-> s.lost]
    BY <1>4, <2>7
  <2>9. new \in Stacks /\ new.cells = cells /\ new.lost = s.lost
    BY <1>4, <2>6, <2>8 DEF Stacks
  <2>10. cells[n].code = COUNT(s.cells[n].code.arg - 1) /\ s.cells[n - 1].code = c
    BY <1>7, <2>1, <2>5, <2>6
  <2>11. CountedUp(st, c, new)
    BY SMTT(60), <1>2, <1>7, <2>1, <2>6, <2>9, <2>10 DEF CountedUp
  <2>12. e.code.op = "COUNT" /\ e.code.arg <= -2
    BY <2>2, <2>5 DEF COUNT, Code
  <2> HIDE DEF e
  <2>13. Counted(cells)
    <3>1. ASSUME NEW k \in 1 .. Len(cells), cells[k].code.op = "COUNT"
          PROVE  /\ k > 1 /\ cells[k].code.arg <= -2
                 /\ cells[k - 1].code.op \notin {"COUNT", "KEY_PRESS"}
      <4>1. k \in 1 .. Len(s.cells) /\ s.cells[k].code.op = "COUNT"
        BY <2>1, <2>6, <3>1
      <4>2. k > 1 /\ s.cells[k].code.arg <= -2 /\ s.cells[k - 1].code.op \notin {"COUNT", "KEY_PRESS"}
        BY <1>5, <4>1 DEF Counted
      <4>3. cells[k - 1] = s.cells[k - 1]
        BY SMTT(60), <2>6, <4>1, <4>2, <1>4
      <4> QED BY <2>6, <2>12, <4>1, <4>2, <4>3
    <3>2. cells[1] = s.cells[1] /\ s.cells # << >>
      BY <1>4, <2>1, <2>6, EmptySeq
    <3> QED BY <1>5, <3>1, <3>2 DEF Counted
  <2> QED BY <2>9, <2>11, <2>13 DEF StackOK, new
<1>8. CASE ~again
  <2>1. new = push(c)
    BY <1>3, <1>8
  <2>2. StackOK(new) /\ Added(s, c, seen, new)
    BY <1>2, <1>5, <2>1, AddedIs
  <2>3. Added(st, c, seen, new)
    BY <1>2, <2>2 DEF Added
  <2> QED BY <2>2, <2>3 DEF new
<1>9. CASE again /\ ~counted /\ ~IsKey(c)
  <2>1. new = push(COUNT(-2))
    BY ZenonT(60), <1>3, <1>9
  <2>2. Len(s.cells) > 0 /\ s.cells[Len(s.cells)].code = c
    BY <1>4, <1>9
  <2>3. StackOK(new) /\ Added(s, c, seen, new)
    BY ZenonT(60), <1>2, <1>5, <1>9, <2>1, <2>2, AddedIs
  <2>4. Added(st, c, seen, new)
    BY <1>2, <2>3 DEF Added
  <2> QED BY <2>3, <2>4 DEF new
<1> QED BY <1>6, <1>7, <1>8, <1>9

-----------------------------------------------------------------------------
(* What a pop does: the count goes down, or the newest code goes.           *)
Latest(cells) ==
  LET n == Len(cells) IN IF cells[n].code.op = "COUNT" THEN cells[n - 1].code ELSE cells[n].code

CountedDown(st, new) ==
  LET n == Len(st.cells)
  IN  /\ st.cells[n].code.op = "COUNT" /\ st.cells[n].code.arg < -2
      /\ Len(new.cells) = n /\ \A k \in 1 .. n - 1 : new.cells[k] = st.cells[k]
      /\ new.cells[n].code = COUNT(st.cells[n].code.arg + 1)

TakenOff(st, new) ==
  LET n == Len(st.cells)
  IN  /\ st.cells[n].code.op = "COUNT" => st.cells[n].code.arg = -2
      /\ Len(new.cells) = n - 1 /\ \A k \in 1 .. n - 1 : new.cells[k] = st.cells[k]

(* A stack popped is empty, or loses its latest code once.                 *)
LEMMA PoppedDoes ==
  ASSUME NEW st, StackOK(st)
  PROVE  LET new == Popped(st)
         IN  /\ StackOK(new) /\ new.lost = st.lost
             /\ \/ st.cells = << >> /\ Top(st) = STACK_BOTTOM /\ new = st
                \/ /\ Len(st.cells) > 0 /\ Top(st) = Latest(st.cells) /\ Top(st) \in Recorded
                   /\ CountedDown(st, new) \/ TakenOff(st, new)
<1> DEFINE n == Len(st.cells)
           new == Popped(st)
<1>1. /\ st \in Stacks /\ Counted(st.cells) /\ n \in Nat
      /\ st = [cells |-> st.cells, size |-> st.size, lost |-> st.lost]
      /\ st.cells \in Seq(Cells) /\ st.size \in Nat /\ st.lost \in BOOLEAN
  BY LenProperties DEF StackOK, Stacks
<1>2. CASE n = 0
  BY <1>1, <1>2, EmptySeq DEF Top, Popped
<1> SUFFICES ASSUME n > 0
             PROVE  /\ StackOK(new) /\ new.lost = st.lost
                    /\ Top(st) = Latest(st.cells) /\ Top(st) \in Recorded
                    /\ CountedDown(st, new) \/ TakenOff(st, new)
  BY <1>1, <1>2
<1>3. n \in 1 .. Len(st.cells) /\ st.cells # << >> /\ st.cells[n] \in Cells
  BY <1>1, CellFacts, EmptySeq
<1>4. st.cells[n].code.op = "COUNT" =>
         /\ n > 1 /\ st.cells[n].code.arg <= -2 /\ n - 1 \in 1 .. Len(st.cells)
         /\ st.cells[n - 1].code.op \notin {"COUNT", "KEY_PRESS"}
  BY <1>1, <1>3 DEF Counted
<1>5. Top(st) = Latest(st.cells) /\ Top(st) \in Recorded
  BY <1>1, <1>3, <1>4, CellFacts DEF Top, Latest
<1>6. Top(st) # STACK_BOTTOM
  BY <1>5, CodeFacts
<1>7. CASE st.cells[n].code.op = "COUNT" /\ st.cells[n].code.arg # -2
  <2>1. PICK m \in Int : st.cells[n].code = COUNT(m)
    <3>1. st.cells[n].code \in Recorded \/ \E m \in Int : st.cells[n].code = COUNT(m)
      BY <1>1, <1>3, CellFacts
    <3> QED BY <1>7, <3>1, CodeFacts
  <2> DEFINE e == [code |-> COUNT(m + 1), seen |-> st.cells[n].seen]
             cells == [st.cells EXCEPT ![n] = e]
  <2>2. [st.cells[n] EXCEPT !.code.arg = @ + 1] = e
    BY <1>3, <2>1 DEF COUNT, Code, Cells
  <2>3. e \in Cells /\ e.code = COUNT(m + 1) /\ m = st.cells[n].code.arg
    BY <1>3, <2>1 DEF Cells, COUNT, Code
  <2>4. /\ cells \in Seq(Cells) /\ Len(cells) = n
        /\ \A k \in 1 .. n : cells[k] = IF k = n THEN e ELSE st.cells[k]
    <3> HIDE DEF e
    <3> QED BY <1>1, <1>3, <2>3, ExceptSeq
  <2>5. new = [st EXCEPT !.cells = cells]
    BY <1>6, <1>7, <2>2 DEF Popped
  <2> HIDE DEF cells
  <2>6. new = [cells |-> cells, size |-> st.size, lost |-> st.lost]
    BY <1>1, <2>5
  <2>7. new \in Stacks /\ new.cells = cells /\ new.lost = st.lost
    BY <1>1, <2>4, <2>6 DEF Stacks
  <2>8. e.code.op = "COUNT" /\ e.code.arg <= -2 /\ st.cells[n].code.arg < -2
    BY <1>4, <1>7, <2>3 DEF COUNT, Code
  <2> HIDE DEF e
  <2>9. CountedDown(st, new)
    BY SMTT(60), <1>1, <1>3, <1>7, <2>3, <2>4, <2>7, <2>8 DEF CountedDown
  <2>10. Counted(cells)
    <3>1. ASSUME NEW k \in 1 .. Len(cells), cells[k].code.op = "COUNT"
          PROVE  /\ k > 1 /\ cells[k].code.arg <= -2
                 /\ cells[k - 1].code.op \notin {"COUNT", "KEY_PRESS"}
      <4>1. k \in 1 .. Len(st.cells) /\ st.cells[k].code.op = "COUNT"
        BY <1>7, <2>4, <3>1
      <4>2. k > 1 /\ st.cells[k].code.arg <= -2 /\ st.cells[k - 1].code.op \notin {"COUNT", "KEY_PRESS"}
        BY <1>1, <4>1 DEF Counted
      <4>3. cells[k - 1] = st.cells[k - 1]
        BY <2>4, <4>1, <4>2, <1>1
      <4> QED BY <2>4, <2>8, <4>1, <4>2, <4>3
    <3>2. cells[1] = st.cells[1]
      <4>1. 1 \in 1 .. n /\ 1 # n
        BY <1>1, <1>4, <1>7
      <4> HIDE DEF n
      <4> QED BY <2>4, <4>1
    <3> QED BY <1>1, <1>3, <3>1, <3>2 DEF Counted
  <2> QED BY <1>5, <2>7, <2>9, <2>10 DEF StackOK
<1>8. CASE ~(st.cells[n].code.op = "COUNT" /\ st.cells[n].code.arg # -2)
  <2> DEFINE cells == SubSeq(st.cells, 1, n - 1)
  <2>1. \A i \in 1 .. n - 1 : st.cells[i] \in Cells
    BY <1>1, LenProperties
  <2>2. /\ cells \in Seq(Cells) /\ Len(cells) = n - 1
        /\ \A i \in 1 .. n - 1 : cells[i] = st.cells[i]
    <3>1. n \in Nat /\ n >= 1
      BY <1>1
    <3> HIDE DEF n
    <3>2. /\ cells \in Seq(Cells) /\ Len(cells) = IF 1 <= n - 1 THEN (n - 1) - 1 + 1 ELSE 0
          /\ \A i \in 1 .. (n - 1) - 1 + 1 : cells[i] = st.cells[1 + i - 1]
      BY <2>1, <3>1, SubSeqProperties
    <3>3. \A i \in 1 .. n - 1 : i \in 1 .. (n - 1) - 1 + 1 /\ 1 + i - 1 = i
      BY <3>1
    <3> QED BY <3>1, <3>2, <3>3
  <2>3. new = [st EXCEPT !.cells = cells]
    BY <1>6, <1>8 DEF Popped
  <2> HIDE DEF cells
  <2>4. new = [cells |-> cells, size |-> st.size, lost |-> st.lost]
    BY <1>1, <2>3
  <2>5. new \in Stacks /\ new.cells = cells /\ new.lost = st.lost
    BY <1>1, <2>2, <2>4 DEF Stacks
  <2>6. TakenOff(st, new)
    BY <1>8, <2>2, <2>5 DEF TakenOff
  <2>7. Counted(cells)
    <3>1. ASSUME NEW k \in 1 .. Len(cells), cells[k].code.op = "COUNT"
          PROVE  /\ k > 1 /\ cells[k].code.arg <= -2
                 /\ cells[k - 1].code.op \notin {"COUNT", "KEY_PRESS"}
      <4>1. k \in 1 .. Len(st.cells) /\ st.cells[k].code.op = "COUNT" /\ k \in 1 .. n - 1
        BY <1>1, <2>2, <3>1
      <4>2. k > 1 /\ st.cells[k].code.arg <= -2 /\ st.cells[k - 1].code.op \notin {"COUNT", "KEY_PRESS"}
        BY <1>1, <4>1 DEF Counted
      <4>3. cells[k - 1] = st.cells[k - 1] /\ cells[k] = st.cells[k]
        BY SMTT(60), <2>2, <4>1, <4>2, <1>1
      <4> QED BY <4>2, <4>3
    <3>2. cells # << >> => cells[1] = st.cells[1]
      BY <1>1, <2>2, EmptySeq
    <3> QED BY <1>1, <1>3, <3>1, <3>2 DEF Counted
  <2> QED BY <1>5, <2>5, <2>6, <2>7 DEF StackOK
<1> QED BY <1>7, <1>8

-----------------------------------------------------------------------------
(***************************************************************************)
(* The trail of a stack: the states an Undo of all its codes leads through. *)
(* A view is a text with its cursor, and the set of the pairs of markers    *)
(* with which all keys on the way will find their selection again.          *)
(***************************************************************************)
Pairs == Int \X Int
Views == [text : Texts, size : Nat, cursor : Nat, sel : SUBSET Pairs]

(* Any markers will do, or none that are no finished selection.             *)
Settled(sel) == sel = Pairs \/ \A m \in sel : m[1] # m[2] /\ m[2] # -1

(* What the Undo of a code makes of the markers, with the cursor at p.      *)
MarksAfter(c, p, m) ==
  CASE c.op \in {"BACKSPACE", "BACKSPACE_BR"} -> <<m[1] - One(m[1] >= p), m[2] - One(m[2] >= p)>>
    [] c.op \in {"DELCHAR", "DELCHAR_BR"} -> <<m[1] - One(m[1] > p), m[2] - One(m[2] > p)>>
    [] c.op = "AHEAD" -> <<m[1] + One(m[1] >= p), m[2] + One(m[2] >= p)>>
    [] c.op = "INSERT" -> <<m[1] + One(m[1] > p), m[2] + One(m[2] > p)>>
    [] c.op = "MARK_1" -> <<c.arg, m[2]>>
    [] c.op = "MARK_2" -> <<m[1], c.arg>>
    [] OTHER -> m

(* What it makes of the text and the cursor.                                *)
TextAfter(c, a, b) ==
  \/ /\ c.op = "CURS_RIGHT" /\ a.cursor < a.size
     /\ b.text = a.text /\ b.size = a.size /\ b.cursor = a.cursor + 1
  \/ /\ c.op = "CURS_LEFT" /\ a.cursor > 0
     /\ b.text = a.text /\ b.size = a.size /\ b.cursor = a.cursor - 1
  \/ /\ c.op \in {"BACKSPACE", "BACKSPACE_BR"} /\ a.cursor > 0 /\ a.size > 0
     /\ b.text = WithoutByteAt(a.text, a.size, a.cursor - 1)
     /\ b.size = a.size - 1 /\ b.cursor = a.cursor - 1
  \/ /\ c.op \in {"DELCHAR", "DELCHAR_BR"} /\ a.cursor < a.size
     /\ b.text = WithoutByteAt(a.text, a.size, a.cursor)
     /\ b.size = a.size - 1 /\ b.cursor = a.cursor
  \/ /\ c.op = "AHEAD" /\ b.text = WithByteAt(a.text, a.size, a.cursor, c.arg)
     /\ b.size = a.size + 1 /\ b.cursor = a.cursor
  \/ /\ c.op = "INSERT" /\ b.text = WithByteAt(a.text, a.size, a.cursor, c.arg)
     /\ b.size = a.size + 1 /\ b.cursor = a.cursor + 1
  \/ /\ c.op \in {"MARK_1", "MARK_2", "MARK_CURS", "KEY_PRESS"}
     /\ b.text = a.text /\ b.size = a.size /\ b.cursor = a.cursor

(* The Undo of the code leads from a to b; a key press is pushed when no    *)
(* command is at work.                                                      *)
Undone(c, a, b) ==
  /\ TextAfter(c, a, b)
  /\ \A m \in a.sel : MarksAfter(c, a.cursor, m) \in b.sel
  /\ IsKey(c) => Settled(a.sel) /\ Settled(b.sel)

(* A key press remembers what is there when it is reached.                  *)
Remembered(seen, v) ==
  /\ v.text = seen.text /\ v.cursor = seen.cursor
  /\ seen.mark2 >= 0 /\ seen.mark1 # seen.mark2 => v.sel \subseteq {<<seen.mark1, seen.mark2>>}

(* A count stands for its code, so many times less one.                     *)
Uses(cell) == IF cell.code.op = "COUNT" THEN -1 - cell.code.arg ELSE 1
CodeAt(cells, k) == IF cells[k].code.op = "COUNT" THEN cells[k - 1].code ELSE cells[k].code

Trail(cells, P, v, first) ==
  /\ P \in [1 .. Len(cells) -> [Nat -> Views]]
  /\ Len(cells) = 0 => v = first
  /\ Len(cells) > 0 => P[Len(cells)][0] = v /\ P[1][Uses(cells[1])] = first
  /\ \A k \in 2 .. Len(cells) : P[k][Uses(cells[k])] = P[k - 1][0]
  /\ \A k \in 1 .. Len(cells) : \A j \in Nat :
       j < Uses(cells[k]) => Undone(CodeAt(cells, k), P[k][j], P[k][j + 1])
  /\ \A k \in 1 .. Len(cells) :
       IsKey(cells[k].code) => Remembered(cells[k].seen, P[k][0])

(* A cell stands for one code at least.                                    *)
LEMMA UsesFacts ==
  ASSUME NEW st, StackOK(st), NEW k \in 1 .. Len(st.cells)
  PROVE  /\ Uses(st.cells[k]) \in Nat /\ Uses(st.cells[k]) > 0
         /\ st.cells[k].code.op = "COUNT" => st.cells[k].code.arg \in Int
<1>1. CASE st.cells[k].code.op = "COUNT"
  <2>1. PICK n \in Int : st.cells[k].code = COUNT(n)
    BY <1>1, CellFacts, CodeFacts DEF StackOK
  <2>2. st.cells[k].code.arg <= -2
    BY <1>1 DEF StackOK, Counted
  <2>3. st.cells[k].code.arg = n
    BY <2>1 DEF COUNT, Code
  <2> QED BY <1>1, <2>2, <2>3 DEF Uses
<1>2. CASE st.cells[k].code.op # "COUNT"
  BY <1>2 DEF Uses
<1> QED BY <1>1, <1>2

-----------------------------------------------------------------------------
(* Codes forgotten at the bottom shorten the trail.                         *)
LEMMA TrailCut ==
  ASSUME NEW cells, Len(cells) \in Nat, NEW P, NEW v \in Views, NEW first \in Views,
         Trail(cells, P, v, first),
         NEW d \in 0 .. Len(cells), NEW new, Without(cells, d, new),
         Len(new) > 0 => IsKey(new[1].code)
  PROVE  \E f, Q : f \in Views /\ Trail(new, Q, v, f) /\ (d = 0 => f = first)
<1> DEFINE m == Len(cells) - d
           Q == [k \in 1 .. m |-> P[k + d]]
           f == IF m = 0 THEN v ELSE Q[1][Uses(new[1])]
<1>1. m \in Nat /\ Len(new) = m /\ \A k \in 1 .. m : new[k] = cells[k + d] /\ k + d \in 1 .. Len(cells)
  BY DEF Without
<1>2. P \in [1 .. Len(cells) -> [Nat -> Views]]
  BY DEF Trail
<1>3. Q \in [1 .. m -> [Nat -> Views]]
  BY <1>1, <1>2
<1>4. m > 0 => new[1] = cells[1 + d] /\ Uses(new[1]) = 1
  BY <1>1 DEF Uses, IsKey
<1>5. f \in Views
  BY <1>1, <1>3, <1>4
<1>6. d = 0 => f = first
  BY <1>1, <1>4 DEF Trail
<1>7. Trail(new, Q, v, f)
  <2>1. m = 0 => v = f
    OBVIOUS
  <2>2. m > 0 => Q[m][0] = v /\ Q[1][Uses(new[1])] = f
    <3>1. m > 0 => Q[m] = P[Len(cells)] /\ Len(cells) > 0
      BY <1>1
    <3> QED BY <3>1 DEF Trail
  <2>3. ASSUME NEW k \in 2 .. m PROVE Q[k][Uses(new[k])] = Q[k - 1][0]
    <3>1. k + d \in 2 .. Len(cells) /\ k - 1 \in 1 .. m /\ (k - 1) + d = (k + d) - 1 /\ k \in 1 .. m
      <4>1. m = Len(cells) - d /\ m \in Nat /\ d \in Nat /\ Len(cells) \in Nat
        BY <1>1
      <4> HIDE DEF m
      <4> QED BY <4>1
    <3>2. P[k + d][Uses(cells[k + d])] = P[(k + d) - 1][0]
      BY <3>1 DEF Trail
    <3> QED BY <1>1, <3>1, <3>2
  <2>4. ASSUME NEW k \in 1 .. m PROVE CodeAt(new, k) = CodeAt(cells, k + d)
    <3>1. CASE new[k].code.op = "COUNT"
      <4>1. k # 1
        BY <1>1, <3>1 DEF IsKey
      <4>2. k - 1 \in 1 .. m /\ (k - 1) + d = (k + d) - 1
        BY <1>1, <4>1
      <4> QED BY <1>1, <3>1, <4>2 DEF CodeAt
    <3> QED BY <1>1, <3>1 DEF CodeAt
  <2>5. ASSUME NEW k \in 1 .. m, NEW j \in Nat, j < Uses(new[k])
        PROVE  Undone(CodeAt(new, k), Q[k][j], Q[k][j + 1])
    <3>1. Undone(CodeAt(cells, k + d), P[k + d][j], P[k + d][j + 1])
      BY <1>1, <2>5 DEF Trail
    <3> QED BY <2>4, <3>1
  <2>6. ASSUME NEW k \in 1 .. m, IsKey(new[k].code) PROVE Remembered(new[k].seen, Q[k][0])
    BY <1>1, <2>6 DEF Trail
  <2> HIDE DEF Q, f, m
  <2> QED BY <1>1, <1>3, <2>1, <2>2, <2>3, <2>5, <2>6 DEF Trail
<1> HIDE DEF Q, f
<1> QED BY <1>5, <1>6, <1>7

(* A code pushed leads on to where the trail began.                         *)
LEMMA TrailAdded ==
  ASSUME NEW st, StackOK(st), NEW c \in Recorded, NEW seen \in Sights,
         NEW P, NEW a \in Views, NEW b \in Views, NEW first \in Views,
         Trail(st.cells, P, a, first), Undone(c, b, a), IsKey(c) => Remembered(seen, b),
         NEW code \in {c, COUNT(-2)},
         code # c => /\ Len(st.cells) > 0 /\ ~IsKey(c)
                     /\ st.cells[Len(st.cells)].code = c
  PROVE  \E Q : Trail(Append(st.cells, Cell(code, seen)), Q, b, first)
<1> DEFINE n == Len(st.cells)
           cell == Cell(code, seen)
           cells == Append(st.cells, cell)
           Q == [k \in 1 .. n + 1 |-> IF k = n + 1 THEN [j \in Nat |-> IF j = 0 THEN b ELSE a]
                                      ELSE P[k]]
<1>1. st.cells \in Seq(Cells) /\ n \in Nat
  BY LenProperties DEF StackOK, Stacks
<1>2. cell \in Cells /\ cell.code = code /\ (IsKey(code) => cell.seen = seen)
  <2>1. code \in Recorded \cup {COUNT(m) : m \in Int}
    OBVIOUS
  <2> QED BY <2>1 DEF Cell, Cells
<1>3. Len(cells) = n + 1 /\ cells[n + 1] = cell /\ \A k \in 1 .. n : cells[k] = st.cells[k]
  BY <1>1, <1>2, AppendProperties
<1>4. P \in [1 .. n -> [Nat -> Views]]
  BY DEF Trail
<1>5. Q \in [1 .. n + 1 -> [Nat -> Views]]
  BY <1>1, <1>4
<1>6. Uses(cell) = 1 /\ CodeAt(cells, n + 1) = c
  <2>1. CASE code = c
    BY <1>2, <1>3, <2>1, CodeFacts DEF Uses, CodeAt
  <2>2. CASE code # c
    <3>1. cell.code.op = "COUNT" /\ cell.code.arg = -2
      BY <1>2, <2>2 DEF COUNT, Code
    <3>2. n \in 1 .. n /\ (n + 1) - 1 = n
      BY <1>1, <2>2
    <3>3. cells[(n + 1) - 1].code = c
      BY <1>3, <2>2, <3>2
    <3> HIDE DEF cells, cell, n
    <3>4. \A x \in Int : x = -2 => -1 - x = 1
      OBVIOUS
    <3>6. Uses(cell) = 1
      BY <3>1, <3>4 DEF Uses
    <3>5. CodeAt(cells, n + 1) = cells[(n + 1) - 1].code
      BY <1>3, <3>1 DEF CodeAt
    <3> QED BY <3>3, <3>5, <3>6
  <2> QED BY <2>1, <2>2
<1>7. /\ Q[n + 1][0] = b /\ \A j \in Nat \ {0} : Q[n + 1][j] = a
      /\ \A k \in 1 .. n : Q[k] = P[k]
  BY <1>1
<1>8. \A k \in 1 .. n : CodeAt(cells, k) = CodeAt(st.cells, k)
  <2> SUFFICES ASSUME NEW k \in 1 .. n PROVE CodeAt(cells, k) = CodeAt(st.cells, k)
    OBVIOUS
  <2>1. CASE st.cells[k].code.op = "COUNT"
    <3>1. k - 1 \in 1 .. n
      BY <1>1, <2>1 DEF StackOK, Counted
    <3> QED BY <1>3, <3>1 DEF CodeAt
  <2> QED BY <1>3, <2>1 DEF CodeAt
<1> HIDE DEF Q, cells, cell
<1>9. Q[1][Uses(cells[1])] = first
  <2>1. CASE n = 0
    <3>1. a = first
      BY <2>1 DEF Trail
    <3> QED BY <1>3, <1>6, <1>7, <2>1, <3>1
  <2>2. CASE n > 0
    <3>1. 1 \in 1 .. n /\ P[1][Uses(st.cells[1])] = first
      BY <1>1, <2>2 DEF Trail
    <3> QED BY <1>3, <1>7, <3>1
  <2> QED BY <1>1, <2>1, <2>2
<1>10. ASSUME NEW k \in 2 .. n + 1 PROVE Q[k][Uses(cells[k])] = Q[k - 1][0]
  <2>1. CASE k = n + 1
    <3>1. n > 0 /\ n \in 1 .. n /\ k - 1 = n
      BY <1>1, <2>1
    <3>2. P[n][0] = a
      BY <3>1 DEF Trail
    <3> QED BY <1>3, <1>6, <1>7, <2>1, <3>1, <3>2
  <2>2. CASE k # n + 1
    <3>1. k \in 2 .. n /\ k \in 1 .. n /\ k - 1 \in 1 .. n
      BY <1>1, <2>2
    <3>2. P[k][Uses(st.cells[k])] = P[k - 1][0]
      BY <3>1 DEF Trail
    <3> QED BY <1>3, <1>7, <3>1, <3>2
  <2> QED BY <2>1, <2>2
<1>11. ASSUME NEW k \in 1 .. n + 1, NEW j \in Nat, j < Uses(cells[k])
       PROVE  Undone(CodeAt(cells, k), Q[k][j], Q[k][j + 1])
  <2>1. CASE k = n + 1
    <3>1. j = 0 /\ j + 1 \in Nat \ {0}
      BY <1>3, <1>6, <1>11, <2>1
    <3>2. Q[k][j] = b /\ Q[k][j + 1] = a
      BY <1>7, <2>1, <3>1
    <3> QED BY <1>6, <2>1, <3>2
  <2>2. CASE k # n + 1
    <3>1. k \in 1 .. n
      BY <1>1, <2>2
    <3>2. Undone(CodeAt(st.cells, k), P[k][j], P[k][j + 1])
      BY <1>3, <1>11, <3>1 DEF Trail
    <3> QED BY <1>7, <1>8, <3>1, <3>2
  <2> QED BY <2>1, <2>2
<1>12. ASSUME NEW k \in 1 .. n + 1, IsKey(cells[k].code)
       PROVE  Remembered(cells[k].seen, Q[k][0])
  <2>1. CASE k = n + 1
    <3>1. code = c
      BY <1>2, <1>3, <1>12, <2>1 DEF IsKey, COUNT, Code
    <3> QED BY <1>2, <1>3, <1>7, <1>12, <2>1, <3>1
  <2>2. CASE k # n + 1
    <3>1. k \in 1 .. n
      BY <1>1, <2>2
    <3> QED BY <1>3, <1>7, <1>12, <3>1 DEF Trail
  <2> QED BY <2>1, <2>2
<1>13. Trail(cells, Q, b, first)
  <2>1. n + 1 > 0 /\ n + 1 # 0
    BY <1>1
  <2> HIDE DEF n
  <2> QED BY <1>3, <1>5, <1>7, <1>9, <1>10, <1>11, <1>12, <2>1 DEF Trail
<1> QED BY <1>13 DEF cells, cell

(* A repetition counted makes the newest stretch of the trail longer.      *)
LEMMA TrailCounted ==
  ASSUME NEW st, StackOK(st), NEW c \in Recorded, NEW new, StackOK(new), CountedUp(st, c, new),
         NEW P, NEW a \in Views, NEW b \in Views, NEW first \in Views,
         Trail(st.cells, P, a, first), Undone(c, b, a)
  PROVE  \E Q : Trail(new.cells, Q, b, first)
<1> DEFINE n == Len(st.cells)
           Q == [k \in 1 .. n |-> IF k = n THEN [j \in Nat |-> IF j = 0 THEN b ELSE P[n][j - 1]]
                                  ELSE P[k]]
<1>1. n \in Nat /\ n > 1 /\ n \in 1 .. n /\ n - 1 \in 1 .. n - 1
  BY LenProperties DEF StackOK, Stacks, CountedUp
<1>2. /\ Len(new.cells) = n /\ \A k \in 1 .. n - 1 : new.cells[k] = st.cells[k]
      /\ st.cells[n].code.op = "COUNT" /\ st.cells[n - 1].code = c
      /\ new.cells[n].code = COUNT(st.cells[n].code.arg - 1)
  BY DEF CountedUp
<1>3. P \in [1 .. n -> [Nat -> Views]] /\ P[n][0] = a
  BY <1>1 DEF Trail
<1>4. Q \in [1 .. n -> [Nat -> Views]]
  BY <1>1, <1>3
<1>5. /\ Uses(st.cells[n]) \in Nat /\ st.cells[n].code.arg \in Int
      /\ Uses(new.cells[n]) = Uses(st.cells[n]) + 1 /\ new.cells[n].code.op = "COUNT"
  BY <1>1, <1>2, UsesFacts DEF Uses, COUNT, Code
<1>6. CodeAt(new.cells, n) = c /\ CodeAt(st.cells, n) = c
  BY <1>1, <1>2, <1>5 DEF CodeAt
<1>7. /\ Q[n][0] = b /\ \A j \in Nat : Q[n][j + 1] = P[n][j]
      /\ \A k \in 1 .. n - 1 : Q[k] = P[k]
  BY <1>1
<1>8. \A k \in 1 .. n - 1 : CodeAt(new.cells, k) = CodeAt(st.cells, k)
  <2> SUFFICES ASSUME NEW k \in 1 .. n - 1 PROVE CodeAt(new.cells, k) = CodeAt(st.cells, k)
    OBVIOUS
  <2>1. CASE st.cells[k].code.op = "COUNT"
    <3>1. k \in 1 .. n
      BY <1>1
    <3>2. k - 1 \in 1 .. n - 1
      BY <1>1, <2>1, <3>1 DEF StackOK, Counted
    <3> QED BY <1>2, <3>2 DEF CodeAt
  <2> QED BY <1>2, <2>1 DEF CodeAt
<1> HIDE DEF Q
<1>9. Q[1][Uses(new.cells[1])] = first
  <2>1. 1 \in 1 .. n - 1 /\ P[1][Uses(st.cells[1])] = first
    BY <1>1 DEF Trail
  <2> QED BY <1>2, <1>7, <2>1
<1>10. ASSUME NEW k \in 2 .. n PROVE Q[k][Uses(new.cells[k])] = Q[k - 1][0]
  <2>1. P[k][Uses(st.cells[k])] = P[k - 1][0] /\ k - 1 \in 1 .. n - 1
    BY <1>1 DEF Trail
  <2>2. CASE k = n
    BY <1>5, <1>7, <2>1, <2>2
  <2>3. CASE k # n
    <3>1. k \in 1 .. n - 1
      BY <1>1, <2>3
    <3> QED BY <1>2, <1>7, <2>1, <3>1
  <2> QED BY <2>2, <2>3
<1>11. ASSUME NEW k \in 1 .. n, NEW j \in Nat, j < Uses(new.cells[k])
       PROVE  Undone(CodeAt(new.cells, k), Q[k][j], Q[k][j + 1])
  <2>1. CASE k = n /\ j = 0
    <3>1. Q[n][0 + 1] = P[n][0]
      BY <1>7
    <3> QED BY <1>3, <1>6, <1>7, <2>1, <3>1
  <2>2. CASE k = n /\ j # 0
    <3>1. j - 1 \in Nat /\ j - 1 < Uses(st.cells[n]) /\ (j - 1) + 1 = j
      BY <1>5, <1>11, <2>2
    <3>2. Undone(CodeAt(st.cells, n), P[n][j - 1], P[n][(j - 1) + 1])
      BY <1>1, <3>1 DEF Trail
    <3>3. Q[n][(j - 1) + 1] = P[n][j - 1] /\ Q[n][j + 1] = P[n][j]
      BY <1>7, <3>1
    <3> QED BY <1>6, <2>2, <3>1, <3>2, <3>3
  <2>3. CASE k # n
    <3>1. k \in 1 .. n - 1
      BY <1>1, <2>3
    <3>2. Undone(CodeAt(st.cells, k), P[k][j], P[k][j + 1])
      BY <1>2, <1>11, <3>1 DEF Trail
    <3> QED BY <1>7, <1>8, <3>1, <3>2
  <2> QED BY <2>1, <2>2, <2>3
<1>12. ASSUME NEW k \in 1 .. n, IsKey(new.cells[k].code)
       PROVE  Remembered(new.cells[k].seen, Q[k][0])
  <2>1. k # n
    BY <1>5, <1>12 DEF IsKey
  <2>2. k \in 1 .. n - 1
    BY <1>1, <2>1
  <2> QED BY <1>2, <1>7, <1>12, <2>2 DEF Trail
<1>13. Trail(new.cells, Q, b, first)
  <2> HIDE DEF n
  <2>1. n > 0 /\ n # 0
    BY <1>1
  <2> QED BY <1>2, <1>4, <1>7, <1>9, <1>10, <1>11, <1>12, <2>1 DEF Trail
<1> QED BY <1>13

(* A code pushed, however it is pushed, leaves a trail.                    *)
LEMMA TrailPush ==
  ASSUME NEW st, StackOK(st), NEW c \in Recorded, NEW seen \in Sights,
         NEW P, NEW a \in Views, NEW b \in Views, NEW first \in Views,
         Trail(st.cells, P, a, first), Undone(c, b, a), IsKey(c) => Remembered(seen, b),
         NEW new, StackOK(new),
         Dropped(st, c, new) \/ CountedUp(st, c, new) \/ Added(st, c, seen, new)
  PROVE  \E w, f, Q :
           /\ w \in {a, b} /\ f \in Views
           /\ Trail(new.cells, Q, w, f) /\ (w = b \/ IsKey(c))
           /\ ~new.lost => ~st.lost /\ f = first
<1>1. CASE Dropped(st, c, new)
  BY <1>1 DEF Dropped
<1>2. CASE CountedUp(st, c, new)
  <2>1. \E Q : Trail(new.cells, Q, b, first)
    BY <1>2, TrailCounted
  <2>2. new.lost = st.lost
    BY <1>2 DEF CountedUp
  <2> QED BY <2>1, <2>2
<1>3. CASE Added(st, c, seen, new)
  <2>1. PICK code \in {c, COUNT(-2)}, d \in 0 .. Len(st.cells) + 1 :
          /\ code # c => /\ Len(st.cells) > 0 /\ ~IsKey(c)
                         /\ st.cells[Len(st.cells)].code = c
          /\ Without(Append(st.cells, Cell(code, seen)), d, new.cells)
          /\ new.cells # << >> => IsKey(new.cells[1].code)
          /\ ~new.lost => d = 0 /\ ~st.lost
    BY <1>3 DEF Added
  <2> DEFINE cells == Append(st.cells, Cell(code, seen))
  <2>2. PICK Q : Trail(cells, Q, b, first)
    BY <2>1, TrailAdded
  <2>3. Len(cells) = Len(st.cells) + 1 /\ Len(st.cells) \in Nat
    <3>1. st.cells \in Seq(Cells)
      BY DEF StackOK, Stacks
    <3>2. code \in Recorded \cup {COUNT(m) : m \in Int}
      OBVIOUS
    <3>3. Cell(code, seen) \in Cells
      BY <3>2 DEF Cell, Cells
    <3> QED BY <3>1, <3>3, AppendProperties, LenProperties
  <2>4. Len(new.cells) > 0 => new.cells # << >>
    BY EmptySeq
  <2> HIDE DEF cells
  <2>5. PICK f, R : f \in Views /\ Trail(new.cells, R, b, f) /\ (d = 0 => f = first)
    <3>1. d \in 0 .. Len(cells) /\ Len(cells) \in Nat
      BY <2>3
    <3>2. Without(cells, d, new.cells)
      BY <2>1 DEF cells
    <3> QED BY <2>1, <2>2, <2>4, <3>1, <3>2, TrailCut
  <2> QED BY <2>1, <2>5
<1> QED BY <1>1, <1>2, <1>3

(* A code popped leads one step along the trail.                            *)
LEMMA TrailPop ==
  ASSUME NEW st, StackOK(st), Len(st.cells) > 0, NEW new, StackOK(new),
         CountedDown(st, new) \/ TakenOff(st, new),
         NEW P, NEW v \in Views, NEW first \in Views, Trail(st.cells, P, v, first)
  PROVE  /\ \E w, Q : /\ w \in Views
                      /\ Trail(new.cells, Q, w, first)
                      /\ Undone(Latest(st.cells), v, w)
                      /\ Len(new.cells) = 0 => IsKey(Latest(st.cells))
         /\ IsKey(Latest(st.cells)) => Remembered(st.cells[Len(st.cells)].seen, v)
<1> DEFINE n == Len(st.cells)
           w == P[n][1]
<1>1. n \in Nat /\ n > 0 /\ n \in 1 .. n
  BY LenProperties DEF StackOK, Stacks
<1>2. P \in [1 .. n -> [Nat -> Views]] /\ P[n][0] = v /\ P[1][Uses(st.cells[1])] = first
  BY <1>1 DEF Trail
<1>3. w \in Views
  BY <1>1, <1>2
<1>4. Uses(st.cells[n]) \in Nat /\ Uses(st.cells[n]) > 0
  BY <1>1, UsesFacts
<1>5. Undone(Latest(st.cells), v, w)
  <2>1. Undone(CodeAt(st.cells, n), P[n][0], P[n][0 + 1])
    BY <1>1, <1>4 DEF Trail
  <2> QED BY <1>2, <2>1 DEF Latest, CodeAt
<1>6. IsKey(Latest(st.cells)) => Remembered(st.cells[n].seen, v)
  <2> SUFFICES ASSUME IsKey(Latest(st.cells)) PROVE Remembered(st.cells[n].seen, v)
    OBVIOUS
  <2>1. st.cells[n].code.op # "COUNT"
    BY <1>1 DEF StackOK, Counted, Latest, IsKey
  <2>2. IsKey(st.cells[n].code)
    BY <2>1 DEF Latest
  <2> QED BY <1>1, <1>2, <2>2 DEF Trail
<1>7. CASE TakenOff(st, new)
  <2> DEFINE Q == [k \in 1 .. n - 1 |-> P[k]]
  <2>1. Uses(st.cells[n]) = 1 /\ Len(new.cells) = n - 1
        /\ \A k \in 1 .. n - 1 : new.cells[k] = st.cells[k]
    BY <1>7 DEF TakenOff, Uses
  <2>2. Q \in [1 .. n - 1 -> [Nat -> Views]] /\ \A k \in 1 .. n - 1 : Q[k] = P[k]
    BY <1>1, <1>2
  <2> HIDE DEF Q
  <2>3. \A k \in 1 .. n - 1 : CodeAt(new.cells, k) = CodeAt(st.cells, k)
    <3> SUFFICES ASSUME NEW k \in 1 .. n - 1 PROVE CodeAt(new.cells, k) = CodeAt(st.cells, k)
      OBVIOUS
    <3>1. CASE st.cells[k].code.op = "COUNT"
      <4>1. k \in 1 .. n
        BY <1>1
      <4>2. k - 1 \in 1 .. n - 1
        BY <1>1, <3>1, <4>1 DEF StackOK, Counted
      <4> QED BY <2>1, <4>2 DEF CodeAt
    <3> QED BY <2>1, <3>1 DEF CodeAt
  <2>4. n - 1 = 0 => w = first
    BY <1>2, <2>1
  <2>5. n - 1 > 0 => Q[n - 1][0] = w /\ Q[1][Uses(new.cells[1])] = first
    <3> SUFFICES ASSUME n - 1 > 0 PROVE Q[n - 1][0] = w /\ Q[1][Uses(new.cells[1])] = first
      OBVIOUS
    <3>1. n \in 2 .. n /\ 1 \in 1 .. n - 1 /\ n - 1 \in 1 .. n - 1
      BY <1>1
    <3>2. P[n][Uses(st.cells[n])] = P[n - 1][0]
      BY <3>1 DEF Trail
    <3> QED BY <1>2, <2>1, <2>2, <3>1, <3>2
  <2>6. ASSUME NEW k \in 2 .. n - 1 PROVE Q[k][Uses(new.cells[k])] = Q[k - 1][0]
    <3>1. k \in 2 .. n /\ k \in 1 .. n - 1 /\ k - 1 \in 1 .. n - 1
      BY <1>1
    <3>2. P[k][Uses(st.cells[k])] = P[k - 1][0]
      BY <3>1 DEF Trail
    <3> QED BY <2>1, <2>2, <3>1, <3>2
  <2>7. ASSUME NEW k \in 1 .. n - 1, NEW j \in Nat, j < Uses(new.cells[k])
        PROVE  Undone(CodeAt(new.cells, k), Q[k][j], Q[k][j + 1])
    <3>1. k \in 1 .. n
      BY <1>1
    <3>2. Undone(CodeAt(st.cells, k), P[k][j], P[k][j + 1])
      BY <2>1, <2>7, <3>1 DEF Trail
    <3> QED BY <2>2, <2>3, <3>2
  <2>8. ASSUME NEW k \in 1 .. n - 1, IsKey(new.cells[k].code)
        PROVE  Remembered(new.cells[k].seen, Q[k][0])
    <3>1. k \in 1 .. n
      BY <1>1
    <3> QED BY <2>1, <2>2, <2>8, <3>1 DEF Trail
  <2>9. Trail(new.cells, Q, w, first)
    <3> HIDE DEF w, n
    <3> QED BY <2>1, <2>2, <2>4, <2>5, <2>6, <2>7, <2>8 DEF Trail
  <2>10. Len(new.cells) = 0 => IsKey(Latest(st.cells))
    <3>3. Len(new.cells) = 0 => n = 1
      <4>1. Len(new.cells) = n - 1 /\ n \in Nat
        BY <1>1, <2>1
      <4> HIDE DEF n
      <4> QED BY <4>1
    <3> SUFFICES ASSUME n = 1 PROVE IsKey(Latest(st.cells))
      BY <3>3
    <3>1. st.cells # << >>
      BY <1>1, EmptySeq
    <3>2. IsKey(st.cells[n].code)
      BY <3>1 DEF StackOK, Counted
    <3> QED BY <3>2 DEF Latest, IsKey
  <2> QED BY <1>3, <1>5, <1>6, <2>9, <2>10
<1>8. CASE CountedDown(st, new)
  <2> DEFINE Q == [k \in 1 .. n |-> IF k = n THEN [j \in Nat |-> P[n][j + 1]] ELSE P[k]]
  <2>1. /\ Len(new.cells) = n /\ \A k \in 1 .. n - 1 : new.cells[k] = st.cells[k]
        /\ st.cells[n].code.op = "COUNT" /\ new.cells[n].code = COUNT(st.cells[n].code.arg + 1)
    BY <1>8 DEF CountedDown
  <2>2. n > 1 /\ n - 1 \in 1 .. n - 1
    BY <1>1, <2>1 DEF StackOK, Counted
  <2>3. Q \in [1 .. n -> [Nat -> Views]]
    <3>1. P[n] \in [Nat -> Views]
      BY <1>1, <1>2
    <3>2. [j \in Nat |-> P[n][j + 1]] \in [Nat -> Views]
      BY <3>1
    <3> HIDE DEF n
    <3> QED BY <1>2, <3>2
  <2>4. (\A j \in Nat : Q[n][j] = P[n][j + 1]) /\ \A k \in 1 .. n - 1 : Q[k] = P[k]
    BY <1>1
  <2>5. /\ Uses(new.cells[n]) + 1 = Uses(st.cells[n]) /\ new.cells[n].code.op = "COUNT"
        /\ Uses(new.cells[n]) \in Nat
    <3>1. st.cells[n].code.arg \in Int
      BY <1>1, <2>1, UsesFacts
    <3>2. Uses(new.cells[n]) \in Nat
      BY <1>1, <2>1, UsesFacts
    <3> QED BY <2>1, <3>1, <3>2 DEF Uses, COUNT, Code
  <2> HIDE DEF Q
  <2>6. \A k \in 1 .. n : CodeAt(new.cells, k) = CodeAt(st.cells, k)
    <3> SUFFICES ASSUME NEW k \in 1 .. n PROVE CodeAt(new.cells, k) = CodeAt(st.cells, k)
      OBVIOUS
    <3>1. CASE k = n
      BY <2>1, <2>2, <2>5, <3>1 DEF CodeAt
    <3>2. CASE k # n
      <4>1. k \in 1 .. n - 1
        BY <1>1, <3>2
      <4>2. st.cells[k].code.op = "COUNT" => k - 1 \in 1 .. n - 1
        BY <1>1, <4>1 DEF StackOK, Counted
      <4> QED BY <2>1, <4>1, <4>2 DEF CodeAt
    <3> QED BY <3>1, <3>2
  <2>7. Q[n][0] = w /\ Q[1][Uses(new.cells[1])] = first
    <3>1. 1 \in 1 .. n - 1 /\ 0 + 1 = 1
      BY <1>1, <2>2
    <3> QED BY <1>2, <2>1, <2>4, <3>1
  <2>8. ASSUME NEW k \in 2 .. n PROVE Q[k][Uses(new.cells[k])] = Q[k - 1][0]
    <3>1. P[k][Uses(st.cells[k])] = P[k - 1][0] /\ k - 1 \in 1 .. n - 1
      BY <1>1 DEF Trail
    <3>2. CASE k = n
      BY <2>4, <2>5, <3>1, <3>2
    <3>3. CASE k # n
      <4>1. k \in 1 .. n - 1
        BY <1>1, <3>3
      <4> QED BY <2>1, <2>4, <3>1, <4>1
    <3> QED BY <3>2, <3>3
  <2>9. ASSUME NEW k \in 1 .. n, NEW j \in Nat, j < Uses(new.cells[k])
        PROVE  Undone(CodeAt(new.cells, k), Q[k][j], Q[k][j + 1])
    <3>1. CASE k = n
      <4>1. j + 1 \in Nat /\ j + 1 < Uses(st.cells[n])
        BY <2>5, <2>9, <3>1
      <4>2. Undone(CodeAt(st.cells, n), P[n][j + 1], P[n][(j + 1) + 1])
        BY <1>1, <4>1 DEF Trail
      <4> QED BY <2>4, <2>6, <3>1, <4>1, <4>2
    <3>2. CASE k # n
      <4>1. k \in 1 .. n - 1
        BY <1>1, <3>2
      <4>2. Undone(CodeAt(st.cells, k), P[k][j], P[k][j + 1])
        BY <2>1, <2>9, <4>1 DEF Trail
      <4> QED BY <2>4, <2>6, <4>1, <4>2
    <3> QED BY <3>1, <3>2
  <2>10. ASSUME NEW k \in 1 .. n, IsKey(new.cells[k].code)
         PROVE  Remembered(new.cells[k].seen, Q[k][0])
    <3>1. k # n
      BY <2>5, <2>10 DEF IsKey
    <3>2. k \in 1 .. n - 1
      BY <1>1, <3>1
    <3> QED BY <2>1, <2>4, <2>10, <3>2 DEF Trail
  <2>11. Trail(new.cells, Q, w, first)
    <3>1. n > 0 /\ n # 0
      BY <1>1
    <3> HIDE DEF w, n
    <3> QED BY <2>1, <2>3, <2>7, <2>8, <2>9, <2>10, <3>1 DEF Trail
  <2>12. Len(new.cells) # 0
    BY <1>1, <2>1
  <2> QED BY <1>3, <1>5, <1>6, <2>11, <2>12
<1> QED BY <1>7, <1>8

(* A byte put in and taken out again, and the other way round.              *)
LEMMA TextFacts ==
  ASSUME NEW n \in Nat, NEW t \in TextsOfSize(n)
  PROVE  /\ \A p \in 0 .. n, c \in Byte :
              /\ WithByteAt(t, n, p, c) \in TextsOfSize(n + 1)
              /\ WithoutByteAt(WithByteAt(t, n, p, c), n + 1, p) = t
         /\ \A p \in 0 .. n - 1 :
              /\ t[p] \in Byte /\ n - 1 \in Nat
              /\ WithoutByteAt(t, n, p) \in TextsOfSize(n - 1)
              /\ WithByteAt(WithoutByteAt(t, n, p), n - 1, p, t[p]) = t
<1>1. DOMAIN t = 0 .. n - 1 /\ \A i \in 0 .. n - 1 : t[i] \in Byte
  BY DEF TextsOfSize
<1>2. t = [i \in 0 .. n - 1 |-> t[i]]
  BY DEF TextsOfSize
<1>3. ASSUME NEW p \in 0 .. n, NEW c \in Byte
      PROVE  /\ WithByteAt(t, n, p, c) \in TextsOfSize(n + 1)
             /\ WithoutByteAt(WithByteAt(t, n, p, c), n + 1, p) = t
  <2> DEFINE u == WithByteAt(t, n, p, c)
             r == WithoutByteAt(u, n + 1, p)
  <2>1. u = [i \in 0 .. n |-> IF i < p THEN t[i] ELSE IF i = p THEN c ELSE t[i - 1]]
    BY DEF WithByteAt
  <2>2. r = [i \in 0 .. n - 1 |-> IF i < p THEN u[i] ELSE u[i + 1]]
    <3>1. (n + 1) - 2 = n - 1
      OBVIOUS
    <3> QED BY <3>1 DEF WithoutByteAt
  <2> HIDE DEF u, r
  <2>3. u \in [0 .. n -> Byte] /\ (n + 1) - 1 = n
    BY <1>1, <2>1
  <2>4. \A i \in 0 .. n - 1 : (IF i < p THEN u[i] ELSE u[i + 1]) = t[i]
    BY <1>1, <2>1
  <2>5. r = [i \in 0 .. n - 1 |-> t[i]]
    BY <2>2, <2>4
  <2>6. u \in TextsOfSize(n + 1) /\ r = t
    BY <1>2, <2>3, <2>5 DEF TextsOfSize
  <2> QED BY <2>6 DEF u, r
<1>4. ASSUME NEW p \in 0 .. n - 1
      PROVE  /\ t[p] \in Byte /\ n - 1 \in Nat
             /\ WithoutByteAt(t, n, p) \in TextsOfSize(n - 1)
             /\ WithByteAt(WithoutByteAt(t, n, p), n - 1, p, t[p]) = t
  <2> DEFINE u == WithoutByteAt(t, n, p)
             r == WithByteAt(u, n - 1, p, t[p])
  <2>1. u = [i \in 0 .. n - 2 |-> IF i < p THEN t[i] ELSE t[i + 1]]
    BY DEF WithoutByteAt
  <2>2. r = [i \in 0 .. n - 1 |-> IF i < p THEN u[i] ELSE IF i = p THEN t[p] ELSE u[i - 1]]
    BY DEF WithByteAt
  <2> HIDE DEF u, r
  <2>3. u \in [0 .. n - 2 -> Byte] /\ (n - 1) - 1 = n - 2
    BY <1>1, <2>1
  <2>4. \A i \in 0 .. n - 1 :
           (IF i < p THEN u[i] ELSE IF i = p THEN t[p] ELSE u[i - 1]) = t[i]
    BY <1>1, <2>1
  <2>5. r = [i \in 0 .. n - 1 |-> t[i]]
    BY <2>2, <2>4
  <2>6. u \in TextsOfSize(n - 1) /\ r = t
    BY <1>2, <2>3, <2>5 DEF TextsOfSize
  <2>7. t[p] \in Byte /\ n - 1 \in Nat
    BY <1>1
  <2> QED BY <2>6, <2>7 DEF u, r
<1> QED BY <1>3, <1>4

-----------------------------------------------------------------------------
(* A stack leads from a view, along its trail, to the text it began with.   *)
View(t, n, p, S) == [text |-> t, size |-> n, cursor |-> p, sel |-> S]

Leads(st, v, o) ==
  \E first, P : first \in Views /\ Trail(st.cells, P, v, first) /\ (~st.lost => first.text = o)

(* A code pushed for the way back.                                          *)
LEMMA PushLeads ==
  ASSUME NEW st, StackOK(st), NEW c \in Recorded, NEW seen \in Sights, NEW o,
         NEW a \in Views, NEW b \in Views, Leads(st, a, o),
         Undone(c, b, a), IsKey(c) => Remembered(seen, b)
  PROVE  /\ StackOK(Pushed(st, c, seen))
         /\ \E w \in {a, b} : Leads(Pushed(st, c, seen), w, o) /\ (w = b \/ IsKey(c))
<1> DEFINE new == Pushed(st, c, seen)
<1>1. StackOK(new) /\ (Dropped(st, c, new) \/ CountedUp(st, c, new) \/ Added(st, c, seen, new))
  BY PushedDoes
<1> HIDE DEF new
<1>2. PICK first, P : first \in Views /\ Trail(st.cells, P, a, first) /\ (~st.lost => first.text = o)
  BY DEF Leads
<1>3. \E w, f, Q :
           /\ w \in {a, b} /\ f \in Views
           /\ Trail(new.cells, Q, w, f) /\ (w = b \/ IsKey(c))
           /\ ~new.lost => ~st.lost /\ f = first
  BY <1>1, <1>2, TrailPush
<1>4. PICK w, f, Q :
           /\ w \in {a, b} /\ f \in Views
           /\ Trail(new.cells, Q, w, f) /\ (w = b \/ IsKey(c))
           /\ ~new.lost => ~st.lost /\ f = first
  BY <1>3
<1>5. Leads(new, w, o) /\ (w = b \/ IsKey(c))
  BY <1>2, <1>4 DEF Leads
<1> QED BY <1>1, <1>4, <1>5 DEF new

(* A code popped is the way back.                                           *)
LEMMA PopLeads ==
  ASSUME NEW st, StackOK(st), NEW o, NEW v \in Views, Leads(st, v, o)
  PROVE  /\ StackOK(Popped(st)) /\ Popped(st).lost = st.lost
         /\ st.cells = << >> =>
              Top(st) = STACK_BOTTOM /\ Popped(st) = st /\ (~st.lost => v.text = o)
         /\ st.cells # << >> =>
              /\ Top(st) \in Recorded
              /\ IsKey(Top(st)) => Remembered(TopSeen(st), v)
              /\ \E w \in Views : /\ Leads(Popped(st), w, o) /\ Undone(Top(st), v, w)
                                  /\ Popped(st).cells = << >> => IsKey(Top(st))
<1> DEFINE new == Popped(st)
<1>1. /\ StackOK(new) /\ new.lost = st.lost
      /\ \/ st.cells = << >> /\ Top(st) = STACK_BOTTOM /\ new = st
         \/ /\ Len(st.cells) > 0 /\ Top(st) = Latest(st.cells) /\ Top(st) \in Recorded
            /\ CountedDown(st, new) \/ TakenOff(st, new)
  BY PoppedDoes
<1> HIDE DEF new
<1>2. PICK first, P : first \in Views /\ Trail(st.cells, P, v, first) /\ (~st.lost => first.text = o)
  BY DEF Leads
<1>3. st.cells \in Seq(Cells) /\ new.cells \in Seq(Cells)
  BY <1>1 DEF StackOK, Stacks
<1>4. CASE st.cells = << >>
  <2>1. Len(st.cells) = 0
    BY <1>4, EmptySeq
  <2>2. v = first
    BY <1>2, <2>1 DEF Trail
  <2> QED BY <1>1, <1>2, <1>4, <2>1, <2>2 DEF new
<1>5. CASE st.cells # << >>
  <2>1. /\ Len(st.cells) > 0 /\ Top(st) = Latest(st.cells) /\ Top(st) \in Recorded
        /\ CountedDown(st, new) \/ TakenOff(st, new)
    BY <1>1, <1>5
  <2>2. /\ \E w, Q : /\ w \in Views
                     /\ Trail(new.cells, Q, w, first)
                     /\ Undone(Latest(st.cells), v, w)
                     /\ Len(new.cells) = 0 => IsKey(Latest(st.cells))
        /\ IsKey(Latest(st.cells)) => Remembered(st.cells[Len(st.cells)].seen, v)
    BY <1>1, <1>2, <2>1, TrailPop
  <2>3. PICK w, Q : /\ w \in Views
                    /\ Trail(new.cells, Q, w, first)
                    /\ Undone(Latest(st.cells), v, w)
                    /\ Len(new.cells) = 0 => IsKey(Latest(st.cells))
    BY <2>2
  <2>4. Leads(new, w, o)
    BY <1>1, <1>2, <2>3 DEF Leads
  <2>5. new.cells = << >> => IsKey(Top(st))
    <3>1. new.cells = << >> => Len(new.cells) = 0
      BY <1>3, EmptySeq
    <3> QED BY <2>1, <2>3, <3>1
  <2>6. IsKey(Top(st)) => Remembered(TopSeen(st), v)
    BY <2>1, <2>2 DEF TopSeen
  <2>7. Undone(Top(st), v, w)
    BY <2>1, <2>3
  <2> QED BY <1>1, <1>5, <2>1, <2>3, <2>4, <2>5, <2>6, <2>7 DEF new
<1> QED BY <1>4, <1>5

Good(t) == t = [undo |-> t.undo, redo |-> t.redo] /\ StackOK(t.undo) /\ StackOK(t.redo)

Data ==
  /\ size \in Nat /\ text \in TextsOfSize(size) /\ cursor \in 0 .. size /\ start_display \in Nat
  /\ mark1 \in Int /\ mark2 \in Int /\ end_mark_curs \in Int

(* What a key press sees is a text with a cursor and markers.              *)
LEMMA NowSeen == Data => Now \in Sights /\ text \in Texts
BY DEF Data, Now, Sights, Texts

(* Doubling keeps a stack well formed.                                     *)
LEMMA DoubledOK ==
  ASSUME NEW st, StackOK(st)
  PROVE  StackOK(Doubled(st)) /\ Doubled(st).cells = st.cells /\ Doubled(st).lost = st.lost
BY DoubledIs DEF StackOK

(* A stack emptied is well formed.                                         *)
LEMMA EmptiedOK ==
  ASSUME NEW st, StackOK(st)
  PROVE  StackOK(Emptied(st))
<1>1. st = [cells |-> st.cells, size |-> st.size, lost |-> st.lost]
      /\ st.size \in Nat /\ st.lost \in BOOLEAN
  BY DEF StackOK, Stacks
<1>2. Emptied(st) = [cells |-> << >>, size |-> st.size, lost |-> st.lost]
  BY <1>1 DEF Emptied
<1>3. << >> \in Seq(Cells) /\ Len(<< >>) = 0
  BY EmptySeq
<1>4. Counted(<< >>)
  BY <1>3 DEF Counted
<1> QED BY <1>1, <1>2, <1>3, <1>4 DEF StackOK, Stacks

(* A code recorded, by an Undo and by all others.                           *)
LEMMA PushGood ==
  ASSUME Data, NEW t, Good(t), NEW c \in Recorded
  PROVE  LET u == edit_push_undo_action(t, c)
         IN  /\ Good(u)
             /\ pc = "undo" => u.undo.cells = t.undo.cells /\ u.undo.lost = t.undo.lost
             /\ pc # "undo" => u.undo = Pushed(t.undo, c, Now)
<1>1. Now \in Sights
  BY NowSeen
<1>2. StackOK(t.undo) /\ StackOK(t.redo)
  BY DEF Good
<1>3. CASE pc = "undo"
  <2>1. edit_push_undo_action(t, c) =
          [undo |-> Doubled(t.undo), redo |-> Pushed(Pushed(t.redo, KEY_PRESS(0), Now), c, Now)]
    BY <1>3 DEF edit_push_undo_action, undo_stack_disable
  <2>2. KEY_PRESS(0) \in Recorded
    BY DEF Recorded
  <2>3. StackOK(Pushed(t.redo, KEY_PRESS(0), Now))
    BY <1>1, <1>2, <2>2, PushedDoes
  <2>4. StackOK(Pushed(Pushed(t.redo, KEY_PRESS(0), Now), c, Now))
    BY <1>1, <2>3, PushedDoes
  <2>5. StackOK(Doubled(t.undo)) /\ Doubled(t.undo).cells = t.undo.cells
        /\ Doubled(t.undo).lost = t.undo.lost
    BY <1>2, DoubledOK
  <2> QED BY <1>3, <2>1, <2>4, <2>5 DEF Good
<1>4. CASE pc # "undo"
  <2>1. edit_push_undo_action(t, c) =
          [undo |-> Pushed(t.undo, c, Now),
           redo |-> IF redo_stack_reset THEN Emptied(t.redo) ELSE t.redo]
    BY <1>4 DEF edit_push_undo_action, undo_stack_disable
  <2>2. StackOK(Pushed(t.undo, c, Now)) /\ StackOK(Emptied(t.redo))
    BY <1>1, <1>2, PushedDoes, EmptiedOK
  <2> QED BY <1>2, <1>4, <2>1, <2>2 DEF Good
<1> QED BY <1>3, <1>4

(* The codes of one Record.                                                 *)
LEMMA RecordIs ==
  ASSUME NEW s, NEW codes, Record(s, codes)
  PROVE  /\ Len(codes) = 1 => stack' = edit_push_undo_action(s, codes[1])
         /\ Len(codes) = 3 => stack' =
              edit_push_undo_action(edit_push_undo_action(
                edit_push_undo_action(s, codes[1]), codes[2]), codes[3])
         /\ Len(codes) = 4 => stack' =
              edit_push_undo_action(edit_push_undo_action(edit_push_undo_action(
                edit_push_undo_action(s, codes[1]), codes[2]), codes[3]), codes[4])
<1>1. 1 <= 1 /\ ~(2 <= 1) /\ ~(3 <= 1) /\ ~(4 <= 1) /\ 1 <= 3 /\ 2 <= 3 /\ 3 <= 3 /\ ~(4 <= 3)
      /\ 1 <= 4 /\ 2 <= 4 /\ 3 <= 4 /\ 4 <= 4
  OBVIOUS
<1>2. CASE Len(codes) = 1
  BY <1>1, <1>2 DEF Record
<1>3. CASE Len(codes) = 3
  BY <1>1, <1>3 DEF Record
<1>4. CASE Len(codes) = 4
  BY <1>1, <1>4 DEF Record
<1> QED BY <1>2, <1>3, <1>4

(* Whatever an Undo records, the codes it has still to undo are the same.   *)
LEMMA UndoRecords ==
  ASSUME Data, pc = "undo", NEW s, Good(s), NEW codes \in Seq(Recorded),
         Len(codes) \in {1, 3, 4}, Record(s, codes)
  PROVE  Good(stack') /\ stack'.undo.cells = s.undo.cells /\ stack'.undo.lost = s.undo.lost
<1> DEFINE t1 == edit_push_undo_action(s, codes[1])
           t2 == edit_push_undo_action(t1, codes[2])
           t3 == edit_push_undo_action(t2, codes[3])
           t4 == edit_push_undo_action(t3, codes[4])
           Same(t) == Good(t) /\ t.undo.cells = s.undo.cells /\ t.undo.lost = s.undo.lost
<1>1. \A k \in 1 .. Len(codes) : codes[k] \in Recorded
  BY LenProperties
<1>2. Same(t1)
  BY <1>1, PushGood
<1> HIDE DEF t1
<1>3. Len(codes) >= 3 => Same(t2)
  <2> SUFFICES ASSUME Len(codes) >= 3 PROVE Same(t2)
    OBVIOUS
  <2>1. codes[2] \in Recorded
    BY <1>1
  <2>2. Same(t1)
    BY <1>2
  <2> QED BY <2>1, <2>2, PushGood
<1> HIDE DEF t2
<1>4. Len(codes) >= 3 => Same(t3)
  <2> SUFFICES ASSUME Len(codes) >= 3 PROVE Same(t3)
    OBVIOUS
  <2>1. codes[3] \in Recorded
    BY <1>1
  <2>2. Same(t2)
    BY <1>3
  <2> QED BY <2>1, <2>2, PushGood
<1> HIDE DEF t3
<1>5. Len(codes) = 4 => Same(t4)
  <2> SUFFICES ASSUME Len(codes) = 4 PROVE Same(t4)
    OBVIOUS
  <2>1. codes[4] \in Recorded
    BY <1>1
  <2>2. Same(t3)
    BY <1>4
  <2> QED BY <2>1, <2>2, PushGood
<1> HIDE DEF t4
<1>6. stack' = t1 \/ (Len(codes) = 3 /\ stack' = t3) \/ (Len(codes) = 4 /\ stack' = t4)
  BY RecordIs DEF t1, t2, t3, t4
<1> QED BY <1>2, <1>4, <1>5, <1>6

(* A code recorded by a command.                                            *)
LEMMA PushOne ==
  ASSUME Data, pc # "undo", NEW t, Good(t), NEW c \in Recorded, NEW o,
         NEW a \in Views, NEW b \in Views, Leads(t.undo, a, o),
         Undone(c, b, a), IsKey(c) => Remembered(Now, b)
  PROVE  LET u == edit_push_undo_action(t, c)
         IN  Good(u) /\ \E w \in {a, b} : Leads(u.undo, w, o) /\ (w = b \/ IsKey(c))
<1>1. StackOK(t.undo) /\ Now \in Sights
  BY NowSeen DEF Good
<1>2. \E w \in {a, b} : Leads(Pushed(t.undo, c, Now), w, o) /\ (w = b \/ IsKey(c))
  BY <1>1, PushLeads
<1>3. Good(edit_push_undo_action(t, c))
      /\ edit_push_undo_action(t, c).undo = Pushed(t.undo, c, Now)
  BY PushGood
<1> QED BY <1>2, <1>3

(* The markers make codes, also where MARK_CURS falls out of its range.    *)
LEMMA MarkerCodes ==
  Data => /\ Code("MARK_1", mark1) \in Recorded /\ Code("MARK_2", mark2) \in Recorded
          /\ MARK_CURS(end_mark_curs) \in Recorded
          /\ MARK_CURS(end_mark_curs).op \in {"MARK_2", "MARK_CURS"}
          /\ MARK_CURS(end_mark_curs).arg \in Int
BY DEF Data, MARK_CURS, MARK_GAP, Recorded, Code

ViewHere(S) == View(text, size, cursor, S)

(* What the editor shows, with any pairs of markers, is a view.            *)
LEMMA HereIsView == Data => \A S \in SUBSET Pairs : ViewHere(S) \in Views
BY NowSeen DEF Data, ViewHere, View, Views

(* A code for a marker leaves the text alone.                               *)
LEMMA MarkUndone ==
  ASSUME Data, NEW op \in {"MARK_1", "MARK_2", "MARK_CURS"}, NEW n \in Int,
         NEW S \in SUBSET Pairs, NEW R \in SUBSET Pairs,
         \A m \in R : (CASE op = "MARK_1" -> <<n, m[2]>>
                        [] op = "MARK_2" -> <<m[1], n>>
                        [] OTHER -> m) \in S
  PROVE  Undone(Code(op, n), ViewHere(R), ViewHere(S)) /\ ~IsKey(Code(op, n))
<1> DEFINE c == Code(op, n)
<1>1. c.op = op /\ c.arg = n
  BY DEF Code
<1> HIDE DEF c
<1>2. TextAfter(c, ViewHere(R), ViewHere(S))
  BY <1>1 DEF TextAfter, ViewHere, View
<1>3. ViewHere(R).sel = R /\ ViewHere(S).sel = S
  BY DEF ViewHere, View
<1>4. ASSUME NEW m \in R PROVE MarksAfter(c, ViewHere(R).cursor, m) \in S
  <2>1. CASE op = "MARK_1"
    BY <1>1, <2>1 DEF MarksAfter
  <2>2. CASE op = "MARK_2"
    BY <1>1, <2>2 DEF MarksAfter
  <2>3. CASE op = "MARK_CURS"
    BY <1>1, <2>3 DEF MarksAfter
  <2> QED BY <2>1, <2>2, <2>3
<1>5. ~IsKey(c)
  BY <1>1 DEF IsKey
<1>6. Undone(c, ViewHere(R), ViewHere(S))
  BY <1>2, <1>3, <1>4, <1>5 DEF Undone
<1> QED BY <1>5, <1>6 DEF c

-----------------------------------------------------------------------------
(* From here on an Undo leads back, with the selection if no Redo has put   *)
(* other markers.                                                           *)
Way(st, t, n, p, m1, m2) ==
  \E S \in SUBSET Pairs : /\ Leads(st, View(t, n, p, S), original)
                          /\ remarked \/ <<m1, m2>> \in S
                          /\ Settled(S)

(* One code more on the way.                                                *)
LEMMA PushStep ==
  ASSUME Data, pc # "undo", NEW s, Good(s), NEW c \in Recorded, ~IsKey(c),
         NEW n \in Nat, NEW t \in TextsOfSize(n), NEW p \in 0 .. n,
         NEW S \in SUBSET Pairs, NEW R \in SUBSET Pairs, Leads(s.undo, ViewHere(S), original),
         TextAfter(c, View(t, n, p, R), ViewHere(S)),
         \A m \in R : MarksAfter(c, p, m) \in S
  PROVE  LET u == edit_push_undo_action(s, c)
         IN  Good(u) /\ Leads(u.undo, View(t, n, p, R), original)
<1> DEFINE a == ViewHere(S)
           b == View(t, n, p, R)
<1>1. a \in Views /\ a.sel = S
  BY HereIsView DEF ViewHere, View
<1>2. b \in Views /\ b.sel = R /\ b.cursor = p
  <2>1. t \in Texts /\ p \in Nat
    BY DEF Texts
  <2> QED BY <2>1 DEF View, Views
<1>3. TextAfter(c, b, a)
  OBVIOUS
<1>4. Leads(s.undo, a, original)
  OBVIOUS
<1> HIDE DEF a, b
<1>5. Undone(c, b, a)
  BY <1>1, <1>2, <1>3 DEF Undone
<1>6. Good(edit_push_undo_action(s, c))
      /\ \E w \in {a, b} : Leads(edit_push_undo_action(s, c).undo, w, original) /\ (w = b \/ IsKey(c))
  BY <1>1, <1>2, <1>4, <1>5, PushOne
<1> QED BY <1>6 DEF b

(* A code whose reverse keeps two different markers different.              *)
LEMMA OneStep ==
  ASSUME Data, pc # "undo", NEW s, Good(s), Way(s.undo, text, size, cursor, mark1, mark2),
         NEW c \in Recorded, ~IsKey(c),
         NEW n \in Nat, NEW t \in TextsOfSize(n), NEW p \in 0 .. n, NEW m1 \in Int, NEW m2 \in Int,
         \A R, S \in SUBSET Pairs : TextAfter(c, View(t, n, p, R), ViewHere(S)),
         \A m \in Pairs : MarksAfter(c, p, m) \in Pairs,
         mark1 # mark2 /\ mark2 # -1 =>
           MarksAfter(c, p, <<m1, m2>>) = <<mark1, mark2>> /\ m1 # m2 /\ m2 # -1
  PROVE  LET u == edit_push_undo_action(s, c)
         IN  Good(u) /\ Way(u.undo, t, n, p, m1, m2)
<1>1. PICK S \in SUBSET Pairs : /\ Leads(s.undo, ViewHere(S), original)
                                /\ remarked \/ <<mark1, mark2>> \in S
                                /\ Settled(S)
  BY DEF Way, ViewHere
<1>2. CASE S = Pairs
  <2>1. TextAfter(c, View(t, n, p, Pairs), ViewHere(S)) /\ Pairs \in SUBSET Pairs
    OBVIOUS
  <2>2. Good(edit_push_undo_action(s, c))
        /\ Leads(edit_push_undo_action(s, c).undo, View(t, n, p, Pairs), original)
    BY <1>1, <1>2, <2>1, PushStep
  <2>3. <<m1, m2>> \in Pairs /\ Settled(Pairs)
    BY DEF Pairs, Settled
  <2> QED BY <2>2, <2>3 DEF Way
<1>3. CASE S # Pairs
  <2> DEFINE R == IF <<mark1, mark2>> \in S THEN {<<m1, m2>>} ELSE {}
  <2>1. R \in SUBSET Pairs
    BY DEF Pairs
  <2>2. <<mark1, mark2>> \in S => mark1 # mark2 /\ mark2 # -1
    BY <1>1, <1>3 DEF Settled
  <2>3. \A m \in R : MarksAfter(c, p, m) \in S
    BY <2>2
  <2>4. Settled(R)
    BY <2>2 DEF Settled
  <2>5. remarked \/ <<m1, m2>> \in R
    BY <1>1
  <2> HIDE DEF R
  <2>6. TextAfter(c, View(t, n, p, R), ViewHere(S))
    BY <2>1
  <2>7. Good(edit_push_undo_action(s, c))
        /\ Leads(edit_push_undo_action(s, c).undo, View(t, n, p, R), original)
    BY <1>1, <2>1, <2>3, <2>6, PushStep
  <2> QED BY <2>1, <2>4, <2>5, <2>7 DEF Way
<1> QED BY <1>2, <1>3

(* Once its markers are on the stack, any others lead back.                 *)
LEMMA MarkersStep ==
  ASSUME Data, pc # "undo", NEW s, Good(s), Way(s.undo, text, size, cursor, mark1, mark2)
  PROVE  LET u == edit_push_undo_action(edit_push_undo_action(edit_push_undo_action(
                    s, Code("MARK_1", mark1)), Code("MARK_2", mark2)), MARK_CURS(end_mark_curs))
         IN  Good(u) /\ \E S \in {Pairs, {}} : Leads(u.undo, ViewHere(S), original)
                                               /\ (remarked \/ S = Pairs)
<1>1. PICK S \in SUBSET Pairs : /\ Leads(s.undo, ViewHere(S), original)
                                /\ remarked \/ <<mark1, mark2>> \in S
                                /\ Settled(S)
  BY DEF Way, ViewHere
<1> DEFINE R == IF <<mark1, mark2>> \in S THEN Pairs ELSE {}
           R1 == {m \in R : m[2] = mark2}
           c == MARK_CURS(end_mark_curs)
           t1 == edit_push_undo_action(s, Code("MARK_1", mark1))
           t2 == edit_push_undo_action(t1, Code("MARK_2", mark2))
           t3 == edit_push_undo_action(t2, c)
<1>2. /\ mark1 \in Int /\ mark2 \in Int /\ size \in Nat
      /\ text \in TextsOfSize(size) /\ cursor \in 0 .. size
  BY DEF Data
<1>3. R \in SUBSET Pairs /\ R1 \in SUBSET Pairs /\ R \in {Pairs, {}} /\ (remarked \/ R = Pairs)
  BY <1>1
<1>4. \A m \in R1 : <<mark1, m[2]>> \in S
  OBVIOUS
<1>5. \A m \in R, n \in Int : <<m[1], n>> \in R /\ (n = mark2 => <<m[1], n>> \in R1)
  BY <1>2 DEF Pairs
<1> HIDE DEF R, R1
<1>6. /\ Code("MARK_1", mark1) \in Recorded /\ Code("MARK_2", mark2) \in Recorded
      /\ c \in Recorded /\ c.op \in {"MARK_2", "MARK_CURS"} /\ c.arg \in Int
      /\ c = Code(c.op, c.arg)
  BY MarkerCodes, CodeFacts DEF Code
<1> HIDE DEF c
<1>7. Good(t1) /\ Leads(t1.undo, ViewHere(R1), original)
  <2>1. Undone(Code("MARK_1", mark1), ViewHere(R1), ViewHere(S)) /\ ~IsKey(Code("MARK_1", mark1))
    BY <1>2, <1>3, <1>4, MarkUndone
  <2> QED BY <1>1, <1>3, <1>6, <2>1, PushOne, HereIsView
<1> HIDE DEF t1
<1>8. Good(t2) /\ Leads(t2.undo, ViewHere(R), original)
  <2>1. Undone(Code("MARK_2", mark2), ViewHere(R), ViewHere(R1)) /\ ~IsKey(Code("MARK_2", mark2))
    BY <1>2, <1>3, <1>5, MarkUndone
  <2> QED BY <1>3, <1>6, <1>7, <2>1, PushOne, HereIsView
<1> HIDE DEF t2
<1>9. Good(t3) /\ Leads(t3.undo, ViewHere(R), original)
  <2>1. Undone(Code(c.op, c.arg), ViewHere(R), ViewHere(R)) /\ ~IsKey(Code(c.op, c.arg))
    BY <1>3, <1>5, <1>6, MarkUndone
  <2>2. Undone(c, ViewHere(R), ViewHere(R)) /\ ~IsKey(c)
    BY <1>6, <2>1
  <2> QED BY <1>3, <1>6, <1>8, <2>2, PushOne, HereIsView
<1> QED BY <1>3, <1>9 DEF t3, t2, t1, c

-----------------------------------------------------------------------------
(* The lists of codes that are recorded.                                   *)
LEMMA ShortSeqs ==
  ASSUME NEW S, NEW a \in S, NEW b \in S, NEW c \in S, NEW d \in S
  PROVE  /\ Len(<<a>>) = 1 /\ <<a>>[1] = a
         /\ Len(<<a, b, c>>) = 3 /\ <<a, b, c>>[1] = a /\ <<a, b, c>>[2] = b /\ <<a, b, c>>[3] = c
         /\ Len(<< >> \o <<a>>) = 1 /\ (<< >> \o <<a>>)[1] = a
         /\ Len(<<a>> \o << >>) = 1 /\ (<<a>> \o << >>)[1] = a
         /\ Len(<<a>> \o <<b, c>>) = 3 /\ (<<a>> \o <<b, c>>)[1] = a
         /\ (<<a>> \o <<b, c>>)[2] = b /\ (<<a>> \o <<b, c>>)[3] = c
         /\ Len(<<a, b, c>> \o <<d>>) = 4
         /\ (<<a, b, c>> \o <<d>>)[1] = a /\ (<<a, b, c>> \o <<d>>)[2] = b
         /\ (<<a, b, c>> \o <<d>>)[3] = c /\ (<<a, b, c>> \o <<d>>)[4] = d
         /\ <<a>> \in Seq(S) /\ <<a, b, c>> \in Seq(S)
         /\ << >> \o <<a>> \in Seq(S) /\ <<a, b, c>> \o <<d>> \in Seq(S)
<1>1. << >> \in Seq(S) /\ <<a>> \in Seq(S) /\ <<d>> \in Seq(S) /\ <<b, c>> \in Seq(S)
      /\ <<a, b, c>> \in Seq(S)
  OBVIOUS
<1>2. /\ Len(<< >>) = 0 /\ Len(<<a>>) = 1 /\ Len(<<d>>) = 1 /\ Len(<<b, c>>) = 2 /\ Len(<<a, b, c>>) = 3
      /\ <<a>>[1] = a /\ <<d>>[1] = d /\ <<b, c>>[1] = b /\ <<b, c>>[2] = c
      /\ <<a, b, c>>[1] = a /\ <<a, b, c>>[2] = b /\ <<a, b, c>>[3] = c
  OBVIOUS
<1>3. /\ Len(<< >> \o <<a>>) = 1 /\ (<< >> \o <<a>>)[1] = a /\ << >> \o <<a>> \in Seq(S)
  BY <1>1, <1>2, ConcatProperties
<1>4. /\ Len(<<a>> \o << >>) = 1 /\ (<<a>> \o << >>)[1] = a
  BY <1>1, <1>2, ConcatProperties
<1>5. /\ Len(<<a>> \o <<b, c>>) = 3 /\ (<<a>> \o <<b, c>>)[1] = a
      /\ (<<a>> \o <<b, c>>)[2] = b /\ (<<a>> \o <<b, c>>)[3] = c
  BY <1>1, <1>2, ConcatProperties
<1>6. /\ Len(<<a, b, c>> \o <<d>>) = 4 /\ <<a, b, c>> \o <<d>> \in Seq(S)
      /\ (<<a, b, c>> \o <<d>>)[1] = a /\ (<<a, b, c>> \o <<d>>)[2] = b
      /\ (<<a, b, c>> \o <<d>>)[3] = c /\ (<<a, b, c>> \o <<d>>)[4] = d
  BY <1>1, <1>2, ConcatProperties
<1> QED BY <1>1, <1>2, <1>3, <1>4, <1>5, <1>6

(* The key press itself: the selection it remembers is the one to find.     *)
LEMMA KeyStep ==
  ASSUME Data, pc # "undo", Good(stack), Way(stack.undo, text, size, cursor, mark1, mark2),
         Record(stack, KeyPress)
  PROVE  Good(stack') /\ Way(stack'.undo, text, size, cursor, mark1, mark2)
<1>1. PICK S \in SUBSET Pairs : /\ Leads(stack.undo, ViewHere(S), original)
                                /\ remarked \/ <<mark1, mark2>> \in S
                                /\ Settled(S)
  BY DEF Way, ViewHere
<1> DEFINE R == IF mark2 >= 0 /\ mark1 # mark2 THEN {m \in S : m = <<mark1, mark2>>} ELSE S
           k == KEY_PRESS(start_display)
           t1 == edit_push_undo_action(stack, k)
           c == MARK_CURS(end_mark_curs)
           t2 == edit_push_undo_action(t1, Code("MARK_1", mark1))
           t3 == edit_push_undo_action(t2, c)
<1>2. /\ mark1 \in Int /\ mark2 \in Int /\ start_display \in Nat
  BY DEF Data
<1>3. /\ R \in SUBSET Pairs /\ R \subseteq S /\ Settled(R) /\ (remarked \/ <<mark1, mark2>> \in R)
      /\ mark2 >= 0 /\ mark1 # mark2 => R \subseteq {<<mark1, mark2>>}
      /\ mark2 = -1 => R = S
  <2>1. mark2 >= 0 /\ mark1 # mark2 => mark1 # mark2 /\ mark2 # -1
    BY <1>2
  <2>2. Settled(R)
    BY <1>1, <2>1 DEF Settled
  <2> QED BY <1>1, <1>2, <2>2
<1> HIDE DEF R
<1>4. k \in Recorded /\ k.op = "KEY_PRESS" /\ IsKey(k)
  BY <1>2 DEF Recorded, KEY_PRESS, Code, IsKey
<1> HIDE DEF k
<1>5. Undone(k, ViewHere(R), ViewHere(S))
  <2>1. TextAfter(k, ViewHere(R), ViewHere(S))
    BY <1>4 DEF TextAfter, ViewHere, View
  <2>2. ViewHere(R).sel = R /\ ViewHere(S).sel = S
    BY DEF ViewHere, View
  <2>3. \A m \in R : MarksAfter(k, ViewHere(R).cursor, m) \in S
    BY <1>3, <1>4 DEF MarksAfter
  <2> QED BY <1>1, <1>3, <2>1, <2>2, <2>3 DEF Undone
<1>6. Remembered(Now, ViewHere(R))
  BY <1>3 DEF Remembered, Now, ViewHere, View
<1>7. PICK w \in {ViewHere(S), ViewHere(R)} : Leads(t1.undo, w, original)
  BY <1>1, <1>3, <1>4, <1>5, <1>6, PushOne, HereIsView
<1>8. Good(t1)
  BY <1>4, PushGood
<1> HIDE DEF t1
<1>9. Way(t1.undo, text, size, cursor, mark1, mark2)
  BY <1>1, <1>3, <1>7 DEF Way, ViewHere
<1>10. CASE mark2 # -1
  <2>1. Len(KeyPress) = 1 /\ KeyPress[1] = k
    BY <1>4, <1>10, ShortSeqs DEF KeyPress, k
  <2>2. stack' = t1
    BY <2>1, RecordIs DEF t1
  <2> QED BY <1>8, <1>9, <2>2
<1>11. CASE mark2 = -1
  <2>1. /\ Len(KeyPress) = 3 /\ KeyPress[1] = k /\ KeyPress[2] = Code("MARK_1", mark1)
        /\ KeyPress[3] = c
    <3>1. Code("MARK_1", mark1) \in Recorded /\ c \in Recorded
      BY MarkerCodes
    <3> QED BY <1>4, <1>11, <3>1, ShortSeqs DEF KeyPress, k
  <2>2. stack' = t3
    BY <2>1, RecordIs DEF t1
  <2> DEFINE Q == IF S = Pairs THEN Pairs ELSE {}
  <2>3. Q \in SUBSET Pairs /\ Settled(Q)
    BY DEF Settled
  <2>4. remarked \/ <<mark1, mark2>> \in Q
    BY <1>1, <1>11 DEF Settled
  <2>5. \A m \in Q : <<mark1, m[2]>> \in S
    BY <1>2 DEF Pairs
  <2>6. \A m \in Q, n \in Int : <<m[1], n>> \in Q
    BY DEF Pairs
  <2> HIDE DEF Q
  <2>7. /\ Code("MARK_1", mark1) \in Recorded
        /\ c \in Recorded /\ c.op \in {"MARK_2", "MARK_CURS"} /\ c.arg \in Int
        /\ c = Code(c.op, c.arg)
    BY MarkerCodes, CodeFacts DEF Code
  <2>8. Leads(t1.undo, ViewHere(S), original)
    BY <1>3, <1>7, <1>11
  <2> HIDE DEF c
  <2>9. Good(t2) /\ Leads(t2.undo, ViewHere(Q), original)
    <3>1. Undone(Code("MARK_1", mark1), ViewHere(Q), ViewHere(S)) /\ ~IsKey(Code("MARK_1", mark1))
      BY <1>2, <2>3, <2>5, MarkUndone
    <3> QED BY <1>8, <2>3, <2>7, <2>8, <3>1, PushOne, HereIsView
  <2> HIDE DEF t2
  <2>10. Good(t3) /\ Leads(t3.undo, ViewHere(Q), original)
    <3>1. Undone(Code(c.op, c.arg), ViewHere(Q), ViewHere(Q)) /\ ~IsKey(Code(c.op, c.arg))
      BY <2>3, <2>6, <2>7, MarkUndone
    <3>2. Undone(c, ViewHere(Q), ViewHere(Q)) /\ ~IsKey(c)
      BY <2>7, <3>1
    <3>3. ViewHere(Q) \in Views
      BY <2>3, HereIsView
    <3>4. c \in Recorded
      BY <2>7
    <3> QED BY <2>9, <3>2, <3>3, <3>4, PushOne
  <2> HIDE DEF t3
  <2> QED BY <2>2, <2>3, <2>4, <2>10 DEF Way, ViewHere
<1> QED BY <1>10, <1>11

-----------------------------------------------------------------------------
(* A trail that is asked for no markers any more is one still.              *)
LEMMA BareTrail ==
  ASSUME NEW cells, Len(cells) \in Nat, NEW P, NEW v \in Views, NEW first \in Views,
         Trail(cells, P, v, first), \A k \in 1 .. Len(cells) : Uses(cells[k]) \in Nat
  PROVE  \E Q : Trail(cells, Q, [v EXCEPT !.sel = {}], [first EXCEPT !.sel = {}])
<1> DEFINE n == Len(cells)
           bare(x) == [x EXCEPT !.sel = {}]
           Q == [k \in 1 .. n |-> [j \in Nat |-> bare(P[k][j])]]
<1>1. \A x \in Views : /\ bare(x) \in Views /\ bare(x).text = x.text /\ bare(x).size = x.size
                       /\ bare(x).cursor = x.cursor /\ bare(x).sel = {}
  BY DEF Views
<1>2. \A x, y \in Views : \A c : Undone(c, x, y) => Undone(c, bare(x), bare(y))
  <2> SUFFICES ASSUME NEW x \in Views, NEW y \in Views, NEW c, Undone(c, x, y)
               PROVE  Undone(c, bare(x), bare(y))
    OBVIOUS
  <2> DEFINE a == bare(x)
             b == bare(y)
  <2>1. /\ a.text = x.text /\ a.size = x.size /\ a.cursor = x.cursor /\ a.sel = {}
        /\ b.text = y.text /\ b.size = y.size /\ b.cursor = y.cursor /\ b.sel = {}
    BY <1>1
  <2> HIDE DEF a, b
  <2>2. TextAfter(c, a, b)
    BY <2>1 DEF Undone, TextAfter
  <2>3. Settled({})
    BY DEF Settled
  <2> QED BY <2>1, <2>2, <2>3 DEF Undone, a, b
<1>3. \A x \in Views : \A seen : Remembered(seen, x) => Remembered(seen, bare(x))
  BY <1>1 DEF Remembered
<1> HIDE DEF bare
<1>4. P \in [1 .. n -> [Nat -> Views]]
  BY DEF Trail
<1>5. Q \in [1 .. n -> [Nat -> Views]]
  BY <1>1, <1>4
<1>6. \A k \in 1 .. n : \A j \in Nat : P[k][j] \in Views /\ Q[k][j] = bare(P[k][j])
  BY <1>4
<1> HIDE DEF Q
<1>7. n = 0 => bare(v) = bare(first)
  BY DEF Trail
<1>8. n > 0 => Q[n][0] = bare(v) /\ Q[1][Uses(cells[1])] = bare(first)
  <2> SUFFICES ASSUME n > 0 PROVE Q[n][0] = bare(v) /\ Q[1][Uses(cells[1])] = bare(first)
    OBVIOUS
  <2>1. n \in 1 .. n /\ 1 \in 1 .. n /\ 0 \in Nat
    OBVIOUS
  <2>2. P[n][0] = v /\ P[1][Uses(cells[1])] = first
    BY DEF Trail
  <2> QED BY <1>6, <2>1, <2>2
<1>9. \A k \in 2 .. n : Q[k][Uses(cells[k])] = Q[k - 1][0]
  <2> SUFFICES ASSUME NEW k \in 2 .. n PROVE Q[k][Uses(cells[k])] = Q[k - 1][0]
    OBVIOUS
  <2>1. k \in 1 .. n /\ k - 1 \in 1 .. n /\ 0 \in Nat
    OBVIOUS
  <2>2. P[k][Uses(cells[k])] = P[k - 1][0]
    BY DEF Trail
  <2> QED BY <1>6, <2>1, <2>2
<1>10. \A k \in 1 .. n : \A j \in Nat : j < Uses(cells[k]) => Undone(CodeAt(cells, k), Q[k][j], Q[k][j + 1])
  <2> SUFFICES ASSUME NEW k \in 1 .. n, NEW j \in Nat, j < Uses(cells[k])
               PROVE  Undone(CodeAt(cells, k), Q[k][j], Q[k][j + 1])
    OBVIOUS
  <2>1. Undone(CodeAt(cells, k), P[k][j], P[k][j + 1])
    BY DEF Trail
  <2>2. P[k][j] \in Views /\ P[k][j + 1] \in Views /\ Q[k][j] = bare(P[k][j])
        /\ Q[k][j + 1] = bare(P[k][j + 1])
    <3>1. j + 1 \in Nat
      OBVIOUS
    <3> QED BY <1>6, <3>1
  <2> QED BY <1>2, <2>1, <2>2
<1>11. \A k \in 1 .. n : IsKey(cells[k].code) => Remembered(cells[k].seen, Q[k][0])
  <2> SUFFICES ASSUME NEW k \in 1 .. n, IsKey(cells[k].code) PROVE Remembered(cells[k].seen, Q[k][0])
    OBVIOUS
  <2>1. Remembered(cells[k].seen, P[k][0])
    BY DEF Trail
  <2>2. P[k][0] \in Views /\ Q[k][0] = bare(P[k][0])
    BY <1>6
  <2> QED BY <1>3, <2>1, <2>2
<1>12. Trail(cells, Q, bare(v), bare(first))
  BY <1>5, <1>7, <1>8, <1>9, <1>10, <1>11 DEF Trail
<1> QED BY <1>12 DEF bare

(* And so does the way forward it makes.                                     *)
LEMMA BareLeads ==
  ASSUME NEW st, StackOK(st), NEW v \in Views, NEW o, Leads(st, v, o)
  PROVE  Leads(st, View(v.text, v.size, v.cursor, {}), o)
<1>1. PICK first, P : first \in Views /\ Trail(st.cells, P, v, first) /\ (~st.lost => first.text = o)
  BY DEF Leads
<1>2. Len(st.cells) \in Nat /\ \A k \in 1 .. Len(st.cells) : Uses(st.cells[k]) \in Nat
  BY UsesFacts, LenProperties DEF StackOK, Stacks
<1>3. PICK Q : Trail(st.cells, Q, [v EXCEPT !.sel = {}], [first EXCEPT !.sel = {}])
  BY <1>1, <1>2, BareTrail
<1>4. [v EXCEPT !.sel = {}] = View(v.text, v.size, v.cursor, {})
  BY DEF Views, View
<1>5. [first EXCEPT !.sel = {}] \in Views /\ [first EXCEPT !.sel = {}].text = first.text
  BY <1>1 DEF Views
<1> QED BY <1>1, <1>3, <1>4, <1>5 DEF Leads

-----------------------------------------------------------------------------
(* The alterations, whoever makes them.                                     *)
Altered(s) ==
  \/ \E c \in Byte : edit_insert(s, c) \/ edit_insert_ahead(s, c)
  \/ edit_delete(s) \/ edit_backspace(s)
  \/ move_left(s) \/ move_right(s)

(* What a command does to the markers, the other way round.                 *)
LEMMA MarksBack ==
  ASSUME NEW p \in Nat, NEW m \in Int
  PROVE  /\ (m + One(m > p)) - One(m + One(m > p) >= p + 1) = m
         /\ (m + One(m >= p)) - One(m + One(m >= p) > p) = m
         /\ m + One(m > p) \in Int /\ m + One(m >= p) \in Int
         /\ m - One(m > p) \in Int /\ m - One(m >= p) \in Int
         /\ (m + One(m > p) = -1) <=> m = -1
         /\ (m + One(m >= p) = -1) <=> m = -1
BY DEF One

(* Two markers moved by an insertion stay apart.                           *)
LEMMA MarksApart ==
  ASSUME NEW p \in Nat, NEW m \in Int, NEW k \in Int, m # k
  PROVE  /\ m + One(m > p) # k + One(k > p)
         /\ m + One(m >= p) # k + One(k >= p)
BY DEF One

(* Markers are numbers, whatever is undone.                                *)
LEMMA MarksType ==
  ASSUME NEW c \in Recorded, NEW p \in Nat, NEW m \in Pairs
  PROVE  MarksAfter(c, p, m) \in Pairs
<1>1. m[1] \in Int /\ m[2] \in Int
  BY DEF Pairs
<1>2. c.op \in {"MARK_1", "MARK_2"} => c.arg \in Int
  BY CodeFacts
<1>4. CASE c.op \in {"BACKSPACE", "BACKSPACE_BR"}
  BY <1>1, <1>4 DEF MarksAfter, Pairs, One
<1>5. CASE c.op \in {"DELCHAR", "DELCHAR_BR"}
  BY <1>1, <1>5 DEF MarksAfter, Pairs, One
<1>6. CASE c.op = "AHEAD"
  BY <1>1, <1>6 DEF MarksAfter, Pairs, One
<1>7. CASE c.op = "INSERT"
  BY <1>1, <1>7 DEF MarksAfter, Pairs, One
<1>8. CASE c.op \in {"MARK_1", "MARK_2"}
  BY <1>1, <1>2, <1>8 DEF MarksAfter, Pairs, One
<1>9. CASE c.op \notin {"BACKSPACE", "BACKSPACE_BR", "DELCHAR", "DELCHAR_BR", "AHEAD", "INSERT",
                        "MARK_1", "MARK_2"}
  BY <1>9 DEF MarksAfter
<1> QED BY <1>4, <1>5, <1>6, <1>7, <1>8, <1>9

(* A single code recorded.                                                 *)
LEMMA RecordOne ==
  ASSUME NEW s, NEW c \in Recorded, Record(s, <<c>>)
  PROVE  stack' = edit_push_undo_action(s, c)
BY ShortSeqs, RecordIs

(* An insertion, in front of the cursor or behind it.                       *)
LEMMA InsertWay ==
  ASSUME Data, pc # "undo", NEW s, Good(s), Way(s.undo, text, size, cursor, mark1, mark2),
         NEW c \in Byte, edit_insert(s, c)
  PROVE  Good(stack') /\ Way(stack'.undo, text', size', cursor', mark1', mark2')
<1> DEFINE k == Code(IF c \in Blanks THEN "BACKSPACE_BR" ELSE "BACKSPACE", 0)
           t == WithByteAt(text, size, cursor, c)
           m1 == mark1 + One(mark1 > cursor)
           m2 == mark2 + One(mark2 > cursor)
<1>1. /\ text' = t /\ size' = size + 1 /\ cursor' = cursor + 1
      /\ mark1' = m1 /\ mark2' = m2 /\ Record(s, <<k>>)
  BY DEF edit_insert, Insert
<1>2. k \in Recorded /\ k.op \in {"BACKSPACE", "BACKSPACE_BR"} /\ ~IsKey(k)
  BY DEF Recorded, Code, IsKey
<1> HIDE DEF k
<1>3. /\ size \in Nat /\ text \in TextsOfSize(size) /\ cursor \in 0 .. size
      /\ mark1 \in Int /\ mark2 \in Int
      /\ cursor \in Nat /\ size + 1 \in Nat /\ cursor + 1 \in 0 .. size + 1
  BY DEF Data
<1>4. t \in TextsOfSize(size + 1) /\ WithoutByteAt(t, size + 1, cursor) = text
  BY <1>3, TextFacts
<1>5. m1 \in Int /\ m2 \in Int
  BY <1>3, MarksBack
<1>6. \A R, S \in SUBSET Pairs : TextAfter(k, View(t, size + 1, cursor + 1, R), ViewHere(S))
  <2> HIDE DEF t
  <2>1. cursor + 1 > 0 /\ size + 1 > 0 /\ (cursor + 1) - 1 = cursor /\ (size + 1) - 1 = size
    BY <1>3
  <2> QED BY <1>2, <1>4, <2>1 DEF TextAfter, ViewHere, View
<1>7. \A m \in Pairs : MarksAfter(k, cursor + 1, m) \in Pairs
  BY <1>2, <1>3, MarksType
<1>8. mark1 # mark2 /\ mark2 # -1 =>
        MarksAfter(k, cursor + 1, <<m1, m2>>) = <<mark1, mark2>> /\ m1 # m2 /\ m2 # -1
  <2>1. MarksAfter(k, cursor + 1, <<m1, m2>>) = <<mark1, mark2>>
    BY <1>2, <1>3, MarksBack DEF MarksAfter
  <2> QED BY <1>3, <2>1, MarksBack, MarksApart
<1> HIDE DEF t, m1, m2
<1>9. /\ Good(edit_push_undo_action(s, k))
      /\ Way(edit_push_undo_action(s, k).undo, t, size + 1, cursor + 1, m1, m2)
  BY <1>2, <1>3, <1>4, <1>5, <1>6, <1>7, <1>8, OneStep
<1>10. stack' = edit_push_undo_action(s, k)
  BY <1>1, <1>2, RecordOne
<1> QED BY <1>1, <1>9, <1>10

(* Behind the cursor.                                                      *)
LEMMA AheadWay ==
  ASSUME Data, pc # "undo", NEW s, Good(s), Way(s.undo, text, size, cursor, mark1, mark2),
         NEW c \in Byte, edit_insert_ahead(s, c)
  PROVE  Good(stack') /\ Way(stack'.undo, text', size', cursor', mark1', mark2')
<1> DEFINE k == Code(IF c \in Blanks THEN "DELCHAR_BR" ELSE "DELCHAR", 0)
           t == WithByteAt(text, size, cursor, c)
           m1 == mark1 + One(mark1 >= cursor)
           m2 == mark2 + One(mark2 >= cursor)
<1>1. /\ text' = t /\ size' = size + 1 /\ cursor' = cursor
      /\ mark1' = m1 /\ mark2' = m2 /\ Record(s, <<k>>)
  BY DEF edit_insert_ahead, InsertAhead
<1>2. k \in Recorded /\ k.op \in {"DELCHAR", "DELCHAR_BR"} /\ ~IsKey(k)
  BY DEF Recorded, Code, IsKey
<1> HIDE DEF k
<1>3. /\ size \in Nat /\ text \in TextsOfSize(size) /\ cursor \in 0 .. size
      /\ mark1 \in Int /\ mark2 \in Int
      /\ cursor \in Nat /\ size + 1 \in Nat /\ cursor \in 0 .. size + 1
  BY DEF Data
<1>4. t \in TextsOfSize(size + 1) /\ WithoutByteAt(t, size + 1, cursor) = text
  BY <1>3, TextFacts
<1>5. m1 \in Int /\ m2 \in Int
  BY <1>3, MarksBack
<1>6. \A R, S \in SUBSET Pairs : TextAfter(k, View(t, size + 1, cursor, R), ViewHere(S))
  <2> HIDE DEF t
  <2>1. cursor < size + 1 /\ (size + 1) - 1 = size
    BY <1>3
  <2> QED BY <1>2, <1>4, <2>1 DEF TextAfter, ViewHere, View
<1>7. \A m \in Pairs : MarksAfter(k, cursor, m) \in Pairs
  BY <1>2, <1>3, MarksType
<1>8. mark1 # mark2 /\ mark2 # -1 =>
        MarksAfter(k, cursor, <<m1, m2>>) = <<mark1, mark2>> /\ m1 # m2 /\ m2 # -1
  <2>1. MarksAfter(k, cursor, <<m1, m2>>) = <<mark1, mark2>>
    BY <1>2, <1>3, MarksBack DEF MarksAfter
  <2> QED BY <1>3, <2>1, MarksBack, MarksApart
<1> HIDE DEF t, m1, m2
<1>9. /\ Good(edit_push_undo_action(s, k))
      /\ Way(edit_push_undo_action(s, k).undo, t, size + 1, cursor, m1, m2)
  BY <1>2, <1>3, <1>4, <1>5, <1>6, <1>7, <1>8, OneStep
<1>10. stack' = edit_push_undo_action(s, k)
  BY <1>1, <1>2, RecordOne
<1> QED BY <1>1, <1>9, <1>10

(* A byte taken out, by itself or of a character of several: its code is    *)
(* the reverse.                                                             *)
Takes(s, markers) == DeleteByte(s, markers) \/ BackspaceByte(s, markers)

LEMMA ByteTaken ==
  ASSUME Data, NEW s, NEW markers, Takes(s, markers)
  PROVE  \E k \in Recorded :
           /\ ~IsKey(k) /\ k.op \in {"AHEAD", "INSERT"} /\ Record(s, markers \o <<k>>)
           /\ size' \in Nat /\ text' \in TextsOfSize(size') /\ cursor' \in 0 .. size'
           /\ mark1' \in Int /\ mark2' \in Int /\ end_mark_curs' \in Int
           /\ \A R, S \in SUBSET Pairs : TextAfter(k, View(text', size', cursor', R), ViewHere(S))
<1>1. /\ size \in Nat /\ text \in TextsOfSize(size) /\ cursor \in 0 .. size
      /\ mark1 \in Int /\ mark2 \in Int /\ end_mark_curs \in Int
  BY DEF Data
<1>2. \A x : One(x) \in Int
  BY DEF One
<1>3. ASSUME DeleteByte(s, markers)
      PROVE  \E k \in Recorded :
               /\ ~IsKey(k) /\ k.op \in {"AHEAD", "INSERT"} /\ Record(s, markers \o <<k>>)
               /\ size' \in Nat /\ text' \in TextsOfSize(size') /\ cursor' \in 0 .. size'
               /\ mark1' \in Int /\ mark2' \in Int /\ end_mark_curs' \in Int
               /\ \A R, S \in SUBSET Pairs : TextAfter(k, View(text', size', cursor', R), ViewHere(S))
  <2> DEFINE k == Code("AHEAD", text[cursor])
             t == WithoutByteAt(text, size, cursor)
  <2>1. /\ cursor < size /\ text' = t /\ size' = size - 1 /\ cursor' = cursor
        /\ Record(s, markers \o <<k>>)
    BY <1>3 DEF DeleteByte, Delete
  <2>2. mark1' \in Int /\ mark2' \in Int /\ end_mark_curs' \in Int
    BY <1>1, <1>2, <1>3 DEF DeleteByte
  <2>3. cursor \in 0 .. size - 1 /\ size - 1 \in Nat /\ (size - 1) + 1 = size
    BY <1>1, <2>1
  <2>4. /\ text[cursor] \in Byte /\ t \in TextsOfSize(size - 1)
        /\ WithByteAt(t, size - 1, cursor, text[cursor]) = text
    BY <1>1, <2>3, TextFacts
  <2>5. k \in Recorded /\ k.op = "AHEAD" /\ k.arg = text[cursor] /\ ~IsKey(k)
    BY <2>4 DEF Recorded, Code, IsKey
  <2> HIDE DEF k, t
  <2>6. \A R, S \in SUBSET Pairs : TextAfter(k, View(t, size - 1, cursor, R), ViewHere(S))
    BY <2>3, <2>4, <2>5 DEF TextAfter, ViewHere, View
  <2> QED BY <2>1, <2>2, <2>3, <2>4, <2>5, <2>6
<1>4. ASSUME BackspaceByte(s, markers)
      PROVE  \E k \in Recorded :
               /\ ~IsKey(k) /\ k.op \in {"AHEAD", "INSERT"} /\ Record(s, markers \o <<k>>)
               /\ size' \in Nat /\ text' \in TextsOfSize(size') /\ cursor' \in 0 .. size'
               /\ mark1' \in Int /\ mark2' \in Int /\ end_mark_curs' \in Int
               /\ \A R, S \in SUBSET Pairs : TextAfter(k, View(text', size', cursor', R), ViewHere(S))
  <2> DEFINE k == Code("INSERT", text[cursor - 1])
             t == WithoutByteAt(text, size, cursor - 1)
  <2>1. /\ cursor > 0 /\ text' = t /\ size' = size - 1 /\ cursor' = cursor - 1
        /\ Record(s, markers \o <<k>>)
    BY <1>4 DEF BackspaceByte, Backspace
  <2>2. mark1' \in Int /\ mark2' \in Int /\ end_mark_curs' \in Int
    BY <1>1, <1>2, <1>4 DEF BackspaceByte
  <2>3. /\ cursor - 1 \in 0 .. size - 1 /\ size - 1 \in Nat /\ (size - 1) + 1 = size
        /\ (cursor - 1) + 1 = cursor
    BY <1>1, <2>1
  <2>4. /\ text[cursor - 1] \in Byte /\ t \in TextsOfSize(size - 1)
        /\ WithByteAt(t, size - 1, cursor - 1, text[cursor - 1]) = text
    BY <1>1, <2>3, TextFacts
  <2>5. k \in Recorded /\ k.op = "INSERT" /\ k.arg = text[cursor - 1] /\ ~IsKey(k)
    BY <2>4 DEF Recorded, Code, IsKey
  <2> HIDE DEF k, t
  <2>6. \A R, S \in SUBSET Pairs : TextAfter(k, View(t, size - 1, cursor - 1, R), ViewHere(S))
    BY <2>3, <2>4, <2>5 DEF TextAfter, ViewHere, View
  <2> QED BY <2>1, <2>2, <2>3, <2>4, <2>5, <2>6
<1> QED BY <1>3, <1>4 DEF Takes

(* Once the markers are on the stack, or without a selection, it does not   *)
(* matter what becomes of them.                                             *)
FreeWay(st, t, n, p) ==
  \E S \in {Pairs, {}} : Leads(st, View(t, n, p, S), original) /\ (remarked \/ S = Pairs)

LEMMA FreeIsWay ==
  ASSUME NEW st, NEW t, NEW n, NEW p, FreeWay(st, t, n, p), NEW m1 \in Int, NEW m2 \in Int
  PROVE  Way(st, t, n, p, m1, m2)
<1>1. PICK S \in {Pairs, {}} : Leads(st, View(t, n, p, S), original) /\ (remarked \/ S = Pairs)
  BY DEF FreeWay
<1>2. S \in SUBSET Pairs /\ Settled(S) /\ (S = Pairs => <<m1, m2>> \in S)
  BY DEF Settled, Pairs
<1> QED BY <1>1, <1>2 DEF Way

LEMMA WayIsFree ==
  ASSUME Data, NEW s, Good(s), Way(s.undo, text, size, cursor, mark1, mark2), mark1 = mark2
  PROVE  FreeWay(s.undo, text, size, cursor)
<1>1. PICK S \in SUBSET Pairs : /\ Leads(s.undo, ViewHere(S), original)
                                /\ remarked \/ <<mark1, mark2>> \in S
                                /\ Settled(S)
  BY DEF Way, ViewHere
<1>2. CASE remarked
  <2>1. ViewHere(S) \in Views /\ StackOK(s.undo)
    BY HereIsView DEF Good
  <2>2. /\ ViewHere(S).text = text /\ ViewHere(S).size = size /\ ViewHere(S).cursor = cursor
    BY DEF ViewHere, View
  <2>3. Leads(s.undo, View(text, size, cursor, {}), original)
    BY <1>1, <2>1, <2>2, BareLeads
  <2> QED BY <1>2, <2>3 DEF FreeWay
<1>3. CASE ~remarked
  <2>1. S = Pairs
    BY <1>1, <1>3 DEF Settled
  <2> QED BY <1>1, <2>1 DEF FreeWay, ViewHere
<1> QED BY <1>2, <1>3

LEMMA FreeStep ==
  ASSUME Data, pc # "undo", NEW s, Good(s), FreeWay(s.undo, text, size, cursor),
         NEW c \in Recorded, ~IsKey(c),
         NEW n \in Nat, NEW t \in TextsOfSize(n), NEW p \in 0 .. n,
         \A R, S \in SUBSET Pairs : TextAfter(c, View(t, n, p, R), ViewHere(S))
  PROVE  LET u == edit_push_undo_action(s, c) IN Good(u) /\ FreeWay(u.undo, t, n, p)
<1>1. \A m \in Pairs : MarksAfter(c, p, m) \in Pairs
  BY MarksType
<1>2. PICK S \in {Pairs, {}} : Leads(s.undo, ViewHere(S), original) /\ (remarked \/ S = Pairs)
  BY DEF FreeWay, ViewHere
<1>3. S \in SUBSET Pairs /\ \A m \in S : MarksAfter(c, p, m) \in S
  BY <1>1
<1>4. TextAfter(c, View(t, n, p, S), ViewHere(S))
  BY <1>3
<1>5. Good(edit_push_undo_action(s, c))
      /\ Leads(edit_push_undo_action(s, c).undo, View(t, n, p, S), original)
  BY <1>2, <1>3, <1>4, PushStep
<1> QED BY <1>2, <1>5 DEF FreeWay

(* So it is behind a byte taken out with its markers, and behind the next   *)
(* byte of a character without any.                                         *)
LEMMA TakenWay ==
  ASSUME Data, pc # "undo", NEW s, Good(s), Way(s.undo, text, size, cursor, mark1, mark2),
         Takes(s, MarkersIfSelected)
  PROVE  Good(stack') /\ FreeWay(stack'.undo, text', size', cursor')
<1>1. PICK c \in Recorded :
        /\ ~IsKey(c) /\ Record(s, MarkersIfSelected \o <<c>>)
        /\ size' \in Nat /\ text' \in TextsOfSize(size') /\ cursor' \in 0 .. size'
        /\ \A R, S \in SUBSET Pairs : TextAfter(c, View(text', size', cursor', R), ViewHere(S))
  BY ByteTaken
<1>2. CASE mark1 = mark2
  <2>1. MarkersIfSelected = << >>
    BY <1>2 DEF MarkersIfSelected
  <2>2. stack' = edit_push_undo_action(s, c)
    BY <1>1, <2>1, ShortSeqs, RecordIs
  <2>3. FreeWay(s.undo, text, size, cursor)
    BY <1>2, WayIsFree
  <2> QED BY <1>1, <2>2, <2>3, FreeStep
<1>3. CASE mark1 # mark2
  <2> DEFINE c1 == Code("MARK_1", mark1)
             c2 == Code("MARK_2", mark2)
             c3 == MARK_CURS(end_mark_curs)
             u == edit_push_undo_action(edit_push_undo_action(edit_push_undo_action(s, c1), c2), c3)
             codes == MarkersIfSelected \o <<c>>
  <2>1. codes = <<c1, c2, c3>> \o <<c>>
    BY <1>3 DEF MarkersIfSelected, Markers
  <2>2. c1 \in Recorded /\ c2 \in Recorded /\ c3 \in Recorded
    BY MarkerCodes
  <2>3. Good(u) /\ \E S \in {Pairs, {}} : Leads(u.undo, ViewHere(S), original)
                                          /\ (remarked \/ S = Pairs)
    BY MarkersStep
  <2>4. Record(s, codes)
    BY <1>1
  <2> HIDE DEF c1, c2, c3, codes
  <2>5. Len(codes) = 4 /\ codes[1] = c1 /\ codes[2] = c2 /\ codes[3] = c3 /\ codes[4] = c
    BY <2>1, <2>2, ShortSeqs
  <2>6. stack' = edit_push_undo_action(u, c)
    BY <2>4, <2>5, RecordIs
  <2> HIDE DEF u
  <2>7. FreeWay(u.undo, text, size, cursor)
    BY <2>3 DEF FreeWay, ViewHere
  <2> QED BY <1>1, <2>3, <2>6, <2>7, FreeStep
<1> QED BY <1>2, <1>3

LEMMA NextByteWay ==
  ASSUME Data, pc # "undo", NEW s, Good(s), FreeWay(s.undo, text, size, cursor), Takes(s, << >>)
  PROVE  Good(stack') /\ FreeWay(stack'.undo, text', size', cursor')
<1>1. PICK c \in Recorded :
        /\ ~IsKey(c) /\ Record(s, << >> \o <<c>>)
        /\ size' \in Nat /\ text' \in TextsOfSize(size') /\ cursor' \in 0 .. size'
        /\ \A R, S \in SUBSET Pairs : TextAfter(c, View(text', size', cursor', R), ViewHere(S))
  BY ByteTaken
<1>2. stack' = edit_push_undo_action(s, c)
  BY <1>1, ShortSeqs, RecordIs
<1> QED BY <1>1, <1>2, FreeStep

(* At the ends of the text nothing happens.                                *)
LEMMA KeptWay ==
  ASSUME Data, NEW s, Good(s), Way(s.undo, text, size, cursor, mark1, mark2), Kept(s)
  PROVE  Good(stack') /\ Way(stack'.undo, text', size', cursor', mark1', mark2')
<1>1. /\ stack' = s /\ text' = text /\ size' = size /\ cursor' = cursor
      /\ mark1' = mark1 /\ mark2' = mark2
  BY DEF Kept, textVars, markVars
<1> QED BY <1>1

(* edit_delete and edit_backspace of one byte.                              *)
LEMMA TakeWay ==
  ASSUME Data, pc # "undo", NEW s, Good(s), Way(s.undo, text, size, cursor, mark1, mark2),
         edit_delete(s) \/ edit_backspace(s)
  PROVE  Good(stack') /\ Way(stack'.undo, text', size', cursor', mark1', mark2')
<1>1. CASE Kept(s)
  BY <1>1, KeptWay
<1>2. CASE Takes(s, MarkersIfSelected)
  <2>1. Good(stack') /\ FreeWay(stack'.undo, text', size', cursor')
    BY <1>2, TakenWay
  <2>2. mark1' \in Int /\ mark2' \in Int
    BY <1>2, ByteTaken
  <2> QED BY <2>1, <2>2, FreeIsWay
<1> QED BY <1>1, <1>2 DEF edit_delete, edit_backspace, Takes

(* A move of the cursor.                                                   *)
LEMMA MoveWay ==
  ASSUME Data, pc # "undo", NEW s, Good(s), Way(s.undo, text, size, cursor, mark1, mark2),
         move_left(s) \/ move_right(s)
  PROVE  Good(stack') /\ Way(stack'.undo, text', size', cursor', mark1', mark2')
<1>1. CASE Kept(s)
  BY <1>1, KeptWay
<1>2. CASE ~Kept(s)
  <2>1. PICK k \in {Code("CURS_RIGHT", 0), Code("CURS_LEFT", 0)} :
          /\ Record(s, <<k>>) /\ text' = text /\ size' = size /\ mark1' = mark1 /\ mark2' = mark2
          /\ \/ k.op = "CURS_RIGHT" /\ cursor > 0 /\ cursor' = cursor - 1
             \/ k.op = "CURS_LEFT" /\ cursor < size /\ cursor' = cursor + 1
    BY <1>2 DEF move_left, move_right, CursorLeft, CursorRight, markVars, Code
  <2>2. k \in Recorded /\ ~IsKey(k) /\ k.op \in {"CURS_RIGHT", "CURS_LEFT"}
    BY DEF Recorded, Code, IsKey
  <2>3. /\ size \in Nat /\ text \in TextsOfSize(size) /\ cursor \in 0 .. size
        /\ mark1 \in Int /\ mark2 \in Int
    BY DEF Data
  <2>4. cursor' \in 0 .. size
    BY <2>1, <2>3
  <2>5. \A R, S \in SUBSET Pairs : TextAfter(k, View(text, size, cursor', R), ViewHere(S))
    <3>1. (cursor - 1) + 1 = cursor /\ (cursor + 1) - 1 = cursor
      BY <2>3
    <3>2. \/ k.op = "CURS_RIGHT" /\ cursor' < size /\ cursor' + 1 = cursor
          \/ k.op = "CURS_LEFT" /\ cursor' > 0 /\ cursor' - 1 = cursor
      BY <2>1, <2>3
    <3> QED BY <3>2 DEF TextAfter, ViewHere, View
  <2>6. \A m \in Pairs : MarksAfter(k, cursor', m) = m
    BY <2>2 DEF MarksAfter
  <2>7. <<mark1, mark2>> \in Pairs
    BY <2>3 DEF Pairs
  <2>8. /\ Good(edit_push_undo_action(s, k))
        /\ Way(edit_push_undo_action(s, k).undo, text, size, cursor', mark1, mark2)
    BY <2>2, <2>3, <2>4, <2>5, <2>6, <2>7, OneStep
  <2>9. stack' = edit_push_undo_action(s, k)
    BY <2>1, <2>2, RecordOne
  <2> QED BY <2>1, <2>8, <2>9
<1> QED BY <1>1, <1>2

(* All of them.                                                            *)
LEMMA AlteredWay ==
  ASSUME Data, pc # "undo", NEW s, Good(s), Way(s.undo, text, size, cursor, mark1, mark2),
         Altered(s)
  PROVE  Good(stack') /\ Way(stack'.undo, text', size', cursor', mark1', mark2')
BY InsertWay, AheadWay, TakeWay, MoveWay DEF Altered

(* A selection begun, finished or dropped.                                  *)
LEMMA MarkWay ==
  ASSUME Data, pc # "undo", Good(stack), Way(stack.undo, text, size, cursor, mark1, mark2),
         NEW unmark \in BOOLEAN, edit_mark_cmd(unmark)
  PROVE  /\ Good(stack') /\ Way(stack'.undo, text', size', cursor', mark1', mark2')
         /\ mark1' \in Int /\ mark2' \in Int /\ end_mark_curs' \in Int
<1> DEFINE c1 == Code("MARK_1", mark1)
           c2 == Code("MARK_2", mark2)
           c3 == MARK_CURS(end_mark_curs)
           u == edit_push_undo_action(edit_push_undo_action(edit_push_undo_action(stack, c1), c2), c3)
<1>1. c1 \in Recorded /\ c2 \in Recorded /\ c3 \in Recorded
  BY MarkerCodes
<1>2. Good(u) /\ \E S \in {Pairs, {}} : Leads(u.undo, ViewHere(S), original)
                                        /\ (remarked \/ S = Pairs)
  BY MarkersStep
<1>3. Record(stack, <<c1, c2, c3>>) /\ text' = text /\ size' = size /\ cursor' = cursor
  BY DEF edit_mark_cmd, Markers, textVars
<1>4. mark1' \in Int /\ mark2' \in Int /\ end_mark_curs' \in Int
  BY DEF edit_mark_cmd, Data
<1> HIDE DEF c1, c2, c3
<1>5. stack' = u
  BY <1>1, <1>3, ShortSeqs, RecordIs
<1> HIDE DEF u
<1>6. PICK S \in {Pairs, {}} : Leads(u.undo, ViewHere(S), original) /\ (remarked \/ S = Pairs)
  BY <1>2
<1>7. S \in SUBSET Pairs /\ Settled(S) /\ (remarked \/ <<mark1', mark2'>> \in S)
  BY <1>4, <1>6 DEF Settled, Pairs
<1> QED BY <1>2, <1>3, <1>4, <1>5, <1>6, <1>7 DEF Way, ViewHere

-----------------------------------------------------------------------------
(* Offsets stay within the text.                                           *)
LEMMA DataKept ==
  ASSUME Data, NEW s, Altered(s)
  PROVE  Data'
<1>1. /\ size \in Nat /\ text \in TextsOfSize(size) /\ cursor \in 0 .. size /\ start_display \in Nat
      /\ mark1 \in Int /\ mark2 \in Int /\ end_mark_curs \in Int
  BY DEF Data
<1>2. \A b : One(b) \in {0, 1} /\ (One(b) = 1 => b)
  BY DEF One
<1>3. CASE Kept(s)
  BY <1>1, <1>3 DEF Data, Kept, textVars, displayVars, markVars
<1>4. ASSUME NEW c \in Byte, edit_insert(s, c) PROVE Data'
  <2>1. text' \in TextsOfSize(size + 1) /\ size' = size + 1 /\ cursor' = cursor + 1
    BY <1>1, <1>4, TextFacts DEF edit_insert, Insert
  <2>2. start_display' \in Nat /\ mark1' \in Int /\ mark2' \in Int /\ end_mark_curs' \in Int
    BY <1>1, <1>4 DEF edit_insert, ShiftDisplay, One
  <2> QED BY <1>1, <2>1, <2>2 DEF Data
<1>5. ASSUME NEW c \in Byte, edit_insert_ahead(s, c) PROVE Data'
  <2>1. text' \in TextsOfSize(size + 1) /\ size' = size + 1 /\ cursor' = cursor
    BY <1>1, <1>5, TextFacts DEF edit_insert_ahead, InsertAhead
  <2>2. start_display' \in Nat /\ mark1' \in Int /\ mark2' \in Int /\ end_mark_curs' \in Int
    BY <1>1, <1>5 DEF edit_insert_ahead, ShiftDisplay, One
  <2> QED BY <1>1, <2>1, <2>2 DEF Data
<1>6. CASE edit_delete(s) /\ ~Kept(s)
  <2>1. Takes(s, MarkersIfSelected) /\ ShiftDisplay(cursor < start_display, text[cursor], -1)
    BY <1>6 DEF edit_delete, Takes
  <2>2. start_display' \in Nat
    BY <1>1, <2>1 DEF ShiftDisplay, One
  <2> QED BY <2>1, <2>2, ByteTaken DEF Data
<1>7. CASE edit_backspace(s) /\ ~Kept(s)
  <2>1. /\ Takes(s, MarkersIfSelected) /\ cursor > 0
        /\ ShiftDisplay(cursor - 1 < start_display, text[cursor - 1], -1)
    BY <1>7 DEF edit_backspace, Takes, BackspaceByte, Backspace
  <2>2. start_display' \in Nat
    BY <1>1, <2>1 DEF ShiftDisplay, One
  <2> QED BY <2>1, <2>2, ByteTaken DEF Data
<1>8. CASE (move_left(s) \/ move_right(s)) /\ ~Kept(s)
  BY <1>1, <1>8 DEF move_left, move_right, CursorLeft, CursorRight, Data, displayVars, markVars
<1> QED BY <1>3, <1>4, <1>5, <1>6, <1>7, <1>8 DEF Altered

-----------------------------------------------------------------------------
(* What an Undo does with a code that is no key press.                      *)
Undo(c, s) ==
  \/ Replay(c, s)
  \/ c.op = "BACKSPACE_BR" /\ edit_backspace(s)
  \/ c.op = "DELCHAR_BR" /\ edit_delete(s)
  \/ /\ c.op = "MARK_CURS" /\ end_mark_curs' = c.arg /\ stack' = s
     /\ UNCHANGED <<textVars, lineVars, displayVars, mark1, mark2>>

SameWay(s) == Good(stack') /\ stack'.undo.cells = s.undo.cells /\ stack'.undo.lost = s.undo.lost

(* What an alteration or a key press records: one, three or four codes, and *)
(* key presses among them at most with an operand from K.                   *)
Records(s, K) ==
  \E codes \in Seq(Recorded) :
    /\ Len(codes) \in {1, 3, 4} /\ Record(s, codes)
    /\ \A i \in 1 .. Len(codes) : IsKey(codes[i]) => codes[i].arg \in K

LEMMA OneRecords ==
  ASSUME NEW s, NEW c \in Recorded, ~IsKey(c), Record(s, <<c>>)
  PROVE  Records(s, {})
<1> DEFINE codes == <<c>>
<1>1. codes \in Seq(Recorded) /\ Len(codes) = 1 /\ codes[1] = c /\ Record(s, codes)
  BY ShortSeqs
<1> HIDE DEF codes
<1>2. \A i \in 1 .. Len(codes) : ~IsKey(codes[i])
  BY <1>1
<1> QED BY <1>1, <1>2 DEF Records

(* A byte taken out.                                                       *)
LEMMA ByteRecords ==
  ASSUME Data, NEW s, NEW markers \in {MarkersIfSelected, << >>},
         NEW c \in Recorded, ~IsKey(c), Record(s, markers \o <<c>>)
  PROVE  Records(s, {})
<1> DEFINE codes == markers \o <<c>>
           c1 == Code("MARK_1", mark1)
           c2 == Code("MARK_2", mark2)
           c3 == MARK_CURS(end_mark_curs)
<1>1. c1 \in Recorded /\ c2 \in Recorded /\ c3 \in Recorded
  BY MarkerCodes
<1>2. ~IsKey(c1) /\ ~IsKey(c2) /\ ~IsKey(c3)
  BY DEF IsKey, MARK_CURS, Code
<1>3. codes = << >> \o <<c>> \/ codes = <<c1, c2, c3>> \o <<c>>
  BY DEF MarkersIfSelected, Markers
<1>4. Record(s, codes)
  OBVIOUS
<1> HIDE DEF codes, c1, c2, c3
<1>5. CASE codes = << >> \o <<c>>
  <2>1. codes \in Seq(Recorded) /\ Len(codes) = 1 /\ codes[1] = c
    BY <1>5, ShortSeqs
  <2>2. \A i \in 1 .. Len(codes) : ~IsKey(codes[i])
    BY <2>1
  <2> QED BY <1>4, <2>1, <2>2 DEF Records
<1>6. CASE codes = <<c1, c2, c3>> \o <<c>>
  <2>1. /\ codes \in Seq(Recorded) /\ Len(codes) = 4
        /\ codes[1] = c1 /\ codes[2] = c2 /\ codes[3] = c3 /\ codes[4] = c
    BY <1>1, <1>6, ShortSeqs
  <2>2. \A i \in 1 .. Len(codes) : ~IsKey(codes[i])
    BY <1>2, <2>1
  <2> QED BY <1>4, <2>1, <2>2 DEF Records
<1> QED BY <1>3, <1>5, <1>6

(* The markers alone.                                                      *)
LEMMA MarkersRecord ==
  ASSUME Data, NEW s, Record(s, Markers)
  PROVE  Records(s, {})
<1> DEFINE codes == Markers
           c1 == Code("MARK_1", mark1)
           c2 == Code("MARK_2", mark2)
           c3 == MARK_CURS(end_mark_curs)
<1>1. c1 \in Recorded /\ c2 \in Recorded /\ c3 \in Recorded
  BY MarkerCodes
<1>2. ~IsKey(c1) /\ ~IsKey(c2) /\ ~IsKey(c3)
  BY DEF IsKey, MARK_CURS, Code
<1>3. codes = <<c1, c2, c3>> /\ Record(s, codes)
  BY DEF Markers
<1> HIDE DEF codes, c1, c2, c3
<1>4. /\ codes \in Seq(Recorded) /\ Len(codes) = 3
      /\ codes[1] = c1 /\ codes[2] = c2 /\ codes[3] = c3
  BY <1>1, <1>3, ShortSeqs
<1>5. \A i \in 1 .. Len(codes) : ~IsKey(codes[i])
  BY <1>2, <1>4
<1> QED BY <1>3, <1>4, <1>5 DEF Records

LEMMA AlteredRecords ==
  ASSUME Data, NEW s, Altered(s)
  PROVE  Kept(s) \/ Records(s, {})
<1>1. ASSUME NEW c \in Byte, edit_insert(s, c) \/ edit_insert_ahead(s, c) PROVE Records(s, {})
  <2>1. PICK op \in {"BACKSPACE_BR", "BACKSPACE", "DELCHAR_BR", "DELCHAR"} : Record(s, <<Code(op, 0)>>)
    BY <1>1 DEF edit_insert, edit_insert_ahead
  <2>2. Code(op, 0) \in Recorded /\ ~IsKey(Code(op, 0))
    BY DEF Recorded, Code, IsKey
  <2> QED BY <2>1, <2>2, OneRecords
<1>2. CASE (edit_delete(s) \/ edit_backspace(s)) /\ ~Kept(s)
  <2>1. Takes(s, MarkersIfSelected)
    BY <1>2 DEF edit_delete, edit_backspace, Takes
  <2> QED BY <2>1, ByteTaken, ByteRecords
<1>3. CASE (move_left(s) \/ move_right(s)) /\ ~Kept(s)
  <2>1. PICK op \in {"CURS_LEFT", "CURS_RIGHT"} : Record(s, <<Code(op, 0)>>)
    BY <1>3 DEF move_left, move_right
  <2>2. Code(op, 0) \in Recorded /\ ~IsKey(Code(op, 0))
    BY DEF Recorded, Code, IsKey
  <2> QED BY <2>1, <2>2, OneRecords
<1> QED BY <1>1, <1>2, <1>3 DEF Altered

(* An Undo records on the redo stack alone.                                *)
LEMMA UndoSame ==
  ASSUME Data, pc = "undo", NEW s, Good(s), Altered(s)
  PROVE  SameWay(s)
<1>1. CASE Kept(s)
  BY <1>1 DEF Kept, SameWay
<1>2. CASE Records(s, {})
  BY <1>2, UndoRecords DEF Records, SameWay
<1> QED BY <1>1, <1>2, AlteredRecords

(* It makes one of the alterations, or sets a marker.                      *)
LEMMA UndoCases ==
  ASSUME NEW s, NEW c \in Recorded, Undo(c, s)
  PROVE  \/ Altered(s)
         \/ /\ c.op \in {"MARK_1", "MARK_2", "MARK_CURS"} /\ stack' = s
            /\ UNCHANGED <<textVars, lineVars, displayVars>>
            /\ mark1' = IF c.op = "MARK_1" THEN c.arg ELSE mark1
            /\ mark2' = IF c.op = "MARK_2" THEN c.arg ELSE mark2
            /\ end_mark_curs' = IF c.op = "MARK_CURS" THEN c.arg ELSE end_mark_curs
<1>1. c.op \in {"AHEAD", "INSERT"} => c.arg \in Byte
  BY CodeFacts
<1> QED BY <1>1 DEF Undo, Replay, Altered

(* And it makes of text and markers what the trail says.                   *)
LEMMA UndoneIs ==
  ASSUME Data, pc = "undo", NEW s, Good(s), NEW c \in Recorded, ~IsKey(c), NEW S \in SUBSET Pairs,
         NEW w \in Views, Undone(c, ViewHere(S), w), Undo(c, s)
  PROVE  /\ Data' /\ SameWay(s)
         /\ w = View(text', size', cursor', w.sel)
         /\ <<mark1, mark2>> \in S => <<mark1', mark2'>> \in w.sel
<1>1. c.op \in {"MARK_1", "MARK_2", "MARK_CURS"} => c.arg \in Int
  BY CodeFacts
<1>2. /\ size \in Nat /\ text \in TextsOfSize(size) /\ cursor \in 0 .. size /\ start_display \in Nat
      /\ mark1 \in Int /\ mark2 \in Int /\ end_mark_curs \in Int
  BY DEF Data
<1>3. Data' /\ SameWay(s)
  <2>1. CASE Altered(s)
    BY <2>1, DataKept, UndoSame
  <2>2. CASE ~Altered(s)
    <3>1. /\ c.op \in {"MARK_1", "MARK_2", "MARK_CURS"} /\ stack' = s
          /\ UNCHANGED <<textVars, displayVars>>
          /\ mark1' \in Int /\ mark2' \in Int /\ end_mark_curs' \in Int
      BY <1>1, <1>2, <2>2, UndoCases
    <3>2. Data'
      BY <1>2, <3>1 DEF Data, textVars, displayVars
    <3> QED BY <3>1, <3>2 DEF SameWay
  <2> QED BY <2>1, <2>2
<1> DEFINE a == ViewHere(S)
<1>4. a.text = text /\ a.size = size /\ a.cursor = cursor /\ a.sel = S
  BY DEF ViewHere, View
<1> HIDE DEF a
<1>5. TextAfter(c, a, w) /\ \A m \in S : MarksAfter(c, cursor, m) \in w.sel
  BY <1>4 DEF Undone, a
<1>6. w = View(w.text, w.size, w.cursor, w.sel)
  BY DEF Views, View
<1>7. <<mark1, mark2>> \in S => MarksAfter(c, cursor, <<mark1, mark2>>) \in w.sel
  BY <1>5
<1> SUFFICES /\ text' = w.text /\ size' = w.size /\ cursor' = w.cursor
             /\ MarksAfter(c, cursor, <<mark1, mark2>>) = <<mark1', mark2'>>
  BY <1>3, <1>6, <1>7
<1>8. CASE c.op \in {"BACKSPACE", "BACKSPACE_BR"}
  <2>1. edit_backspace(s) /\ cursor # 0
    BY <1>2, <1>4, <1>5, <1>8 DEF Undo, Replay, TextAfter
  <2>2. /\ text' = WithoutByteAt(text, size, cursor - 1) /\ size' = size - 1 /\ cursor' = cursor - 1
        /\ mark1' = mark1 - One(mark1 >= cursor) /\ mark2' = mark2 - One(mark2 >= cursor)
    BY <2>1 DEF edit_backspace, BackspaceByte, Backspace
  <2> QED BY <1>4, <1>5, <1>8, <2>2 DEF TextAfter, MarksAfter
<1>9. CASE c.op \in {"DELCHAR", "DELCHAR_BR"}
  <2>1. edit_delete(s) /\ cursor # size
    BY <1>2, <1>4, <1>5, <1>9 DEF Undo, Replay, TextAfter
  <2>2. /\ text' = WithoutByteAt(text, size, cursor) /\ size' = size - 1 /\ cursor' = cursor
        /\ mark1' = mark1 - One(mark1 > cursor) /\ mark2' = mark2 - One(mark2 > cursor)
    BY <2>1 DEF edit_delete, DeleteByte, Delete
  <2> QED BY <1>4, <1>5, <1>9, <2>2 DEF TextAfter, MarksAfter
<1>10. CASE c.op = "AHEAD"
  <2>1. edit_insert_ahead(s, c.arg)
    BY <1>10 DEF Undo, Replay
  <2>2. /\ text' = WithByteAt(text, size, cursor, c.arg) /\ size' = size + 1 /\ cursor' = cursor
        /\ mark1' = mark1 + One(mark1 >= cursor) /\ mark2' = mark2 + One(mark2 >= cursor)
    BY <2>1 DEF edit_insert_ahead, InsertAhead
  <2> QED BY <1>4, <1>5, <1>10, <2>2 DEF TextAfter, MarksAfter
<1>11. CASE c.op = "INSERT"
  <2>1. edit_insert(s, c.arg)
    BY <1>11 DEF Undo, Replay
  <2>2. /\ text' = WithByteAt(text, size, cursor, c.arg) /\ size' = size + 1 /\ cursor' = cursor + 1
        /\ mark1' = mark1 + One(mark1 > cursor) /\ mark2' = mark2 + One(mark2 > cursor)
    BY <2>1 DEF edit_insert, Insert
  <2> QED BY <1>4, <1>5, <1>11, <2>2 DEF TextAfter, MarksAfter
<1>12. CASE c.op = "CURS_RIGHT"
  <2>1. move_right(s) /\ cursor # size
    BY <1>2, <1>4, <1>5, <1>12 DEF Undo, Replay, TextAfter
  <2>2. text' = text /\ size' = size /\ cursor' = cursor + 1 /\ mark1' = mark1 /\ mark2' = mark2
    BY <2>1 DEF move_right, CursorRight, markVars
  <2> QED BY <1>4, <1>5, <1>12, <2>2 DEF TextAfter, MarksAfter
<1>13. CASE c.op = "CURS_LEFT"
  <2>1. move_left(s) /\ cursor # 0
    BY <1>2, <1>4, <1>5, <1>13 DEF Undo, Replay, TextAfter
  <2>2. text' = text /\ size' = size /\ cursor' = cursor - 1 /\ mark1' = mark1 /\ mark2' = mark2
    BY <2>1 DEF move_left, CursorLeft, markVars
  <2> QED BY <1>4, <1>5, <1>13, <2>2 DEF TextAfter, MarksAfter
<1>14. CASE c.op \in {"MARK_1", "MARK_2", "MARK_CURS"}
  <2>1. /\ text' = text /\ size' = size /\ cursor' = cursor
        /\ mark1' = IF c.op = "MARK_1" THEN c.arg ELSE mark1
        /\ mark2' = IF c.op = "MARK_2" THEN c.arg ELSE mark2
    BY <1>14 DEF Undo, Replay, textVars
  <2> QED BY <1>4, <1>5, <1>14, <2>1 DEF TextAfter, MarksAfter
<1>15. c.op # "KEY_PRESS"
  BY DEF IsKey
<1> QED BY <1>5, <1>8, <1>9, <1>10, <1>11, <1>12, <1>13, <1>14, <1>15 DEF TextAfter

-----------------------------------------------------------------------------
(* While an Undo runs the selection need not be a finished one, until it    *)
(* has come to the bottom.                                                  *)
UndoWay ==
  \E S \in SUBSET Pairs : /\ Leads(stack.undo, ViewHere(S), original)
                          /\ remarked \/ <<mark1, mark2>> \in S
                          /\ stack.undo.cells = << >> => Settled(S)

EuInv ==
  /\ Data /\ Good(stack)
  /\ pc \in {"idle", "command", "delete", "backspace", "mouse", "undo", "redo"}
  /\ remarked \in BOOLEAN
  /\ pc # "undo" => Way(stack.undo, text, size, cursor, mark1, mark2)
  /\ pc = "undo" => UndoWay
  /\ pc \in {"delete", "backspace"} => FreeWay(stack.undo, text, size, cursor)

(* A file just loaded: the stack is empty, and the trail has no step.      *)
LEMMA EuInit == UndoInit => EuInv
<1> SUFFICES ASSUME UndoInit PROVE EuInv
  OBVIOUS
<1>1. Data
  BY FirstTextsAssumption DEF UndoInit, Data
<1>2. NewStack.cells = << >> /\ NewStack.lost = FALSE /\ NewStack.size = START_STACK_SIZE
      /\ NewStack = [cells |-> << >>, size |-> START_STACK_SIZE, lost |-> FALSE]
  BY DEF NewStack
<1>3. << >> \in Seq(Cells) /\ Len(<< >>) = 0
  BY EmptySeq
<1>4. StackOK(NewStack)
  BY <1>2, <1>3, StackAssumption DEF StackOK, Stacks, Counted
<1>5. Good(stack) /\ stack.undo = NewStack
  BY <1>4 DEF UndoInit, Good
<1>6. Leads(NewStack, ViewHere(Pairs), original)
  <2> DEFINE P == [k \in 1 .. 0 |-> [j \in Nat |-> ViewHere(Pairs)]]
  <2>1. P \in [1 .. Len(<< >>) -> [Nat -> Views]]
    BY <1>3
  <2>2. Trail(<< >>, P, ViewHere(Pairs), ViewHere(Pairs))
    <3> HIDE DEF P
    <3> QED BY <1>3, <2>1 DEF Trail
  <2>3. ViewHere(Pairs) \in Views /\ ViewHere(Pairs).text = original
    BY <1>1, HereIsView DEF UndoInit, ViewHere, View
  <2> HIDE DEF P
  <2> QED BY <1>2, <2>2, <2>3 DEF Leads
<1>7. <<mark1, mark2>> \in Pairs /\ Settled(Pairs)
  BY DEF UndoInit, Pairs, Settled
<1>8. Way(stack.undo, text, size, cursor, mark1, mark2)
  BY <1>5, <1>6, <1>7 DEF Way, ViewHere
<1> QED BY <1>1, <1>5, <1>8 DEF UndoInit, EuInv

(* A step that leaves text, cursor, markers and stack alone.                *)
LEMMA SameData ==
  ASSUME Data, UNCHANGED <<textVars, markVars>>, start_display' \in Nat
  PROVE  Data'
BY DEF Data, textVars, markVars

(* The way goes on whatever happens to the rest.                            *)
LEMMA WayOn ==
  ASSUME Good(stack)', Data', Way(stack'.undo, text', size', cursor', mark1', mark2'),
         pc' \in {"idle", "command", "mouse", "redo"}, remarked \in BOOLEAN,
         remarked' \in BOOLEAN, remarked => remarked', UNCHANGED original
  PROVE  EuInv'
<1>1. PICK S \in SUBSET Pairs : /\ Leads(stack'.undo, View(text', size', cursor', S), original)
                                /\ remarked \/ <<mark1', mark2'>> \in S
                                /\ Settled(S)
  BY DEF Way
<1>2. Leads(stack'.undo, View(text', size', cursor', S), original')
  BY <1>1
<1>3. Way(stack.undo, text, size, cursor, mark1, mark2)'
  BY <1>1, <1>2 DEF Way
<1> QED BY <1>3 DEF EuInv

(* The same said of the stacks of the next state.                          *)
LEMMA StackGood == Good(stack') <=> Good(stack)'
BY DEF Good

(* A key press, a mouse button, a Redo begins.                             *)
LEMMA CommandKeeps ==
  ASSUME EuInv, key_command \/ mouse_press \/ redo_command
  PROVE  EuInv'
<1>1. /\ Data /\ pc = "idle" /\ Good(stack) /\ remarked \in BOOLEAN
      /\ Way(stack.undo, text, size, cursor, mark1, mark2)
  BY DEF EuInv, key_command, mouse_press, redo_command
<1>2. /\ Record(stack, KeyPress) /\ UNCHANGED <<textVars, displayVars, markVars, original, remarked>>
      /\ pc' \in {"command", "mouse", "redo"}
  BY DEF key_command, mouse_press, redo_command
<1>3. Good(stack') /\ Way(stack'.undo, text, size, cursor, mark1, mark2)
  BY <1>1, <1>2, KeyStep
<1>4. /\ text' = text /\ size' = size /\ cursor' = cursor /\ mark1' = mark1 /\ mark2' = mark2
      /\ start_display' = start_display
  BY <1>2 DEF textVars, markVars, displayVars
<1>5. Data'
  BY <1>1, <1>2, <1>4, SameData DEF Data
<1> QED BY <1>1, <1>2, <1>3, <1>4, <1>5, StackGood, WayOn

(* A command alters, moves, marks, scrolls or ends.                        *)
LEMMA StepKeeps ==
  ASSUME EuInv, command_step \/ command_end
  PROVE  EuInv'
<1>1. /\ Data /\ pc \in {"command", "mouse"} /\ pc # "undo" /\ Good(stack) /\ remarked \in BOOLEAN
      /\ Way(stack.undo, text, size, cursor, mark1, mark2)
      /\ pc' \in {"idle", "command", "mouse"} /\ UNCHANGED <<original, remarked>>
  BY DEF EuInv, command_step, command_end
<1>2. CASE Altered(stack)
  BY <1>1, <1>2, AlteredWay, DataKept, StackGood, WayOn
<1>3. ASSUME NEW unmark \in BOOLEAN, edit_mark_cmd(unmark) PROVE EuInv'
  <2>1. /\ Good(stack') /\ Way(stack'.undo, text', size', cursor', mark1', mark2')
        /\ mark1' \in Int /\ mark2' \in Int /\ end_mark_curs' \in Int
    BY <1>1, <1>3, MarkWay
  <2>2. Data'
    BY <1>1, <1>3, <2>1 DEF edit_mark_cmd, Data, textVars, displayVars
  <2> QED BY <1>1, <2>1, <2>2, StackGood, WayOn
<1>4. ASSUME NEW l \in -MaxSize .. MaxSize, edit_move_display(l) PROVE EuInv'
  <2>1. UNCHANGED <<textVars, markVars, stack>> /\ start_display' \in Nat
    BY <1>1, <1>4 DEF edit_move_display, edit_scroll_upward, edit_scroll_downward, Data
  <2>2. Data'
    BY <1>1, <2>1, SameData DEF Data
  <2>3. Way(stack'.undo, text', size', cursor', mark1', mark2')
    BY <1>1, <2>1 DEF textVars, markVars
  <2> QED BY <1>1, <2>1, <2>2, <2>3, StackGood, WayOn
<1>5. CASE Kept(stack)
  BY <1>1, <1>5, KeptWay, DataKept, StackGood, WayOn
  DEF Altered, edit_delete, Kept, textVars, markVars, displayVars, Data
<1>6. \/ Altered(stack) \/ \E unmark \in BOOLEAN : edit_mark_cmd(unmark)
      \/ \E l \in -MaxSize .. MaxSize : edit_move_display(l)
      \/ Kept(stack)
  BY DEF command_step, command_end, Alteration, Movement, Altered
<1> QED BY <1>2, <1>3, <1>4, <1>5, <1>6

(* The first byte of a character, and the next one.                        *)
LEMMA CharKeeps ==
  ASSUME EuInv, char_begins \/ char_step
  PROVE  EuInv'
<1>1. /\ Data /\ Good(stack) /\ remarked \in BOOLEAN /\ pc # "undo"
      /\ Way(stack.undo, text, size, cursor, mark1, mark2)
      /\ UNCHANGED <<original, remarked>>
  BY DEF EuInv, char_begins, char_step
<1>2. /\ Good(stack') /\ FreeWay(stack'.undo, text', size', cursor')
      /\ size' \in Nat /\ text' \in TextsOfSize(size') /\ cursor' \in 0 .. size'
      /\ mark1' \in Int /\ mark2' \in Int /\ end_mark_curs' \in Int
  <2>1. CASE char_begins
    <3>1. Takes(stack, MarkersIfSelected)
      BY <2>1 DEF char_begins, Takes
    <3> QED BY <1>1, <3>1, TakenWay, ByteTaken
  <2>2. CASE char_step
    <3>1. Takes(stack, << >>) /\ FreeWay(stack.undo, text, size, cursor)
      BY <2>2 DEF char_step, Takes, EuInv
    <3> QED BY <1>1, <3>1, NextByteWay, ByteTaken
  <2> QED BY <2>1, <2>2
<1>3. start_display' \in Nat
  <2>1. size \in Nat /\ cursor \in 0 .. size /\ start_display \in Nat
    BY <1>1 DEF Data
  <2>2. CASE char_begins
    BY <2>1, <2>2 DEF char_begins, displayVars
  <2>3. CASE char_step
    <3>1. pc = "backspace" => cursor > 0
      BY <2>3 DEF char_step, BackspaceByte, Backspace
    <3>2. pc \in {"delete", "backspace"}
      BY <2>3 DEF char_step
    <3> QED BY <2>1, <2>3, <3>1, <3>2 DEF char_step, One
  <2> QED BY <2>2, <2>3
<1>4. Data'
  BY <1>2, <1>3 DEF Data
<1>5. Way(stack'.undo, text', size', cursor', mark1', mark2')
  BY <1>2, FreeIsWay
<1>6. PICK S \in SUBSET Pairs : /\ Leads(stack'.undo, View(text', size', cursor', S), original)
                                /\ remarked \/ <<mark1', mark2'>> \in S
                                /\ Settled(S)
  BY <1>5 DEF Way
<1>7. PICK R \in {Pairs, {}} : /\ Leads(stack'.undo, View(text', size', cursor', R), original)
                               /\ remarked \/ R = Pairs
  BY <1>2 DEF FreeWay
<1>8. original' = original /\ remarked' = remarked
  BY <1>1
<1>9. Way(stack.undo, text, size, cursor, mark1, mark2)'
  BY <1>6, <1>8 DEF Way
<1>10. FreeWay(stack.undo, text, size, cursor)'
  BY <1>7, <1>8 DEF FreeWay
<1>11. pc' \in {"command", "delete", "backspace"}
  BY DEF char_begins, char_step
<1>12. Good(stack)'
  BY <1>2, StackGood
<1> QED BY <1>4, <1>8, <1>1, <1>9, <1>10, <1>11, <1>12 DEF EuInv

(* An Undo begins.                                                         *)
LEMMA UndoBegins ==
  ASSUME EuInv, undo_command
  PROVE  EuInv'
<1>1. /\ Data /\ Good(stack) /\ remarked \in BOOLEAN /\ pc' = "undo"
      /\ Way(stack.undo, text, size, cursor, mark1, mark2)
      /\ UNCHANGED <<textVars, displayVars, markVars, stack, original, remarked>>
  BY DEF EuInv, undo_command
<1>2. /\ text' = text /\ size' = size /\ cursor' = cursor /\ mark1' = mark1 /\ mark2' = mark2
      /\ end_mark_curs' = end_mark_curs /\ start_display' = start_display
      /\ stack' = stack /\ original' = original /\ remarked' = remarked
  BY <1>1 DEF textVars, displayVars, markVars
<1>3. Data' /\ Good(stack)'
  BY <1>1, <1>2, StackGood DEF Data
<1>4. UndoWay'
  BY <1>1, <1>2 DEF Way, UndoWay, ViewHere
<1> QED BY <1>1, <1>2, <1>3, <1>4 DEF EuInv

(* The stacks with a code popped.                                          *)
LEMMA PoppedGood ==
  ASSUME Good(stack)
  PROVE  /\ Good(UndoPopped) /\ UndoPopped.undo = Popped(stack.undo) /\ UndoPopped.redo = stack.redo
         /\ Good(RedoPopped) /\ RedoPopped.redo = Popped(stack.redo) /\ RedoPopped.undo = stack.undo
<1>1. stack = [undo |-> stack.undo, redo |-> stack.redo] /\ StackOK(stack.undo) /\ StackOK(stack.redo)
  BY DEF Good
<1>2. UndoPopped = [undo |-> Popped(stack.undo), redo |-> stack.redo]
      /\ RedoPopped = [undo |-> stack.undo, redo |-> Popped(stack.redo)]
  BY <1>1 DEF UndoPopped, RedoPopped
<1>3. StackOK(Popped(stack.undo)) /\ StackOK(Popped(stack.redo))
  BY <1>1, PoppedDoes
<1> QED BY <1>1, <1>2, <1>3 DEF Good

(* An Undo goes one code back along the trail.                             *)
LEMMA UndoActionKeeps ==
  ASSUME EuInv, undo_action
  PROVE  EuInv'
<1>1. /\ Data /\ Good(stack) /\ remarked \in BOOLEAN /\ pc = "undo" /\ UndoWay
      /\ pc' = pc /\ remarked' = remarked /\ original' = original
  BY DEF EuInv, undo_action, ctlVars
<1> DEFINE c == Top(stack.undo)
<1>2. Undo(c, UndoPopped)
  BY DEF undo_action, Undo
<1>3. PICK S \in SUBSET Pairs : /\ Leads(stack.undo, ViewHere(S), original)
                                /\ remarked \/ <<mark1, mark2>> \in S
  BY <1>1 DEF UndoWay
<1>4. StackOK(stack.undo) /\ ViewHere(S) \in Views
  BY <1>1, HereIsView DEF Good
<1>5. c # STACK_BOTTOM /\ ~IsKey(c)
  BY <1>2 DEF Undo, Replay, STACK_BOTTOM, Code, IsKey
<1>6. stack.undo.cells # << >>
  BY <1>3, <1>4, <1>5, PopLeads
<1>7. c \in Recorded
  BY <1>3, <1>4, <1>6, PopLeads
<1>8. PICK w \in Views : /\ Leads(Popped(stack.undo), w, original) /\ Undone(c, ViewHere(S), w)
                         /\ Popped(stack.undo).cells # << >>
  BY <1>3, <1>4, <1>5, <1>6, PopLeads
<1> HIDE DEF c
<1>9. Good(UndoPopped) /\ UndoPopped.undo = Popped(stack.undo)
  BY <1>1, PoppedGood
<1>10. /\ Data' /\ SameWay(UndoPopped)
       /\ w = View(text', size', cursor', w.sel)
       /\ <<mark1, mark2>> \in S => <<mark1', mark2'>> \in w.sel
  BY <1>1, <1>2, <1>5, <1>7, <1>8, <1>9, UndoneIs
<1>11. Leads(stack'.undo, View(text', size', cursor', w.sel), original) /\ stack'.undo.cells # << >>
  BY <1>8, <1>9, <1>10 DEF SameWay, Leads
<1>12. w.sel \in SUBSET Pairs
  BY DEF Views
<1>13. Leads(stack'.undo, View(text', size', cursor', w.sel), original')
  BY <1>1, <1>11
<1>14. UndoWay'
  BY <1>1, <1>3, <1>10, <1>11, <1>12, <1>13 DEF UndoWay, ViewHere
<1>15. Good(stack)'
  BY <1>10, StackGood DEF SameWay
<1> QED BY <1>1, <1>10, <1>14, <1>15 DEF EuInv

(* An Undo comes to a key press, or to the bottom.                         *)
LEMMA UndoEndKeeps ==
  ASSUME EuInv, undo_end
  PROVE  EuInv'
<1>1. /\ Data /\ Good(stack) /\ remarked \in BOOLEAN /\ pc = "undo" /\ UndoWay
      /\ remarked' = remarked /\ original' = original /\ pc' \in {"undo", "idle"}
      /\ Landed(Top(stack.undo)) /\ stack' = UndoPopped
  BY DEF EuInv, undo_end
<1> DEFINE c == Top(stack.undo)
<1>2. PICK S \in SUBSET Pairs : /\ Leads(stack.undo, ViewHere(S), original)
                                /\ remarked \/ <<mark1, mark2>> \in S
                                /\ stack.undo.cells = << >> => Settled(S)
  BY <1>1 DEF UndoWay
<1>3. StackOK(stack.undo) /\ ViewHere(S) \in Views
  BY <1>1, HereIsView DEF Good
<1>4. /\ text' = text /\ size' = size /\ cursor' = cursor /\ mark1' = mark1 /\ mark2' = mark2
      /\ UNCHANGED <<textVars, markVars>>
  BY <1>1 DEF Landed, textVars, markVars
<1>5. Good(UndoPopped) /\ stack'.undo = Popped(stack.undo) /\ Good(stack)'
  BY <1>1, PoppedGood, StackGood
<1>6. /\ start_display' \in Nat
      /\ \E R \in SUBSET Pairs : /\ Leads(stack'.undo, ViewHere(R), original)
                                 /\ remarked \/ <<mark1, mark2>> \in R
                                 /\ Settled(R)
  <2>1. CASE stack.undo.cells = << >>
    <3>1. c = STACK_BOTTOM /\ stack'.undo = stack.undo
      BY <1>2, <1>3, <1>5, <2>1, PopLeads
    <3>2. start_display' = start_display
      BY <1>1, <3>1 DEF Landed, IsKey, STACK_BOTTOM, Code
    <3> QED BY <1>1, <1>2, <2>1, <3>1, <3>2 DEF Data
  <2>2. CASE stack.undo.cells # << >>
    <3>1. c \in Recorded
      BY <1>2, <1>3, <2>2, PopLeads
    <3>2. PICK w \in Views : Leads(Popped(stack.undo), w, original) /\ Undone(c, ViewHere(S), w)
      BY <1>2, <1>3, <2>2, PopLeads
    <3>3. IsKey(c)
      BY <1>1, <3>1, CodeFacts DEF Landed
    <3>4. c.arg \in Nat /\ start_display' = c.arg
      BY <1>1, <3>1, <3>3, CodeFacts DEF Landed, IsKey
    <3> HIDE DEF c
    <3> DEFINE a == ViewHere(S)
    <3>5. a.text = text /\ a.size = size /\ a.cursor = cursor /\ a.sel = S
      BY DEF ViewHere, View
    <3>6. Undone(c, a, w) /\ w = View(w.text, w.size, w.cursor, w.sel) /\ w.sel \in SUBSET Pairs
      BY <3>2 DEF Views, View
    <3> HIDE DEF a
    <3>7. /\ w.text = text /\ w.size = size /\ w.cursor = cursor /\ Settled(w.sel) /\ S \subseteq w.sel
      BY <3>3, <3>5, <3>6 DEF Undone, TextAfter, MarksAfter, IsKey
    <3>8. w = ViewHere(w.sel)
      BY <3>6, <3>7 DEF ViewHere
    <3>9. Leads(stack'.undo, ViewHere(w.sel), original)
      BY <1>5, <3>2, <3>8
    <3> QED BY <1>2, <3>4, <3>6, <3>7, <3>9
  <2> QED BY <2>1, <2>2
<1>7. Data'
  BY <1>1, <1>4, <1>6, SameData
<1>8. PICK R \in SUBSET Pairs : /\ Leads(stack'.undo, ViewHere(R), original)
                                /\ remarked \/ <<mark1, mark2>> \in R
                                /\ Settled(R)
  BY <1>6
<1>9. Leads(stack'.undo, View(text', size', cursor', R), original')
  BY <1>1, <1>4, <1>8 DEF ViewHere
<1>10. UndoWay' /\ Way(stack.undo, text, size, cursor, mark1, mark2)'
  BY <1>1, <1>4, <1>8, <1>9 DEF UndoWay, Way, ViewHere
<1> QED BY <1>1, <1>5, <1>7, <1>10 DEF EuInv

(* A Redo makes an alteration, or sets a marker unrecorded.                *)
LEMMA RedoActionKeeps ==
  ASSUME EuInv, redo_action
  PROVE  EuInv'
<1> DEFINE c == Top(stack.redo)
<1>1. /\ Data /\ Good(stack) /\ remarked \in BOOLEAN /\ pc = "redo" /\ pc # "undo"
      /\ Way(stack.undo, text, size, cursor, mark1, mark2)
      /\ pc' = pc /\ original' = original
      /\ remarked' = (remarked \/ c.op \in {"MARK_1", "MARK_2", "MARK_CURS"})
  BY DEF EuInv, redo_action
<1>2. /\ Good(RedoPopped) /\ RedoPopped.undo = stack.undo
      /\ Way(RedoPopped.undo, text, size, cursor, mark1, mark2)
  BY <1>1, PoppedGood
<1>3. \/ Replay(c, RedoPopped)
      \/ c.op \in {"BACKSPACE_BR", "DELCHAR_BR"} /\ Kept(RedoPopped)
      \/ /\ c.op = "MARK_CURS" /\ mark2' = c.arg + MARK_GAP /\ stack' = RedoPopped
         /\ UNCHANGED <<textVars, lineVars, displayVars, mark1, end_mark_curs>>
  BY DEF redo_action
<1>4. c \in Recorded
  <2>1. c # STACK_BOTTOM
    BY <1>3 DEF Replay, STACK_BOTTOM, Code
  <2> QED BY <1>1, <2>1, PoppedDoes DEF Good
<1> HIDE DEF c
<1>5. c.op \in {"AHEAD", "INSERT"} => c.arg \in Byte
  BY <1>4, CodeFacts
<1>6. c.op \in {"MARK_1", "MARK_2", "MARK_CURS"} => c.arg \in Int
  BY <1>4, CodeFacts
<1>7. remarked' \in BOOLEAN /\ (remarked => remarked') /\ pc' \in {"idle", "command", "mouse", "redo"}
  BY <1>1
<1>8. CASE Altered(RedoPopped)
  <2>1. Data' /\ Good(stack') /\ Way(stack'.undo, text', size', cursor', mark1', mark2')
    BY <1>1, <1>2, <1>8, DataKept, AlteredWay
  <2> QED BY <1>1, <1>7, <2>1, StackGood, WayOn
<1>9. CASE Kept(RedoPopped)
  <2>1. Good(stack') /\ Way(stack'.undo, text', size', cursor', mark1', mark2')
    BY <1>1, <1>2, <1>9, KeptWay
  <2>2. Data'
    BY <1>1, <1>9, SameData DEF Kept, displayVars, Data
  <2> QED BY <1>1, <1>7, <2>1, <2>2, StackGood, WayOn
<1>10. CASE /\ c.op \in {"MARK_1", "MARK_2", "MARK_CURS"} /\ stack' = RedoPopped
            /\ UNCHANGED <<textVars, displayVars>>
            /\ mark1' \in Int /\ mark2' \in Int /\ end_mark_curs' \in Int
  <2>1. Data'
    BY <1>1, <1>10 DEF Data, textVars, displayVars
  <2>2. remarked' = TRUE
    BY <1>1, <1>10
  <2>3. PICK S \in SUBSET Pairs : Leads(stack.undo, ViewHere(S), original) /\ Settled(S)
    BY <1>1 DEF Way, ViewHere
  <2>4. Leads(stack'.undo, View(text', size', cursor', S), original')
    BY <1>1, <1>2, <1>10, <2>3 DEF ViewHere, textVars
  <2>5. Way(stack.undo, text, size, cursor, mark1, mark2)'
    BY <2>2, <2>3, <2>4 DEF Way
  <2> QED BY <1>1, <1>2, <1>7, <1>10, <2>1, <2>5, StackGood DEF EuInv
<1>11. \/ Altered(RedoPopped) \/ Kept(RedoPopped)
       \/ /\ c.op \in {"MARK_1", "MARK_2", "MARK_CURS"} /\ stack' = RedoPopped
          /\ UNCHANGED <<textVars, displayVars>>
          /\ mark1' \in Int /\ mark2' \in Int /\ end_mark_curs' \in Int
  <2>1. mark1 \in Int /\ mark2 \in Int /\ end_mark_curs \in Int
    BY <1>1 DEF Data
  <2>2. CASE Replay(c, RedoPopped)
    BY <1>5, <1>6, <2>1, <2>2 DEF Replay, Altered
  <2>3. CASE c.op = "MARK_CURS" /\ mark2' = c.arg + MARK_GAP /\ stack' = RedoPopped
             /\ UNCHANGED <<textVars, lineVars, displayVars, mark1, end_mark_curs>>
    BY <1>6, <2>1, <2>3 DEF MARK_GAP
  <2> QED BY <1>3, <2>2, <2>3
<1> QED BY <1>8, <1>9, <1>10, <1>11

(* A Redo comes to a key press.                                            *)
LEMMA RedoEndKeeps ==
  ASSUME EuInv, redo_end
  PROVE  EuInv'
<1>1. /\ Data /\ Good(stack) /\ remarked \in BOOLEAN /\ pc = "redo"
      /\ Way(stack.undo, text, size, cursor, mark1, mark2)
      /\ pc' = "idle" /\ original' = original /\ remarked' = remarked
      /\ Landed(Top(stack.redo)) /\ stack' = RedoPopped
  BY DEF EuInv, redo_end
<1>2. /\ text' = text /\ size' = size /\ cursor' = cursor /\ mark1' = mark1 /\ mark2' = mark2
      /\ UNCHANGED <<textVars, markVars>>
  BY <1>1 DEF Landed, textVars, markVars
<1>3. Top(stack.redo) \in Recorded \/ Top(stack.redo) = STACK_BOTTOM
  BY <1>1, PoppedDoes DEF Good
<1>4. start_display' \in Nat
  <2> DEFINE c == Top(stack.redo)
  <2>1. start_display' = IF IsKey(c) THEN c.arg ELSE start_display
    BY <1>1 DEF Landed
  <2>2. IsKey(c) => c \in Recorded
    BY <1>3 DEF IsKey, STACK_BOTTOM, Code
  <2>3. IsKey(c) => c.arg \in Nat
    BY <2>2, CodeFacts DEF IsKey
  <2> QED BY <1>1, <2>1, <2>3 DEF Data
<1>5. Good(stack') /\ stack'.undo = stack.undo
  BY <1>1, PoppedGood
<1>6. Data'
  BY <1>1, <1>2, <1>4, SameData
<1> QED BY <1>1, <1>2, <1>5, <1>6, StackGood, WayOn

(* Every step keeps the way back.                                          *)
LEMMA EuStep == EuInv /\ [UndoNext]_vars => EuInv'
<1> SUFFICES ASSUME EuInv, [UndoNext]_vars PROVE EuInv'
  OBVIOUS
<1>1. CASE UNCHANGED vars
  BY <1>1 DEF vars, editVars, textVars, displayVars, markVars, stackVars, ctlVars,
              EuInv, Data, Good, Way, FreeWay, UndoWay, ViewHere
<1> QED BY <1>1, CommandKeeps, StepKeeps, CharKeeps, UndoBegins, UndoActionKeeps, UndoEndKeeps,
           RedoActionKeeps, RedoEndKeeps DEF UndoNext, UndoStep, RedoStep

(* The way back is what UndoRestores asks for: the view at the near end of *)
(* the trail is the text as it is, and an empty trail ends where it        *)
(* begins.                                                                 *)
LEMMA EuRestores == EuInv => UndoRestores
<1> SUFFICES ASSUME EuInv PROVE UndoRestores
  OBVIOUS
<1>1. Data /\ StackOK(stack.undo)
  BY DEF EuInv, Good
<1>2. PICK S \in SUBSET Pairs : /\ Leads(stack.undo, ViewHere(S), original)
                                /\ remarked \/ <<mark1, mark2>> \in S
  BY DEF EuInv, Way, UndoWay, ViewHere
<1>3. ViewHere(S) \in Views
  BY <1>1, HereIsView
<1>4. CASE stack.undo.cells = << >>
  <2>1. Top(stack.undo) = STACK_BOTTOM /\ (~stack.undo.lost => ViewHere(S).text = original)
    BY <1>1, <1>2, <1>3, <1>4, PopLeads
  <2>2. ~TopIsKey(stack.undo)
    BY <2>1 DEF TopIsKey, IsKey, STACK_BOTTOM, Code
  <2> QED BY <2>1, <2>2 DEF UndoRestores, Restored, SelectionRestored, BottomIsOriginal, ViewHere, View
<1>5. CASE stack.undo.cells # << >>
  <2>1. /\ Top(stack.undo) \in Recorded
        /\ IsKey(Top(stack.undo)) => Remembered(TopSeen(stack.undo), ViewHere(S))
    BY <1>1, <1>2, <1>3, <1>5, PopLeads
  <2>2. Top(stack.undo) # STACK_BOTTOM
    BY <2>1, CodeFacts
  <2>3. ViewHere(S).text = text /\ ViewHere(S).cursor = cursor /\ ViewHere(S).sel = S
    BY DEF ViewHere, View
  <2>4. Restored(stack.undo)
    BY <2>1, <2>3 DEF Restored, TopIsKey, Remembered
  <2>5. SelectionRestored(stack.undo)
    BY <1>2, <2>1, <2>3 DEF SelectionRestored, TopIsKey, Remembered
  <2> QED BY <2>2, <2>4, <2>5 DEF UndoRestores, BottomIsOriginal
<1> QED BY <1>4, <1>5

(* Whatever has been typed, undone and redone, an Undo that has popped its *)
(* way to a key press has brought back the text and the cursor, and the    *)
(* selection if no Redo has set markers; and with everything undone and    *)
(* nothing forgotten the text is the one loaded (edit_do_undo,             *)
(* edit_push_undo_action).                                                 *)
THEOREM UndoAlwaysRestores == UndoSpec => []UndoRestores
<1>1. UndoSpec => []EuInv
  BY EuInit, EuStep, PTL DEF UndoSpec
<1> QED BY <1>1, EuRestores, PTL

-----------------------------------------------------------------------------
(***************************************************************************)
(* The newlines in front of an offset, when a byte is put in.               *)
(***************************************************************************)
Newlines(t, n, p) == {i \in 0 .. n - 1 : i < p /\ t[i] = NL}

(* There are finitely many.                                                *)
LEMMA NewlinesFinite ==
  ASSUME NEW t, NEW n \in Nat, NEW p
  PROVE  IsFiniteSet(Newlines(t, n, p)) /\ Cardinality(Newlines(t, n, p)) \in Nat
<1>1. IsFiniteSet(0 .. n - 1)
  BY FS_Interval
<1>2. Newlines(t, n, p) \in SUBSET (0 .. n - 1)
  BY DEF Newlines
<1> QED BY <1>1, <1>2, FS_Subset, FS_CardinalityType

(* A byte put in at q adds itself to the offsets behind q.                 *)
LEMMA NewlinesIn ==
  ASSUME NEW n \in Nat, NEW t \in TextsOfSize(n), NEW q \in 0 .. n, NEW c \in Byte, NEW p \in Nat
  PROVE  Cardinality(Newlines(WithByteAt(t, n, q, c), n + 1, p)) =
           IF p <= q THEN Cardinality(Newlines(t, n, p))
           ELSE Cardinality(Newlines(t, n, p - 1)) + One(c = NL)
<1> DEFINE u == WithByteAt(t, n, q, c)
<1>1. \A i \in 0 .. n : u[i] = IF i < q THEN t[i] ELSE IF i = q THEN c ELSE t[i - 1]
  BY DEF WithByteAt
<1> HIDE DEF u
<1>2. (n + 1) - 1 = n
  OBVIOUS
<1>3. CASE p <= q
  <2>1. Newlines(u, n + 1, p) = Newlines(t, n, p)
    BY <1>1, <1>2, <1>3 DEF Newlines
  <2> QED BY <1>3, <2>1 DEF u
<1>4. CASE p > q
  <2> DEFINE A == Newlines(u, n + 1, p)
             B == Newlines(t, n, p - 1)
             f == [i \in B |-> IF i < q THEN i ELSE i + 1]
  <2>1. A = {i \in 0 .. n : i < p /\ u[i] = NL} /\ B = {i \in 0 .. n - 1 : i < p - 1 /\ t[i] = NL}
    BY <1>2 DEF Newlines
  <2>2. IsFiniteSet(A) /\ IsFiniteSet(B) /\ Cardinality(A) \in Nat /\ Cardinality(B) \in Nat
    BY NewlinesFinite
  <2> HIDE DEF A, B
  <2>3. q \in A <=> c = NL
    BY <1>1, <1>4, <2>1
  <2>4. f \in [B -> A \ {q}]
    <3> SUFFICES ASSUME NEW i \in B PROVE (IF i < q THEN i ELSE i + 1) \in A \ {q}
      OBVIOUS
    <3>1. CASE i < q
      BY <1>1, <1>4, <2>1, <3>1
    <3>2. CASE i >= q
      <4>1. i + 1 \in 0 .. n /\ i + 1 < p /\ i + 1 > q /\ (i + 1) - 1 = i
        BY <1>4, <2>1, <3>2
      <4> QED BY <1>1, <2>1, <3>2, <4>1
    <3> QED BY <2>1, <3>1, <3>2
  <2>5. \A i, j \in B : f[i] = f[j] => i = j
    BY <2>1
  <2>6. ASSUME NEW k \in A \ {q} PROVE \E i \in B : f[i] = k
    <3>1. CASE k < q
      <4>1. k \in B
        BY <1>1, <1>4, <2>1, <3>1
      <4> QED BY <3>1, <4>1
    <3>2. CASE k > q
      <4>1. k - 1 \in B /\ ~(k - 1 < q) /\ (k - 1) + 1 = k
        BY <1>1, <1>4, <2>1, <3>2
      <4> QED BY <4>1
    <3> QED BY <2>1, <3>1, <3>2
  <2> HIDE DEF f
  <2>7. f \in Bijection(B, A \ {q})
    BY <2>4, <2>5, <2>6, Fun_IsBij
  <2>8. Cardinality(A \ {q}) = Cardinality(B)
    BY <2>2, <2>7, FS_Bijection DEF ExistsBijection
  <2>9. Cardinality(A \ {q}) = IF q \in A THEN Cardinality(A) - 1 ELSE Cardinality(A)
    BY <2>2, FS_RemoveElement
  <2>10. Cardinality(A) = Cardinality(B) + One(c = NL)
    BY <2>2, <2>3, <2>8, <2>9 DEF One
  <2> QED BY <1>4, <2>10 DEF A, B, u
<1> QED BY <1>3, <1>4

(* Taken out.                                                               *)
LEMMA NewlinesOut ==
  ASSUME NEW n \in Nat, NEW t \in TextsOfSize(n), NEW q \in 0 .. n - 1, NEW p \in Nat
  PROVE  Cardinality(Newlines(t, n, p)) =
           IF p <= q THEN Cardinality(Newlines(WithoutByteAt(t, n, q), n - 1, p))
           ELSE Cardinality(Newlines(WithoutByteAt(t, n, q), n - 1, p - 1)) + One(t[q] = NL)
<1> DEFINE u == WithoutByteAt(t, n, q)
<1>1. u \in TextsOfSize(n - 1) /\ n - 1 \in Nat /\ t[q] \in Byte /\ WithByteAt(u, n - 1, q, t[q]) = t
  BY TextFacts
<1>2. (n - 1) + 1 = n /\ q \in 0 .. n - 1
  OBVIOUS
<1> HIDE DEF u
<1>3. Cardinality(Newlines(WithByteAt(u, n - 1, q, t[q]), (n - 1) + 1, p)) =
           IF p <= q THEN Cardinality(Newlines(u, n - 1, p))
           ELSE Cardinality(Newlines(u, n - 1, p - 1)) + One(t[q] = NL)
  BY <1>1, <1>2, NewlinesIn
<1> QED BY <1>1, <1>2, <1>3 DEF u

(* Passed by.                                                               *)
LEMMA NewlinesPassed ==
  ASSUME NEW t, NEW n \in Nat, NEW p \in 0 .. n - 1
  PROVE  Cardinality(Newlines(t, n, p + 1)) = Cardinality(Newlines(t, n, p)) + One(t[p] = NL)
<1>1. /\ Newlines(t, n, p + 1) = IF t[p] = NL THEN Newlines(t, n, p) \cup {p} ELSE Newlines(t, n, p)
      /\ p \notin Newlines(t, n, p)
  BY DEF Newlines
<1>2. IsFiniteSet(Newlines(t, n, p)) /\ Cardinality(Newlines(t, n, p)) \in Nat
  BY NewlinesFinite
<1>3. Cardinality(Newlines(t, n, p) \cup {p}) = Cardinality(Newlines(t, n, p)) + 1
  BY <1>1, <1>2, FS_AddElement
<1>4. CASE t[p] = NL
  BY <1>1, <1>3, <1>4 DEF One
<1>5. CASE t[p] # NL
  BY <1>1, <1>2, <1>5 DEF One
<1> QED BY <1>4, <1>5

-----------------------------------------------------------------------------
(***************************************************************************)
(* The counts.  The window stands within the text, and starts where         *)
(* start_line says, until a character of several bytes has been taken out   *)
(* in front of it.                                                          *)
(***************************************************************************)
Counts == lines = NewlinesBefore(size) /\ curs_line = NewlinesBefore(cursor)
Shown == ~drifted => start_display <= size /\ start_line = NewlinesBefore(start_display)
N(t, n, p) == Cardinality(Newlines(t, n, p))

LEMMA NewlinesIs == \A p : NewlinesBefore(p) = N(text, size, p)
BY DEF NewlinesBefore, Newlines, N

LEMMA CountsAre ==
  ASSUME Data, Counts, Shown
  PROVE  /\ size \in Nat /\ text \in TextsOfSize(size) /\ cursor \in 0 .. size
         /\ cursor \in Nat /\ start_display \in Nat
         /\ lines = N(text, size, size) /\ curs_line = N(text, size, cursor)
         /\ lines \in Nat /\ curs_line \in Nat
         /\ ~drifted => start_display <= size /\ start_line = N(text, size, start_display)
         /\ ~drifted => start_line \in Nat
<1>1. /\ size \in Nat /\ text \in TextsOfSize(size) /\ cursor \in 0 .. size
      /\ cursor \in Nat /\ start_display \in Nat
  BY DEF Data
<1>2. /\ lines = N(text, size, size) /\ curs_line = N(text, size, cursor)
      /\ ~drifted => start_display <= size /\ start_line = N(text, size, start_display)
  BY NewlinesIs DEF Counts, Shown
<1>3. \A p : N(text, size, p) \in Nat
  BY <1>1, NewlinesFinite DEF N
<1> QED BY <1>1, <1>2, <1>3

(* The same of the next state.                                             *)
LEMMA CountsNext ==
  ASSUME lines' = N(text', size', size'), curs_line' = N(text', size', cursor'),
         ~drifted' => start_display' <= size' /\ start_line' = N(text', size', start_display')
  PROVE  Counts' /\ Shown'
BY DEF Counts, Shown, NewlinesBefore, Newlines, N

(* A byte taken out at q.                                                  *)
ByteOut(q) ==
  /\ q \in 0 .. size - 1
  /\ text' = WithoutByteAt(text, size, q) /\ size' = size - 1 /\ lines' = lines - One(text[q] = NL)
  /\ \/ q = cursor /\ cursor' = cursor /\ curs_line' = curs_line
     \/ q = cursor - 1 /\ cursor' = cursor - 1 /\ curs_line' = curs_line - One(text[q] = NL)

LEMMA ByteIsOut ==
  ASSUME Data, NEW s, NEW markers
  PROVE  /\ DeleteByte(s, markers) => ByteOut(cursor)
         /\ BackspaceByte(s, markers) => ByteOut(cursor - 1)
<1>1. size \in Nat /\ cursor \in 0 .. size
  BY DEF Data
<1> QED BY <1>1 DEF DeleteByte, BackspaceByte, Delete, Backspace, ByteOut

LEMMA CountsOut ==
  ASSUME Data, Counts, Shown, NEW q, ByteOut(q),
         ~drifted' => /\ ~drifted
                      /\ start_display' = start_display - One(q < start_display)
                      /\ start_line' = start_line - One(q < start_display /\ text[q] = NL)
  PROVE  Counts' /\ Shown'
<1>1. /\ size \in Nat /\ text \in TextsOfSize(size) /\ cursor \in 0 .. size
      /\ cursor \in Nat /\ start_display \in Nat
      /\ lines = N(text, size, size) /\ curs_line = N(text, size, cursor)
      /\ lines \in Nat /\ curs_line \in Nat
      /\ ~drifted => start_display <= size /\ start_line = N(text, size, start_display)
      /\ ~drifted => start_line \in Nat
  BY CountsAre
<1>2. /\ q \in 0 .. size - 1
      /\ text' = WithoutByteAt(text, size, q) /\ size' = size - 1 /\ lines' = lines - One(text[q] = NL)
      /\ \/ q = cursor /\ cursor' = cursor /\ curs_line' = curs_line
         \/ q = cursor - 1 /\ cursor' = cursor - 1 /\ curs_line' = curs_line - One(text[q] = NL)
  BY DEF ByteOut
<1>3. \A p \in Nat : N(text, size, p) =
           IF p <= q THEN N(text', size', p) ELSE N(text', size', p - 1) + One(text[q] = NL)
  BY <1>1, <1>2, NewlinesOut DEF N
<1>4. size' \in Nat
  BY <1>1, <1>2
<1>5. \A p \in Nat : N(text', size', p) \in Nat
  BY <1>4, NewlinesFinite DEF N
<1>6. lines' = N(text', size', size')
  BY <1>1, <1>2, <1>3, <1>5 DEF One
<1>7. curs_line' = N(text', size', cursor')
  BY <1>1, <1>2, <1>3, <1>5 DEF One
<1>8. ASSUME ~drifted'
      PROVE  start_display' <= size' /\ start_line' = N(text', size', start_display')
  <2>1. CASE q < start_display
    BY <1>1, <1>2, <1>3, <1>5, <1>8, <2>1 DEF One
  <2>2. CASE ~(q < start_display)
    BY <1>1, <1>2, <1>3, <1>5, <1>8, <2>2 DEF One
  <2> QED BY <2>1, <2>2
<1> QED BY <1>6, <1>7, <1>8, CountsNext

(* Every alteration and move keeps the counts.                              *)
LEMMA LinesAltered ==
  ASSUME Data, Counts, Shown, NEW s, Altered(s), drifted' = drifted
  PROVE  Counts' /\ Shown'
<1>1. /\ size \in Nat /\ text \in TextsOfSize(size) /\ cursor \in 0 .. size
      /\ cursor \in Nat /\ start_display \in Nat
      /\ lines = N(text, size, size) /\ curs_line = N(text, size, cursor)
      /\ lines \in Nat /\ curs_line \in Nat
      /\ ~drifted => start_display <= size /\ start_line = N(text, size, start_display)
      /\ ~drifted => start_line \in Nat
  BY CountsAre
<1>2. CASE Kept(s)
  BY <1>1, <1>2, CountsNext DEF Kept, textVars, lineVars, displayVars
<1>3. ASSUME NEW c \in Byte, edit_insert(s, c) \/ edit_insert_ahead(s, c)
      PROVE  Counts' /\ Shown'
  <2>1. \A p \in Nat : N(WithByteAt(text, size, cursor, c), size + 1, p) =
           IF p <= cursor THEN N(text, size, p) ELSE N(text, size, p - 1) + One(c = NL)
    BY <1>1, NewlinesIn DEF N
  <2>2. /\ text' = WithByteAt(text, size, cursor, c) /\ size' = size + 1
        /\ lines' = lines + One(c = NL)
        /\ start_display' = start_display + One(cursor < start_display)
        /\ ~drifted => start_line' = start_line + One(cursor < start_display /\ c = NL)
        /\ \/ cursor' = cursor + 1 /\ curs_line' = curs_line + One(c = NL)
           \/ cursor' = cursor /\ curs_line' = curs_line
    BY <1>1, <1>3 DEF edit_insert, edit_insert_ahead, Insert, InsertAhead, ShiftDisplay, One
  <2>3. lines' = N(text', size', size')
    BY <1>1, <2>1, <2>2
  <2>4. curs_line' = N(text', size', cursor')
    BY <1>1, <2>1, <2>2
  <2>5. ~drifted' => start_display' <= size' /\ start_line' = N(text', size', start_display')
    BY <1>1, <2>1, <2>2 DEF One
  <2> QED BY <2>3, <2>4, <2>5, CountsNext
<1>4. CASE edit_delete(s) /\ ~Kept(s)
  <2>1. DeleteByte(s, MarkersIfSelected) /\ ShiftDisplay(cursor < start_display, text[cursor], -1)
    BY <1>4 DEF edit_delete
  <2>2. /\ start_display' = start_display - One(cursor < start_display)
        /\ ~drifted => start_line' = start_line - One(cursor < start_display /\ text[cursor] = NL)
    BY <1>1, <2>1 DEF ShiftDisplay, One
  <2> QED BY <2>1, <2>2, ByteIsOut, CountsOut
<1>5. CASE edit_backspace(s) /\ ~Kept(s)
  <2>1. /\ BackspaceByte(s, MarkersIfSelected)
        /\ ShiftDisplay(cursor - 1 < start_display, text[cursor - 1], -1)
    BY <1>5 DEF edit_backspace
  <2>2. /\ start_display' = start_display - One(cursor - 1 < start_display)
        /\ ~drifted => start_line' = start_line - One(cursor - 1 < start_display /\ text[cursor - 1] = NL)
    BY <1>1, <2>1 DEF ShiftDisplay, One
  <2> QED BY <2>1, <2>2, ByteIsOut, CountsOut
<1>6. CASE (move_left(s) \/ move_right(s)) /\ ~Kept(s)
  <2>1. \A p \in 0 .. size - 1 : N(text, size, p + 1) = N(text, size, p) + One(text[p] = NL)
                                 /\ N(text, size, p) \in Nat
    BY <1>1, NewlinesPassed, NewlinesFinite DEF N
  <2>2. /\ text' = text /\ size' = size /\ lines' = lines
        /\ start_display' = start_display /\ start_line' = start_line
        /\ \/ /\ cursor - 1 \in 0 .. size - 1 /\ cursor' = cursor - 1
              /\ curs_line' = curs_line - One(text[cursor - 1] = NL)
           \/ /\ cursor \in 0 .. size - 1 /\ cursor' = cursor + 1
              /\ curs_line' = curs_line + One(text[cursor] = NL)
    BY <1>1, <1>6 DEF move_left, move_right, CursorLeft, CursorRight, displayVars
  <2>3. curs_line' = N(text', size', cursor')
    <3>1. (cursor - 1) + 1 = cursor
      BY <1>1
    <3> QED BY <1>1, <2>1, <2>2, <3>1 DEF One
  <2> QED BY <1>1, <2>2, <2>3, CountsNext
<1> QED BY <1>2, <1>3, <1>4, <1>5, <1>6 DEF Altered

(* So do the bytes of a character: with the window behind the cursor there  *)
(* is nothing to count, and in front of it the count is lost.               *)
CharInv ==
  /\ pc \in {"delete", "backspace"} => char_left \in Nat \ {0}
  /\ ~drifted /\ pc = "delete" => start_display <= cursor
  /\ ~drifted /\ pc = "backspace" => start_display <= cursor - char_left

LEMMA LinesChar ==
  ASSUME Data, Counts, Shown, CharInv, char_begins \/ char_step
  PROVE  Counts' /\ Shown' /\ CharInv'
<1>1. size \in Nat /\ cursor \in 0 .. size /\ start_display \in Nat
  BY DEF Data
<1>2. ASSUME NEW n \in 2 .. CharBytes, char_left' = n - 1, Character(cursor, n),
             DeleteByte(stack, MarkersIfSelected), pc' = "delete",
             drifted' = (drifted \/ cursor < start_display), UNCHANGED displayVars
      PROVE  Counts' /\ Shown' /\ CharInv'
  <2>1. ByteOut(cursor) /\ cursor' = cursor
    BY <1>2, ByteIsOut DEF DeleteByte, Delete
  <2>2. start_display' = start_display /\ start_line' = start_line
    BY <1>2 DEF displayVars
  <2>3. ~drifted' => ~drifted /\ start_display <= cursor
    <3>1. ~drifted' => ~drifted /\ ~(cursor < start_display)
      BY Zenon, <1>2
    <3> QED BY <1>1, <3>1
  <2>4. ~drifted' => /\ start_display' = start_display - One(cursor < start_display)
                     /\ start_line' = start_line - One(cursor < start_display /\ text[cursor] = NL)
    BY <1>1, <2>2, <2>3, CountsAre DEF One
  <2>5. Counts' /\ Shown'
    BY <2>1, <2>3, <2>4, CountsOut
  <2>6. n \in Int /\ n >= 2
    BY <1>2, WindowAssumption
  <2> QED BY <1>2, <2>1, <2>2, <2>3, <2>5, <2>6 DEF CharInv
<1>3. ASSUME NEW n \in 2 .. CharBytes, char_left' = n - 1, Character(cursor - n, n),
             BackspaceByte(stack, MarkersIfSelected), pc' = "backspace",
             drifted' = (drifted \/ cursor - n < start_display), UNCHANGED displayVars
      PROVE  Counts' /\ Shown' /\ CharInv'
  <2>1. ByteOut(cursor - 1) /\ cursor' = cursor - 1
    BY <1>3, ByteIsOut DEF BackspaceByte, Backspace
  <2>2. start_display' = start_display /\ start_line' = start_line
    BY <1>3 DEF displayVars
  <2>3. n \in Int /\ n >= 2
    BY <1>3, WindowAssumption
  <2>4. ~drifted' => ~drifted /\ start_display <= cursor - n
    <3>1. ~drifted' => ~drifted /\ ~(cursor - n < start_display)
      BY Zenon, <1>3
    <3> QED BY <1>1, <2>3, <3>1
  <2>5. ~drifted' => /\ start_display' = start_display - One(cursor - 1 < start_display)
                     /\ start_line' = start_line - One(cursor - 1 < start_display /\ text[cursor - 1] = NL)
    BY <1>1, <2>2, <2>3, <2>4, CountsAre DEF One
  <2>6. Counts' /\ Shown'
    BY <2>1, <2>4, <2>5, CountsOut
  <2>7. cursor' - char_left' = cursor - n /\ char_left' \in Nat \ {0}
    BY <1>1, <1>3, <2>1, <2>3
  <2> QED BY <1>3, <2>2, <2>4, <2>6, <2>7 DEF CharInv
<1>4. CASE char_begins
  BY <1>2, <1>3, <1>4 DEF char_begins
<1>5. ASSUME pc = "delete", DeleteByte(stack, << >>), char_step PROVE Counts' /\ Shown' /\ CharInv'
  <2>1. ByteOut(cursor) /\ cursor' = cursor
    BY <1>5, ByteIsOut DEF DeleteByte, Delete
  <2>2. /\ start_display' = start_display - One(char_left = 1 /\ cursor < start_display)
        /\ start_line' = start_line /\ drifted' = drifted /\ char_left' = char_left - 1
        /\ pc' = IF char_left = 1 THEN "command" ELSE "delete"
    BY <1>5 DEF char_step
  <2>3. char_left \in Nat \ {0} /\ (~drifted => start_display <= cursor)
    BY <1>5 DEF CharInv
  <2>4. ~drifted' => /\ start_display' = start_display - One(cursor < start_display)
                     /\ start_line' = start_line - One(cursor < start_display /\ text[cursor] = NL)
    BY <1>1, <2>2, <2>3, CountsAre DEF One
  <2>5. Counts' /\ Shown'
    BY <2>1, <2>2, <2>4, CountsOut
  <2>6. ~drifted' => start_display' <= cursor'
    BY <1>1, <2>1, <2>2, <2>3 DEF One
  <2> QED BY <2>2, <2>3, <2>5, <2>6 DEF CharInv
<1>6. ASSUME pc = "backspace", BackspaceByte(stack, << >>), char_step PROVE Counts' /\ Shown' /\ CharInv'
  <2>1. ByteOut(cursor - 1) /\ cursor' = cursor - 1
    BY <1>6, ByteIsOut DEF BackspaceByte, Backspace
  <2>2. /\ start_display' = start_display - One(char_left = 1 /\ cursor - 1 < start_display)
        /\ start_line' = start_line /\ drifted' = drifted /\ char_left' = char_left - 1
        /\ pc' = IF char_left = 1 THEN "command" ELSE "backspace"
    BY <1>6 DEF char_step
  <2>3. char_left \in Nat \ {0} /\ (~drifted => start_display <= cursor - char_left)
    BY <1>6 DEF CharInv
  <2>4. ~drifted' => /\ start_display' = start_display - One(cursor - 1 < start_display)
                     /\ start_line' = start_line - One(cursor - 1 < start_display /\ text[cursor - 1] = NL)
    BY <1>1, <2>2, <2>3, CountsAre DEF One
  <2>5. Counts' /\ Shown'
    BY <2>1, <2>2, <2>4, CountsOut
  <2>6. ~drifted' => start_display' <= cursor' - char_left'
    BY <1>1, <2>1, <2>2, <2>3 DEF One
  <2> QED BY <2>2, <2>3, <2>5, <2>6 DEF CharInv
<1> QED BY <1>4, <1>5, <1>6 DEF char_step

(* Nothing to count.                                                       *)
LEMMA LinesSame ==
  ASSUME Counts, Shown, UNCHANGED <<textVars, lineVars, displayVars, drifted>>
  PROVE  Counts' /\ Shown'
BY DEF Counts, Shown, NewlinesBefore, textVars, lineVars, displayVars

(* The greater and the smaller of two numbers.                             *)
LEMMA PairBounds ==
  ASSUME NEW a \in Int, NEW b \in Int
  PROVE  /\ Max({a, b}) = IF a >= b THEN a ELSE b
         /\ Min({a, b}) = IF a <= b THEN a ELSE b
<1>1. \E x \in {a, b} : \A y \in {a, b} : x >= y
  OBVIOUS
<1>2. \E x \in {a, b} : \A y \in {a, b} : x <= y
  OBVIOUS
<1>3. Max({a, b}) \in {a, b} /\ \A y \in {a, b} : Max({a, b}) >= y
  BY <1>1 DEF Max
<1>4. Min({a, b}) \in {a, b} /\ \A y \in {a, b} : Min({a, b}) <= y
  BY <1>2 DEF Min
<1> QED BY <1>3, <1>4

(* A window that starts where start_line says is scrolled to where the new *)
(* start_line says.                                                         *)
LEMMA LinesScrolled ==
  ASSUME Data, Counts, Shown, NEW l \in -MaxSize .. MaxSize, edit_move_display(l), drifted' = drifted
  PROVE  Counts' /\ Shown'
<1>1. /\ size \in Nat /\ start_display \in Nat /\ lines = N(text, size, size) /\ lines \in Nat
      /\ curs_line = N(text, size, cursor)
      /\ ~drifted => start_display <= size /\ start_line = N(text, size, start_display)
      /\ ~drifted => start_line \in Nat
  BY CountsAre
<1>2. text' = text /\ size' = size /\ cursor' = cursor /\ lines' = lines /\ curs_line' = curs_line
  BY DEF edit_move_display, textVars, lineVars
<1>3. l \in Int
  BY MaxSizeAssumption
<1>4. \A p \in 0 .. size : LineOf(p) = N(text, size, p) /\ N(text, size, p) \in Nat
  <2> SUFFICES ASSUME NEW p \in 0 .. size
               PROVE  LineOf(p) = N(text, size, p) /\ N(text, size, p) \in Nat
    OBVIOUS
  <2>1. N(text, size, p) \in Nat
    BY <1>1, NewlinesFinite DEF N
  <2>2. p - size \in Int /\ p - size <= 0
    BY <1>1
  <2>3. Max({0, p - size}) = 0
    BY <2>2, PairBounds
  <2> QED BY <2>1, <2>3, NewlinesIs DEF LineOf
<1>5. ASSUME ~drifted
      PROVE  start_display' <= size /\ start_line' = N(text, size, start_display')
  <2>1. /\ start_display \in 0 .. size /\ LineOf(start_display) = start_line /\ start_line \in Nat
    BY <1>1, <1>4, <1>5
  <2>2. CASE l < start_line
    <3> DEFINE n == start_line - l
               i == Min({n, start_line})
    <3>1. n \in Int /\ n > 0
      BY <1>3, <2>1, <2>2
    <3>2. edit_scroll_upward(n)
      BY <2>2 DEF edit_move_display
    <3> HIDE DEF n
    <3>3. i \in Int /\ i <= start_line /\ i >= 0
      BY <2>1, <3>1, PairBounds
    <3>4. PICK p \in 0 .. start_display :
            /\ start_line' = start_line - i /\ start_display' = p
            /\ LineOf(p) = Max({0, start_line - Max({0, i})})
      BY <2>1, <3>2 DEF edit_scroll_upward
    <3> HIDE DEF i
    <3>5. Max({0, i}) = i /\ start_line - i \in Int /\ start_line - i >= 0
      BY <2>1, <3>3, PairBounds
    <3> DEFINE r == start_line - i
    <3>6. Max({0, r}) = r
      <4> HIDE DEF r
      <4>1. r \in Int /\ r >= 0
        BY <3>5 DEF r
      <4> QED BY <4>1, PairBounds
    <3>7. p \in 0 .. size
      BY <1>1, <2>1, <3>4
    <3> QED BY <1>4, <3>4, <3>5, <3>6, <3>7
  <2>3. CASE ~(l < start_line)
    <3> DEFINE n == l - start_line
               room == lines - start_line - Rows
               i == Min({n, room})
    <3>1. n \in Int /\ room \in Int /\ room <= lines - start_line
      BY <1>1, <1>3, <2>1, WindowAssumption
    <3>2. edit_scroll_downward(n)
      BY <2>3 DEF edit_move_display
    <3>3. /\ i > 0 /\ start_line' = start_line + i
          /\ IF start_line >= lines THEN UNCHANGED start_display
             ELSE \E p \in 0 .. size : LineOf(p) = Min({lines, start_line + i}) /\ start_display' = p
      BY <2>1, <3>2 DEF edit_scroll_downward
    <3> HIDE DEF n, room
    <3>4. i \in Int /\ i <= room
      <4>1. i = IF n <= room THEN n ELSE room
        BY <3>1, PairBounds
      <4> HIDE DEF i
      <4> QED BY <3>1, <4>1
    <3> HIDE DEF i
    <3>5. start_line + i \in Int /\ start_line + i <= lines /\ ~(start_line >= lines)
      BY <1>1, <2>1, <3>1, <3>3, <3>4
    <3> DEFINE r == start_line + i
    <3>6. Min({lines, r}) = r
      <4> HIDE DEF r
      <4>1. r \in Int /\ r <= lines
        BY <3>5 DEF r
      <4> QED BY <1>1, <4>1, PairBounds
    <3>7. PICK p \in 0 .. size : LineOf(p) = start_line + i /\ start_display' = p
      BY <3>3, <3>5, <3>6
    <3> QED BY <1>1, <1>4, <3>3, <3>7
  <2> QED BY <2>2, <2>3
<1> QED BY <1>1, <1>2, <1>5, CountsNext

(* An Undo or a Redo sets the window, and counts the lines up to it.        *)
LEMMA LinesLanded ==
  ASSUME Data, Counts, Shown, NEW c, Landed(c), drifted' = drifted,
         ~drifted /\ IsKey(c) => c.arg <= size
  PROVE  Counts' /\ Shown'
<1>1. /\ lines = N(text, size, size) /\ curs_line = N(text, size, cursor) /\ size \in Nat
      /\ ~drifted => start_display <= size /\ start_line = N(text, size, start_display)
  BY CountsAre
<1>2. \A p : N(text, size, p) \in Nat
  BY <1>1, NewlinesFinite DEF N
<1>3. text' = text /\ size' = size /\ cursor' = cursor /\ lines' = lines /\ curs_line' = curs_line
  BY DEF Landed, textVars, lineVars
<1>4. start_line' = start_line + N(text, size, start_display') - N(text, size, start_display)
  BY NewlinesIs DEF Landed
<1>5. ~drifted => start_display' <= size /\ start_line' = N(text, size, start_display')
  BY <1>1, <1>2, <1>4 DEF Landed
<1> QED BY <1>1, <1>3, <1>5, CountsNext

-----------------------------------------------------------------------------
(* The key presses on a stack: where the window was, and the text then.     *)
Keyed(st, R) ==
  \A k \in 1 .. Len(st.cells) :
    IsKey(st.cells[k].code) => <<st.cells[k].code.arg, st.cells[k].seen.text>> \in R

LEMMA KeyedPush ==
  ASSUME NEW st, StackOK(st), NEW c \in Recorded, NEW seen \in Sights, NEW R, Keyed(st, R),
         IsKey(c) => <<c.arg, seen.text>> \in R
  PROVE  Keyed(Pushed(st, c, seen), R)
<1> DEFINE new == Pushed(st, c, seen)
           n == Len(st.cells)
<1>1. Dropped(st, c, new) \/ CountedUp(st, c, new) \/ Added(st, c, seen, new)
  BY PushedDoes
<1>2. st.cells \in Seq(Cells) /\ n \in Nat
  BY LenProperties DEF StackOK, Stacks
<1> HIDE DEF new
<1>3. \A m : ~IsKey(COUNT(m))
  BY DEF IsKey, COUNT, Code
<1>4. CASE Dropped(st, c, new)
  BY <1>4 DEF Dropped, Keyed, new
<1>5. CASE CountedUp(st, c, new)
  <2>1. /\ Len(new.cells) = n /\ \A k \in 1 .. n - 1 : new.cells[k] = st.cells[k]
        /\ ~IsKey(new.cells[n].code)
    BY <1>3, <1>5 DEF CountedUp
  <2>2. ASSUME NEW k \in 1 .. Len(new.cells), IsKey(new.cells[k].code)
        PROVE  <<new.cells[k].code.arg, new.cells[k].seen.text>> \in R
    <3>1. k \in 1 .. n /\ k # n
      BY <2>1, <2>2
    <3>2. k \in 1 .. n - 1
      BY <1>2, <3>1
    <3> HIDE DEF n
    <3>3. new.cells[k] = st.cells[k]
      BY <2>1, <3>2
    <3> QED BY <2>2, <3>1, <3>3 DEF Keyed, n
  <2> QED BY <2>2 DEF Keyed, new
<1>6. CASE Added(st, c, seen, new)
  <2>1. PICK code \in {c, COUNT(-2)}, d \in 0 .. n + 1 :
          Without(Append(st.cells, Cell(code, seen)), d, new.cells)
    BY <1>6 DEF Added
  <2> DEFINE e == Cell(code, seen)
             cells == Append(st.cells, e)
  <2>2. /\ Len(cells) = n + 1 /\ cells[n + 1] = e /\ \A k \in 1 .. n : cells[k] = st.cells[k]
    <3> HIDE DEF e
    <3>1. e \in {e} \cup Cells /\ st.cells \in Seq({e} \cup Cells)
      <4>1. \A k \in 1 .. n : st.cells[k] \in {e} \cup Cells
        BY <1>2, LenProperties
      <4> QED BY <1>2, <4>1, LenProperties
    <3> QED BY <3>1, AppendProperties
  <2>3. IsKey(e.code) => <<e.code.arg, e.seen.text>> \in R
    BY <1>3 DEF Cell
  <2>4. /\ Len(new.cells) = n + 1 - d
        /\ \A k \in 1 .. n + 1 - d : new.cells[k] = cells[k + d]
    BY SMTT(60), <2>1, <2>2 DEF Without
  <2> HIDE DEF cells, e
  <2>5. ASSUME NEW k \in 1 .. Len(new.cells), IsKey(new.cells[k].code)
        PROVE  <<new.cells[k].code.arg, new.cells[k].seen.text>> \in R
    <3>1. k \in 1 .. n + 1 - d /\ new.cells[k] = cells[k + d]
      BY <2>4, <2>5
    <3>2. k + d \in 1 .. n \/ k + d = n + 1
      <4> HIDE DEF n
      <4> QED BY <1>2, <2>1, <3>1
    <3>3. CASE k + d \in 1 .. n
      BY <2>2, <2>5, <3>1, <3>3 DEF Keyed
    <3>4. CASE k + d = n + 1
      BY <2>2, <2>3, <2>5, <3>1, <3>4
    <3> QED BY <3>2, <3>3, <3>4
  <2> QED BY <2>5 DEF Keyed, new
<1> QED BY <1>1, <1>4, <1>5, <1>6

LEMMA KeyedPop ==
  ASSUME NEW st, StackOK(st), NEW R, Keyed(st, R)
  PROVE  /\ Keyed(Popped(st), R)
         /\ IsKey(Top(st)) => <<Top(st).arg, TopSeen(st).text>> \in R
<1> DEFINE new == Popped(st)
           n == Len(st.cells)
<1>1. /\ \/ st.cells = << >> /\ Top(st) = STACK_BOTTOM /\ new = st
         \/ /\ n > 0 /\ Top(st) = Latest(st.cells) /\ Top(st) \in Recorded
            /\ CountedDown(st, new) \/ TakenOff(st, new)
  BY PoppedDoes
<1>2. st.cells \in Seq(Cells) /\ n \in Nat /\ Counted(st.cells)
  BY LenProperties DEF StackOK, Stacks
<1>3. \A m : ~IsKey(COUNT(m))
  BY DEF IsKey, COUNT, Code
<1> HIDE DEF new
<1>4. CASE st.cells = << >> /\ Top(st) = STACK_BOTTOM /\ new = st
  BY <1>4 DEF new, IsKey, STACK_BOTTOM, Code
<1>5. CASE n > 0 /\ Top(st) = Latest(st.cells) /\ (CountedDown(st, new) \/ TakenOff(st, new))
  <2>1. n \in 1 .. n
    <3> HIDE DEF n
    <3> QED BY <1>2, <1>5
  <2>2. IsKey(Top(st)) => Top(st) = st.cells[n].code
    BY <1>2, <1>5, <2>1 DEF Latest, Counted, IsKey
  <2>3. IsKey(Top(st)) => <<Top(st).arg, TopSeen(st).text>> \in R
    BY <2>1, <2>2 DEF Keyed, TopSeen
  <2>4. /\ \A k \in 1 .. n - 1 : new.cells[k] = st.cells[k]
        /\ Len(new.cells) = n - 1 \/ (Len(new.cells) = n /\ ~IsKey(new.cells[n].code))
    <3>1. CASE CountedDown(st, new)
      BY <1>3, <3>1 DEF CountedDown
    <3>2. CASE TakenOff(st, new)
      BY <3>2 DEF TakenOff
    <3> QED BY <1>5, <3>1, <3>2
  <2>5. ASSUME NEW k \in 1 .. Len(new.cells), IsKey(new.cells[k].code)
        PROVE  <<new.cells[k].code.arg, new.cells[k].seen.text>> \in R
    <3>1. k \in 1 .. n - 1 /\ k \in 1 .. n
      <4> HIDE DEF n
      <4> QED BY <1>2, <2>4, <2>5
    <3> QED BY <2>4, <2>5, <3>1 DEF Keyed
  <2> QED BY <2>3, <2>5 DEF Keyed, new
<1> QED BY <1>1, <1>4, <1>5

(* An Undo pushes key presses on the redo stack, which say nothing of the   *)
(* window; all others push where it is.                                     *)
Zeros == {0} \X Texts

LEMMA KeyedAction ==
  ASSUME Data, NEW t, Good(t), NEW c \in Recorded, NEW R, Keyed(t.undo, R), Keyed(t.redo, Zeros),
         IsKey(c) => pc # "undo" /\ <<c.arg, text>> \in R
  PROVE  LET u == edit_push_undo_action(t, c)
         IN  Good(u) /\ Keyed(u.undo, R) /\ Keyed(u.redo, Zeros)
<1> DEFINE u == edit_push_undo_action(t, c)
           key == KEY_PRESS(0)
<1>1. Good(u) /\ StackOK(t.undo) /\ StackOK(t.redo) /\ Now \in Sights /\ Now.text = text /\ text \in Texts
  BY PushGood, NowSeen DEF Good, Now
<1>2. CASE pc = "undo"
  <2>1. u.undo = Doubled(t.undo) /\ u.redo = Pushed(Pushed(t.redo, key, Now), c, Now)
    BY <1>2 DEF edit_push_undo_action, undo_stack_disable
  <2>2. key \in Recorded /\ key.arg = 0
    BY DEF Recorded, KEY_PRESS, Code
  <2>3. <<key.arg, Now.text>> \in Zeros
    BY <1>1, <2>2 DEF Zeros
  <2> HIDE DEF key
  <2>4. StackOK(Pushed(t.redo, key, Now)) /\ Keyed(Pushed(t.redo, key, Now), Zeros)
    BY <1>1, <2>2, <2>3, PushedDoes, KeyedPush
  <2>5. ~IsKey(c)
    BY <1>2
  <2>6. Keyed(Pushed(Pushed(t.redo, key, Now), c, Now), Zeros)
    BY <1>1, <2>4, <2>5, KeyedPush
  <2>7. Keyed(u.undo, R)
    BY <1>1, <2>1, DoubledOK DEF Keyed
  <2> QED BY <1>1, <2>1, <2>6, <2>7
<1>3. CASE pc # "undo"
  <2>1. u.undo = Pushed(t.undo, c, Now)
        /\ u.redo = IF redo_stack_reset THEN Emptied(t.redo) ELSE t.redo
    BY <1>3 DEF edit_push_undo_action, undo_stack_disable
  <2>2. Keyed(u.undo, R)
    BY <1>1, <2>1, KeyedPush
  <2>3. Len(Emptied(t.redo).cells) = 0
    BY <1>1, EmptySeq DEF Emptied, StackOK, Stacks
  <2>4. Keyed(Emptied(t.redo), Zeros)
    BY <2>3 DEF Keyed
  <2> QED BY <1>1, <2>1, <2>2, <2>4
<1> QED BY <1>2, <1>3

LEMMA KeyedRecords ==
  ASSUME Data, NEW s, Good(s), NEW K, Records(s, K), NEW R, Keyed(s.undo, R), Keyed(s.redo, Zeros),
         pc = "undo" => K = {}, \A p \in K : <<p, text>> \in R
  PROVE  Keyed(stack'.undo, R) /\ Keyed(stack'.redo, Zeros)
<1>1. PICK codes \in Seq(Recorded) :
         /\ Len(codes) \in {1, 3, 4} /\ Record(s, codes)
         /\ \A i \in 1 .. Len(codes) : IsKey(codes[i]) => codes[i].arg \in K
  BY DEF Records
<1>2. \A i \in 1 .. Len(codes) : /\ codes[i] \in Recorded
                                /\ IsKey(codes[i]) => pc # "undo" /\ <<codes[i].arg, text>> \in R
  BY <1>1, LenProperties
<1> DEFINE Fine(t) == Good(t) /\ Keyed(t.undo, R) /\ Keyed(t.redo, Zeros)
           t1 == edit_push_undo_action(s, codes[1])
           t2 == edit_push_undo_action(t1, codes[2])
           t3 == edit_push_undo_action(t2, codes[3])
           t4 == edit_push_undo_action(t3, codes[4])
<1>3. \A t : \A i \in 1 .. Len(codes) : Fine(t) => Fine(edit_push_undo_action(t, codes[i]))
  <2> SUFFICES ASSUME NEW t, NEW i \in 1 .. Len(codes), Fine(t)
               PROVE  Fine(edit_push_undo_action(t, codes[i]))
    OBVIOUS
  <2> DEFINE c == codes[i]
  <2>1. c \in Recorded /\ (IsKey(c) => pc # "undo" /\ <<c.arg, text>> \in R)
    BY <1>2
  <2> HIDE DEF c
  <2>2. Fine(edit_push_undo_action(t, c))
    BY <2>1, KeyedAction
  <2> QED BY <2>2 DEF c
<1>4. Fine(s)
  OBVIOUS
<1> HIDE DEF Fine
<1>5. Fine(t1)
  BY <1>1, <1>3, <1>4
<1> HIDE DEF t1
<1>6. Len(codes) >= 3 => Fine(t2)
  BY <1>1, <1>3, <1>5
<1> HIDE DEF t2
<1>7. Len(codes) >= 3 => Fine(t3)
  BY <1>1, <1>3, <1>6
<1> HIDE DEF t3
<1>8. Len(codes) = 4 => Fine(t4)
  BY <1>1, <1>3, <1>7
<1> HIDE DEF t4
<1>9. stack' = t1 \/ (Len(codes) = 3 /\ stack' = t3) \/ (Len(codes) = 4 /\ stack' = t4)
  BY <1>1, RecordIs DEF t1, t2, t3, t4
<1> QED BY <1>5, <1>7, <1>8, <1>9 DEF Fine

(* A key press records where the window is.                                 *)
LEMMA KeyRecords ==
  ASSUME Data, Record(stack, KeyPress)
  PROVE  Records(stack, {start_display})
<1> DEFINE k == KEY_PRESS(start_display)
           a == Code("MARK_1", mark1)
           e == MARK_CURS(end_mark_curs)
           codes == KeyPress
<1>1. k \in Recorded /\ a \in Recorded /\ e \in Recorded
  BY MarkerCodes DEF Data, Recorded
<1>2. k.arg = start_display /\ ~IsKey(a) /\ ~IsKey(e)
  BY DEF KEY_PRESS, Code, IsKey, MARK_CURS
<1>3. codes = << k >> \o << a, e >> \/ codes = << k >> \o << >>
  BY DEF KeyPress
<1>4. Record(stack, codes)
  OBVIOUS
<1> HIDE DEF k, a, e, codes
<1>5. CASE codes = << k >> \o << a, e >>
  <2>1. Len(codes) = 3 /\ codes[1] = k /\ codes[2] = a /\ codes[3] = e
    BY <1>1, <1>5, ShortSeqs
  <2>2. << k >> \in Seq(Recorded) /\ << a, e >> \in Seq(Recorded)
    BY <1>1
  <2>3. codes \in Seq(Recorded)
    BY <1>5, <2>2, ConcatProperties
  <2>4. \A i \in 1 .. Len(codes) : IsKey(codes[i]) => codes[i].arg \in {start_display}
    BY <1>2, <2>1
  <2> QED BY <1>4, <2>1, <2>3, <2>4 DEF Records
<1>6. CASE codes = << k >> \o << >>
  <2>1. Len(codes) = 1 /\ codes[1] = k
    BY <1>1, <1>6, ShortSeqs
  <2>2. << k >> \in Seq(Recorded) /\ << >> \in Seq(Recorded)
    BY <1>1
  <2>3. codes \in Seq(Recorded)
    BY <1>6, <2>2, ConcatProperties
  <2>4. \A i \in 1 .. Len(codes) : IsKey(codes[i]) => codes[i].arg \in {start_display}
    BY <1>2, <2>1
  <2> QED BY <1>4, <2>1, <2>3, <2>4 DEF Records
<1> QED BY <1>3, <1>5, <1>6

(* What a stack remembers of the window once it may have drifted, and until *)
(* then.                                                                    *)
Near == {m \in Nat \X Texts : 0 .. m[1] - 1 \subseteq DOMAIN m[2]}
Places == IF drifted THEN Nat \X Texts ELSE Near

LinesInv ==
  Counts /\ Shown /\ CharInv /\ Keyed(stack.undo, Places) /\ Keyed(stack.redo, Zeros)

LEMMA PlacesGrow ==
  ASSUME ~drifted' => ~drifted, NEW st, Keyed(st, Places)
  PROVE  Keyed(st, Places')
<1>1. Places \subseteq Places'
  BY DEF Places, Near
<1> QED BY <1>1 DEF Keyed

LEMMA WindowPlace ==
  ASSUME Data, Shown
  PROVE  <<start_display, text>> \in Places
<1>1. start_display \in Nat /\ text \in Texts /\ size \in Nat /\ DOMAIN text = 0 .. size - 1
  BY DEF Data, Texts, TextsOfSize
<1>2. ~drifted => 0 .. start_display - 1 \subseteq 0 .. size - 1
  BY <1>1 DEF Shown
<1> QED BY <1>1, <1>2 DEF Places, Near

(* In a file just loaded.                                                  *)
LEMMA LinesInit == UndoInit => LinesInv
<1> SUFFICES ASSUME UndoInit PROVE LinesInv
  OBVIOUS
<1>1. {i \in 0 .. size - 1 : i < 0 /\ text[i] = NL} = {}
  OBVIOUS
<1>2. NewlinesBefore(0) = 0
  BY <1>1, FS_EmptySet DEF NewlinesBefore
<1>3. size \in Nat
  BY FirstTextsAssumption DEF UndoInit
<1>4. Len(NewStack.cells) = 0 /\ stack.undo = NewStack /\ stack.redo = NewStack
  BY EmptySeq DEF NewStack, UndoInit
<1>5. Keyed(stack.undo, Places) /\ Keyed(stack.redo, Zeros)
  BY <1>4 DEF Keyed
<1> QED BY <1>2, <1>3, <1>5 DEF UndoInit, LinesInv, Counts, Shown, CharInv

(* No step puts anything else on the stacks.                               *)
LEMMA KeysKept ==
  ASSUME EuInv, LinesInv, NEW s \in {stack, UndoPopped, RedoPopped},
         stack' = s \/ Records(s, {}) \/ (pc # "undo" /\ Records(s, {start_display})),
         ~drifted' => ~drifted
  PROVE  Keyed(stack'.undo, Places') /\ Keyed(stack'.redo, Zeros)
<1>1. Data /\ Good(stack) /\ Shown /\ Keyed(stack.undo, Places) /\ Keyed(stack.redo, Zeros)
  BY DEF EuInv, LinesInv
<1>2. StackOK(stack.undo) /\ StackOK(stack.redo)
  BY <1>1 DEF Good
<1>3. Good(s) /\ Keyed(s.undo, Places) /\ Keyed(s.redo, Zeros)
  BY <1>1, <1>2, PoppedGood, KeyedPop
<1>4. \A p \in {start_display} : <<p, text>> \in Places
  BY <1>1, WindowPlace
<1>5. Keyed(stack'.undo, Places) /\ Keyed(stack'.redo, Zeros)
  <2>1. CASE stack' = s
    BY <1>3, <2>1
  <2>2. CASE Records(s, {})
    BY <1>1, <1>3, <2>2, KeyedRecords
  <2>3. CASE pc # "undo" /\ Records(s, {start_display})
    BY <1>1, <1>3, <1>4, <2>3, KeyedRecords
  <2> QED BY <2>1, <2>2, <2>3
<1> QED BY <1>5, PlacesGrow

(* The same in the terms of the next state, when no character is at work.   *)
LEMMA LinesNext ==
  ASSUME Counts', Shown', Keyed(stack'.undo, Places'), Keyed(stack'.redo, Zeros),
         CharInv' \/ pc' \notin {"delete", "backspace"}
  PROVE  LinesInv'
<1>1. CharInv'
  BY DEF CharInv
<1>2. Keyed(stack.undo, Places)' /\ Keyed(stack.redo, Zeros)'
  BY DEF Keyed
<1> QED BY <1>1, <1>2 DEF LinesInv

(* Every step keeps the counts.                                            *)
LEMMA LinesStep == EuInv /\ LinesInv /\ [UndoNext]_vars => LinesInv'
<1> SUFFICES ASSUME EuInv, LinesInv, [UndoNext]_vars PROVE LinesInv'
  OBVIOUS
<1>1. /\ Data /\ StackOK(stack.undo) /\ StackOK(stack.redo)
      /\ Counts /\ Shown /\ CharInv /\ Keyed(stack.undo, Places) /\ Keyed(stack.redo, Zeros)
  BY DEF EuInv, Good, LinesInv
<1>2. CASE UNCHANGED vars
  <2>1. /\ UNCHANGED <<textVars, lineVars, displayVars, drifted, pc, char_left, cursor>>
        /\ start_display' = start_display /\ stack' = stack
    BY <1>2 DEF vars, editVars, textVars, displayVars, ctlVars, charVars, stackVars
  <2>2. Counts' /\ Shown'
    BY <1>1, <2>1, LinesSame
  <2>3. CharInv'
    BY <1>1, <2>1 DEF CharInv
  <2>4. Keyed(stack'.undo, Places') /\ Keyed(stack'.redo, Zeros)
    BY <2>1, KeysKept
  <2> QED BY <2>2, <2>3, <2>4, LinesNext
<1>3. CASE key_command \/ mouse_press \/ redo_command \/ undo_command
  <2>1. /\ UNCHANGED <<textVars, lineVars, displayVars, drifted>> /\ pc # "undo"
        /\ pc' \notin {"delete", "backspace"}
        /\ stack' = stack \/ Record(stack, KeyPress)
    BY <1>3 DEF key_command, mouse_press, redo_command, undo_command, charVars
  <2>2. Keyed(stack'.undo, Places') /\ Keyed(stack'.redo, Zeros)
    BY <1>1, <2>1, KeyRecords, KeysKept
  <2> QED BY <1>1, <2>1, <2>2, LinesSame, LinesNext
<1>4. ASSUME NEW s \in {stack, UndoPopped, RedoPopped}, Altered(s), drifted' = drifted,
             pc' \notin {"delete", "backspace"}
      PROVE  LinesInv'
  <2>1. stack' = s \/ Records(s, {})
    BY <1>1, <1>4, AlteredRecords DEF Kept
  <2>2. Keyed(stack'.undo, Places') /\ Keyed(stack'.redo, Zeros)
    BY <1>4, <2>1, KeysKept
  <2> QED BY <1>1, <1>4, <2>2, LinesAltered, LinesNext
<1>5. ASSUME NEW s \in {stack, UndoPopped, RedoPopped}, stack' = s, drifted' = drifted,
             UNCHANGED <<textVars, lineVars, displayVars>>, pc' \notin {"delete", "backspace"}
      PROVE  LinesInv'
  <2>1. Keyed(stack'.undo, Places') /\ Keyed(stack'.redo, Zeros)
    BY <1>5, KeysKept
  <2> QED BY <1>1, <1>5, <2>1, LinesSame, LinesNext
<1>6. CASE command_step \/ command_end
  <2>1. drifted' = drifted /\ pc' \notin {"delete", "backspace"}
    BY <1>6 DEF command_step, command_end, charVars
  <2>2. ASSUME NEW unmark \in BOOLEAN, edit_mark_cmd(unmark) PROVE LinesInv'
    <3>1. Record(stack, Markers) /\ UNCHANGED <<textVars, lineVars, displayVars>>
      BY <2>2 DEF edit_mark_cmd
    <3>2. Keyed(stack'.undo, Places') /\ Keyed(stack'.redo, Zeros)
      BY <1>1, <2>1, <3>1, MarkersRecord, KeysKept
    <3> QED BY <1>1, <2>1, <3>1, <3>2, LinesSame, LinesNext
  <2>3. ASSUME NEW l \in -MaxSize .. MaxSize, edit_move_display(l) PROVE LinesInv'
    <3>1. stack' = stack
      BY <2>3 DEF edit_move_display
    <3>2. Keyed(stack'.undo, Places') /\ Keyed(stack'.redo, Zeros)
      BY <2>1, <3>1, KeysKept
    <3> QED BY <1>1, <2>1, <2>3, <3>2, LinesScrolled, LinesNext
  <2>4. \/ Altered(stack) \/ \E unmark \in BOOLEAN : edit_mark_cmd(unmark)
        \/ \E l \in -MaxSize .. MaxSize : edit_move_display(l)
        \/ Kept(stack)
    BY <1>6 DEF command_step, command_end, Alteration, Movement, Altered
  <2> QED BY <1>4, <1>5, <2>1, <2>2, <2>3, <2>4 DEF Kept
<1>7. CASE char_begins \/ char_step
  <2>1. /\ Takes(stack, MarkersIfSelected) \/ Takes(stack, << >>)
        /\ ~drifted' => ~drifted
    <3>1. CASE char_begins
      <4>1. Takes(stack, MarkersIfSelected)
        BY <3>1 DEF char_begins, Takes
      <4>2. \E b : drifted' = (drifted \/ b)
        BY <3>1 DEF char_begins
      <4>3. ~drifted' => ~drifted
        BY Zenon, <4>2
      <4> QED BY <4>1, <4>3
    <3>2. CASE char_step
      BY <3>2 DEF char_step, Takes
    <3> QED BY <1>7, <3>1, <3>2
  <2>2. Records(stack, {})
    BY <1>1, <2>1, ByteTaken, ByteRecords
  <2>3. Keyed(stack'.undo, Places') /\ Keyed(stack'.redo, Zeros)
    BY <2>1, <2>2, KeysKept
  <2> QED BY <1>1, <1>7, <2>3, LinesChar, LinesNext
<1>8. CASE undo_action
  <2>1. Undo(Top(stack.undo), UndoPopped) /\ drifted' = drifted /\ pc' = "undo"
    BY <1>8 DEF undo_action, Undo, ctlVars, charVars
  <2>2. Top(stack.undo) # STACK_BOTTOM
    BY <2>1 DEF Undo, Replay, STACK_BOTTOM, Code
  <2>3. Top(stack.undo) \in Recorded
    BY <1>1, <2>2, PoppedDoes
  <2>4. Altered(UndoPopped) \/ (stack' = UndoPopped /\ UNCHANGED <<textVars, lineVars, displayVars>>)
    BY <2>1, <2>3, UndoCases
  <2> QED BY <1>4, <1>5, <2>1, <2>4
<1>9. CASE redo_action
  <2> DEFINE c == Top(stack.redo)
  <2>1. \/ Replay(c, RedoPopped)
        \/ c.op \in {"BACKSPACE_BR", "DELCHAR_BR"} /\ Kept(RedoPopped)
        \/ /\ c.op = "MARK_CURS" /\ stack' = RedoPopped
           /\ UNCHANGED <<textVars, lineVars, displayVars>>
    BY <1>9 DEF redo_action
  <2>2. c # STACK_BOTTOM
    BY <2>1 DEF Replay, STACK_BOTTOM, Code
  <2>3. c \in Recorded
    BY <1>1, <2>2, PoppedDoes
  <2>4. c.op \in {"AHEAD", "INSERT"} => c.arg \in Byte
    BY <2>3, CodeFacts
  <2> HIDE DEF c
  <2>5. Altered(RedoPopped) \/ (stack' = RedoPopped /\ UNCHANGED <<textVars, lineVars, displayVars>>)
    BY <2>1, <2>4 DEF Replay, Altered, Kept
  <2>6. drifted' = drifted /\ pc' = "redo"
    BY <1>9 DEF redo_action, charVars
  <2> QED BY <1>4, <1>5, <2>5, <2>6
<1>10. CASE undo_end
  <2> DEFINE c == Top(stack.undo)
  <2>1. Landed(c) /\ stack' = UndoPopped /\ drifted' = drifted /\ pc' \notin {"delete", "backspace"}
    BY <1>10 DEF undo_end, charVars
  <2>2. ASSUME ~drifted, IsKey(c) PROVE c.arg <= size
    <3>1. <<c.arg, TopSeen(stack.undo).text>> \in Near
      BY <1>1, <2>2, KeyedPop DEF Places
    <3>2. TopSeen(stack.undo).text = text
      BY <2>2, EuRestores DEF UndoRestores, Restored, TopIsKey
    <3> HIDE DEF c
    <3>3. c.arg \in Nat /\ 0 .. c.arg - 1 \subseteq DOMAIN text
      BY <3>1, <3>2 DEF Near
    <3>4. DOMAIN text = 0 .. size - 1 /\ size \in Nat
      BY <1>1 DEF Data, TextsOfSize
    <3> DEFINE n == c.arg
    <3> HIDE DEF n
    <3>5. n \in Nat /\ 0 .. n - 1 \subseteq 0 .. size - 1
      BY <3>3, <3>4 DEF n
    <3>6. n > 0 => n - 1 \in 0 .. n - 1
      BY <3>5
    <3>7. n <= size
      BY <3>4, <3>5, <3>6
    <3> QED BY <3>7 DEF n
  <2>3. Keyed(stack'.undo, Places') /\ Keyed(stack'.redo, Zeros)
    BY <2>1, KeysKept
  <2>4. ~drifted /\ IsKey(c) => c.arg <= size
    BY <2>2
  <2> HIDE DEF c
  <2>5. Counts' /\ Shown'
    BY <1>1, <2>1, <2>4, LinesLanded
  <2> QED BY <2>1, <2>3, <2>5, LinesNext
<1>11. CASE redo_end
  <2> DEFINE c == Top(stack.redo)
  <2>1. Landed(c) /\ stack' = RedoPopped /\ drifted' = drifted /\ pc' \notin {"delete", "backspace"}
    BY <1>11 DEF redo_end, charVars
  <2>2. ~drifted /\ IsKey(c) => c.arg <= size
    <3>1. IsKey(c) => c.arg = 0
      <4>1. IsKey(c) => <<c.arg, TopSeen(stack.redo).text>> \in Zeros
        BY <1>1, KeyedPop
      <4> QED BY <4>1 DEF Zeros
    <3> QED BY <1>1, <3>1 DEF Data
  <2>3. Keyed(stack'.undo, Places') /\ Keyed(stack'.redo, Zeros)
    BY <2>1, KeysKept
  <2> HIDE DEF c
  <2>4. Counts' /\ Shown'
    BY <1>1, <2>1, <2>2, LinesLanded
  <2> QED BY <2>1, <2>3, <2>4, LinesNext
<1> QED BY <1>2, <1>3, <1>6, <1>7, <1>8, <1>9, <1>10, <1>11 DEF UndoNext, UndoStep, RedoStep

(* The line counts the editor keeps by adding and subtracting are always   *)
(* those of the text: buf.lines and curs_line without exception, and       *)
(* start_line as long as no character of several bytes has been taken out  *)
(* in front of the display, where edit_delete and edit_backspace move its   *)
(* start by one byte for the whole character (edit_insert, edit_delete,    *)
(* edit_backspace, edit_cursor_move, edit_move_display, edit_do_undo,      *)
(* edit_do_redo).                                                          *)
THEOREM LinesAlwaysExact == UndoSpec => []LinesExact
<1>1. UndoSpec => [](EuInv /\ LinesInv)
  BY EuInit, EuStep, LinesInit, LinesStep, PTL DEF UndoSpec
<1>2. LinesInv => LinesExact
  BY DEF LinesInv, LinesExact, Counts, Shown
<1> QED BY <1>1, <1>2, PTL

-----------------------------------------------------------------------------
(***************************************************************************)
(* The redo stack is a way forward in the same sense, as far as text and    *)
(* cursor go: its trail is asked for no markers.                            *)
(***************************************************************************)
Breaks == {"BACKSPACE_BR", "DELCHAR_BR"}
NoBreakMet == pc = "redo" => Top(stack.redo).op \notin Breaks
Forward(st, v) == \E o : Leads(st, v, o)
Here == ViewHere({})

(* A stack emptied leads from anywhere to where it is.                      *)
LEMMA EmptyForward ==
  ASSUME NEW st, StackOK(st), NEW v \in Views
  PROVE  Forward(Emptied(st), v)
<1> DEFINE e == Emptied(st)
           P == [k \in 1 .. 0 |-> [j \in Nat |-> v]]
<1>1. e.cells = << >>
  BY DEF Emptied, StackOK, Stacks
<1>2. Len(<< >>) = 0
  BY EmptySeq
<1>3. P \in [1 .. Len(<< >>) -> [Nat -> Views]]
  BY <1>2
<1> HIDE DEF e, P
<1>4. Trail(<< >>, P, v, v)
  BY <1>2, <1>3 DEF Trail
<1>5. Leads(e, v, v.text)
  BY <1>1, <1>4 DEF Leads
<1> QED BY <1>5 DEF Forward, e

(* What leads forward, with a code pushed by an Undo that goes on to b.      *)
LEMMA PushForward ==
  ASSUME NEW st, StackOK(st), NEW c \in Recorded, ~IsKey(c),
         NEW seen \in Sights, NEW a \in Views, NEW b \in Views, a.sel = {}, b.sel = {},
         a.text = seen.text, a.cursor = seen.cursor, Forward(st, a), TextAfter(c, b, a)
  PROVE  Forward(Pushed(Pushed(st, KEY_PRESS(0), seen), c, seen), b)
<1> DEFINE key == KEY_PRESS(0)
           st1 == Pushed(st, key, seen)
           st2 == Pushed(st1, c, seen)
<1>1. key \in Recorded /\ IsKey(key) /\ key.op = "KEY_PRESS"
  BY DEF Recorded, KEY_PRESS, Code, IsKey
<1> HIDE DEF key
<1>2. PICK o : Leads(st, a, o)
  BY DEF Forward
<1>3. Settled({})
  BY DEF Settled
<1>4. Undone(key, a, a)
  BY <1>1, <1>3 DEF Undone, TextAfter
<1>5. Remembered(seen, a)
  BY DEF Remembered
<1>6. StackOK(st1) /\ \E w \in {a, a} : Leads(st1, w, o) /\ (w = a \/ IsKey(key))
  BY <1>1, <1>2, <1>4, <1>5, PushLeads
<1> HIDE DEF st1
<1>7. StackOK(st1) /\ Leads(st1, a, o)
  BY <1>6
<1>8. Undone(c, b, a)
  BY DEF Undone
<1>9. \E w \in {a, b} : Leads(st2, w, o) /\ (w = b \/ IsKey(c))
  BY <1>7, <1>8, PushLeads
<1> HIDE DEF st2
<1>10. Forward(st2, b)
  BY <1>9 DEF Forward
<1> QED BY <1>10 DEF st2, st1, key

(* So it is with a code an Undo records.                                     *)
LEMMA UndoPushes ==
  ASSUME Data, pc = "undo", NEW t, Good(t), NEW c \in Recorded, ~IsKey(c),
         Forward(t.redo, Here), NEW b \in Views, b.sel = {}, TextAfter(c, b, Here)
  PROVE  LET u == edit_push_undo_action(t, c) IN Good(u) /\ Forward(u.redo, b)
<1>1. Good(edit_push_undo_action(t, c))
  BY PushGood
<1>2. edit_push_undo_action(t, c).redo = Pushed(Pushed(t.redo, KEY_PRESS(0), Now), c, Now)
  BY DEF edit_push_undo_action, undo_stack_disable
<1>3. Now \in Sights /\ StackOK(t.redo)
  BY NowSeen DEF Good
<1>4. Here \in Views /\ Here.sel = {} /\ Here.text = Now.text /\ Here.cursor = Now.cursor
  BY HereIsView DEF Here, ViewHere, View, Now
<1>5. Forward(Pushed(Pushed(t.redo, KEY_PRESS(0), Now), c, Now), b)
  BY <1>3, <1>4, PushForward
<1> QED BY <1>1, <1>2, <1>5

(* Others than an Undo leave the redo stack, or drop it.                     *)
LEMMA OthersRecord ==
  ASSUME pc # "undo", NEW s, NEW codes \in Seq(Recorded), Len(codes) \in {1, 3, 4},
         Record(s, codes), s.redo = [cells |-> s.redo.cells, size |-> s.redo.size, lost |-> s.redo.lost]
  PROVE  stack'.redo = IF redo_stack_reset THEN Emptied(s.redo) ELSE s.redo
<1> DEFINE e == Emptied(s.redo)
           Left(t) == t.redo = IF redo_stack_reset THEN e ELSE s.redo
           t1 == edit_push_undo_action(s, codes[1])
           t2 == edit_push_undo_action(t1, codes[2])
           t3 == edit_push_undo_action(t2, codes[3])
           t4 == edit_push_undo_action(t3, codes[4])
<1>1. \A t, c : edit_push_undo_action(t, c).redo = IF redo_stack_reset THEN Emptied(t.redo) ELSE t.redo
  BY DEF edit_push_undo_action, undo_stack_disable
<1>2. Emptied(e) = e
  <2>1. e = [cells |-> << >>, size |-> s.redo.size, lost |-> s.redo.lost]
    BY DEF Emptied
  <2> HIDE DEF e
  <2> QED BY <2>1 DEF Emptied
<1>3. Left(t1)
  BY <1>1
<1> HIDE DEF t1, e
<1>4. Left(t2)
  BY <1>1, <1>2, <1>3
<1> HIDE DEF t2
<1>5. Left(t3)
  BY <1>1, <1>2, <1>4
<1> HIDE DEF t3
<1>6. Left(t4)
  BY <1>1, <1>2, <1>5
<1> HIDE DEF t4, Left
<1>7. stack' = t1 \/ stack' = t3 \/ stack' = t4
  BY RecordIs DEF t1, t2, t3, t4
<1>8. Left(stack')
  BY <1>3, <1>5, <1>6, <1>7
<1> QED BY <1>8 DEF Left, e

(* The reverse of an alteration, which is what it records, with the markers  *)
(* in front if a selection is there.                                         *)
Reversed(s) ==
  \E c \in Recorded :
    /\ ~IsKey(c)
    /\ Record(s, <<c>>) \/ Record(s, MarkersIfSelected \o <<c>>)
    /\ TextAfter(c, View(text', size', cursor', {}), Here)

(* Every alteration is one that records its reverse.                         *)
LEMMA AlteredReversed ==
  ASSUME Data, NEW s, Altered(s)
  PROVE  Kept(s) \/ Reversed(s)
<1>1. /\ size \in Nat /\ text \in TextsOfSize(size) /\ cursor \in 0 .. size /\ cursor \in Nat
      /\ size + 1 \in Nat /\ (size + 1) - 1 = size /\ (cursor + 1) - 1 = cursor
      /\ (cursor - 1) + 1 = cursor /\ (size - 1) + 1 = size
  BY DEF Data
<1>2. Here.text = text /\ Here.size = size /\ Here.cursor = cursor
  BY DEF Here, ViewHere, View
<1> DEFINE b == View(text', size', cursor', {})
<1>3. b.text = text' /\ b.size = size' /\ b.cursor = cursor'
  BY DEF View
<1> HIDE DEF b
<1> SUFFICES ASSUME ~Kept(s)
             PROVE  \E c \in Recorded :
                      /\ ~IsKey(c)
                      /\ Record(s, <<c>>) \/ Record(s, MarkersIfSelected \o <<c>>)
                      /\ TextAfter(c, b, Here)
  BY DEF Reversed, b
<1>4. ASSUME NEW x \in Byte, edit_insert(s, x)
      PROVE  \E c \in Recorded :
                      /\ ~IsKey(c)
                      /\ Record(s, <<c>>) \/ Record(s, MarkersIfSelected \o <<c>>)
                      /\ TextAfter(c, b, Here)
  <2> DEFINE k == Code(IF x \in Blanks THEN "BACKSPACE_BR" ELSE "BACKSPACE", 0)
             t == WithByteAt(text, size, cursor, x)
  <2>1. text' = t /\ size' = size + 1 /\ cursor' = cursor + 1 /\ Record(s, <<k>>)
    BY <1>4 DEF edit_insert, Insert
  <2>2. k \in Recorded /\ k.op \in {"BACKSPACE", "BACKSPACE_BR"} /\ ~IsKey(k)
    BY DEF Recorded, Code, IsKey
  <2>3. WithoutByteAt(t, size + 1, cursor) = text
    BY <1>1, TextFacts
  <2> HIDE DEF k, t
  <2>4. cursor + 1 > 0 /\ size + 1 > 0
    BY <1>1
  <2>5. TextAfter(k, b, Here)
    BY <1>1, <1>2, <1>3, <2>1, <2>2, <2>3, <2>4 DEF TextAfter
  <2> QED BY <2>1, <2>2, <2>5
<1>5. ASSUME NEW x \in Byte, edit_insert_ahead(s, x)
      PROVE  \E c \in Recorded :
                      /\ ~IsKey(c)
                      /\ Record(s, <<c>>) \/ Record(s, MarkersIfSelected \o <<c>>)
                      /\ TextAfter(c, b, Here)
  <2> DEFINE k == Code(IF x \in Blanks THEN "DELCHAR_BR" ELSE "DELCHAR", 0)
             t == WithByteAt(text, size, cursor, x)
  <2>1. text' = t /\ size' = size + 1 /\ cursor' = cursor /\ Record(s, <<k>>)
    BY <1>5 DEF edit_insert_ahead, InsertAhead
  <2>2. k \in Recorded /\ k.op \in {"DELCHAR", "DELCHAR_BR"} /\ ~IsKey(k)
    BY DEF Recorded, Code, IsKey
  <2>3. WithoutByteAt(t, size + 1, cursor) = text
    BY <1>1, TextFacts
  <2> HIDE DEF k, t
  <2>4. cursor < size + 1
    BY <1>1
  <2>5. TextAfter(k, b, Here)
    BY <1>1, <1>2, <1>3, <2>1, <2>2, <2>3, <2>4 DEF TextAfter
  <2> QED BY <2>1, <2>2, <2>5
<1>6. CASE edit_delete(s) \/ edit_backspace(s)
  <2>1. Takes(s, MarkersIfSelected)
    BY <1>6 DEF edit_delete, edit_backspace, Takes
  <2>2. PICK c \in Recorded :
          /\ ~IsKey(c) /\ Record(s, MarkersIfSelected \o <<c>>)
          /\ \A R, S \in SUBSET Pairs : TextAfter(c, View(text', size', cursor', R), ViewHere(S))
    BY <2>1, ByteTaken
  <2>3. TextAfter(c, b, Here)
    BY <2>2 DEF b, Here
  <2> QED BY <2>2, <2>3
<1>7. CASE move_left(s) \/ move_right(s)
  <2>1. PICK k \in {Code("CURS_RIGHT", 0), Code("CURS_LEFT", 0)} :
          /\ Record(s, <<k>>) /\ text' = text /\ size' = size
          /\ \/ k.op = "CURS_RIGHT" /\ cursor > 0 /\ cursor' = cursor - 1
             \/ k.op = "CURS_LEFT" /\ cursor < size /\ cursor' = cursor + 1
    BY <1>7 DEF move_left, move_right, CursorLeft, CursorRight, Code
  <2>2. k \in Recorded /\ ~IsKey(k)
    BY DEF Recorded, Code, IsKey
  <2>3. \/ k.op = "CURS_RIGHT" /\ cursor' < size /\ cursor' + 1 = cursor
        \/ k.op = "CURS_LEFT" /\ cursor' > 0 /\ cursor' - 1 = cursor
    BY <1>1, <2>1
  <2>4. TextAfter(k, b, Here)
    BY <1>2, <1>3, <2>1, <2>3 DEF TextAfter
  <2> QED BY <2>1, <2>2, <2>4
<1> QED BY <1>4, <1>5, <1>6, <1>7 DEF Altered

(* The redo stack after an alteration of an Undo leads from where it went.   *)
LEMMA UndoForward ==
  ASSUME Data, pc = "undo", NEW s, Good(s), Altered(s), Forward(s.redo, Here)
  PROVE  Forward(stack'.redo, View(text', size', cursor', {}))
<1> DEFINE b == View(text', size', cursor', {})
<1>1. b \in Views /\ b.sel = {}
  <2>1. Data'
    BY DataKept
  <2>2. size' \in Nat /\ text' \in TextsOfSize(size') /\ cursor' \in 0 .. size'
    BY <2>1 DEF Data
  <2>3. text' \in Texts
    BY <2>2 DEF Texts
  <2> QED BY <2>2, <2>3 DEF View, Views
<1>2. CASE Kept(s)
  <2>1. stack' = s /\ b = Here
    BY <1>2 DEF Kept, textVars, Here, ViewHere
  <2> HIDE DEF b
  <2>2. Forward(stack'.redo, b)
    BY <2>1
  <2> QED BY <2>2 DEF b
<1>3. CASE Reversed(s)
  <2>1. PICK c \in Recorded : /\ ~IsKey(c)
                              /\ Record(s, <<c>>) \/ Record(s, MarkersIfSelected \o <<c>>)
                              /\ TextAfter(c, b, Here)
    BY <1>3 DEF Reversed
  <2> SUFFICES Forward(stack'.redo, b)
    OBVIOUS
  <2> HIDE DEF b
  <2>2. ASSUME NEW t, Good(t), Forward(t.redo, Here), stack' = edit_push_undo_action(t, c)
        PROVE  Forward(stack'.redo, b)
    BY <1>1, <2>1, <2>2, UndoPushes
  <2>3. CASE Record(s, <<c>>)
    <3>1. stack' = edit_push_undo_action(s, c)
      BY <2>1, <2>3, RecordOne
    <3> QED BY <2>2, <3>1
  <2>4. CASE Record(s, MarkersIfSelected \o <<c>>) /\ mark1 = mark2
    <3>1. MarkersIfSelected = << >>
      BY <2>4 DEF MarkersIfSelected
    <3>2. stack' = edit_push_undo_action(s, c)
      BY <2>1, <2>4, <3>1, ShortSeqs, RecordIs
    <3> QED BY <2>2, <3>2
  <2>5. CASE Record(s, MarkersIfSelected \o <<c>>) /\ mark1 # mark2
    <3> DEFINE c1 == Code("MARK_1", mark1)
               c2 == Code("MARK_2", mark2)
               c3 == MARK_CURS(end_mark_curs)
               codes == MarkersIfSelected \o <<c>>
               t1 == edit_push_undo_action(s, c1)
               t2 == edit_push_undo_action(t1, c2)
               t3 == edit_push_undo_action(t2, c3)
               Fit(t) == Good(t) /\ Forward(t.redo, Here)
    <3>1. codes = <<c1, c2, c3>> \o <<c>>
      BY <2>5 DEF MarkersIfSelected, Markers
    <3>2. c1 \in Recorded /\ c2 \in Recorded /\ c3 \in Recorded
      BY MarkerCodes
    <3>3. /\ c1.op \in {"MARK_1", "MARK_2", "MARK_CURS"} /\ c2.op \in {"MARK_1", "MARK_2", "MARK_CURS"}
          /\ c3.op \in {"MARK_1", "MARK_2", "MARK_CURS"}
      BY MarkerCodes DEF Code
    <3>4. Record(s, codes)
      BY <2>5
    <3> HIDE DEF c1, c2, c3, codes
    <3>5. Len(codes) = 4 /\ codes[1] = c1 /\ codes[2] = c2 /\ codes[3] = c3 /\ codes[4] = c
      BY <2>1, <3>1, <3>2, ShortSeqs
    <3>6. stack' = edit_push_undo_action(t3, c)
      BY <3>4, <3>5, RecordIs
    <3>7. ASSUME NEW t, Fit(t), NEW k \in Recorded, k.op \in {"MARK_1", "MARK_2", "MARK_CURS"}
          PROVE  Fit(edit_push_undo_action(t, k))
      <4>1. ~IsKey(k)
        BY <3>7 DEF IsKey
      <4>2. Here \in Views /\ Here.sel = {}
        BY HereIsView DEF Here, ViewHere, View
      <4>3. TextAfter(k, Here, Here)
        BY <3>7 DEF TextAfter
      <4> QED BY <3>7, <4>1, <4>2, <4>3, UndoPushes
    <3>8. Fit(s)
      OBVIOUS
    <3> HIDE DEF Fit
    <3>9. Fit(t1)
      BY <3>2, <3>3, <3>7, <3>8
    <3> HIDE DEF t1
    <3>10. Fit(t2)
      BY <3>2, <3>3, <3>7, <3>9
    <3> HIDE DEF t2
    <3>11. Fit(t3)
      BY <3>2, <3>3, <3>7, <3>10
    <3> HIDE DEF t3
    <3>12. Good(t3) /\ Forward(t3.redo, Here)
      BY <3>11 DEF Fit
    <3> QED BY <2>2, <3>6, <3>12
  <2> QED BY <2>1, <2>3, <2>4, <2>5
<1> QED BY <1>2, <1>3, AlteredReversed

(* A code replayed makes of the text what the trail says.                    *)
LEMMA ReplayedIs ==
  ASSUME Data, NEW s, NEW c \in Recorded, NEW w, TextAfter(c, Here, w), ~IsKey(c),
         \/ Undo(c, s)
         \/ /\ c.op = "MARK_CURS" /\ mark2' = c.arg + MARK_GAP /\ stack' = s
            /\ UNCHANGED <<textVars, lineVars, displayVars, mark1, end_mark_curs>>
  PROVE  w.text = text' /\ w.size = size' /\ w.cursor = cursor'
<1>1. /\ size \in Nat /\ text \in TextsOfSize(size) /\ cursor \in 0 .. size
  BY DEF Data
<1> DEFINE a == Here
<1>2. a.text = text /\ a.size = size /\ a.cursor = cursor
  BY DEF Here, ViewHere, View
<1>3. TextAfter(c, a, w)
  OBVIOUS
<1> HIDE DEF a
<1>4. CASE c.op \in {"BACKSPACE", "BACKSPACE_BR"}
  <2>1. edit_backspace(s) /\ cursor # 0
    BY <1>1, <1>2, <1>3, <1>4 DEF Undo, Replay, TextAfter
  <2>2. text' = WithoutByteAt(text, size, cursor - 1) /\ size' = size - 1 /\ cursor' = cursor - 1
    BY <2>1 DEF edit_backspace, BackspaceByte, Backspace
  <2> QED BY <1>2, <1>3, <1>4, <2>2 DEF TextAfter
<1>5. CASE c.op \in {"DELCHAR", "DELCHAR_BR"}
  <2>1. edit_delete(s) /\ cursor # size
    BY <1>1, <1>2, <1>3, <1>5 DEF Undo, Replay, TextAfter
  <2>2. text' = WithoutByteAt(text, size, cursor) /\ size' = size - 1 /\ cursor' = cursor
    BY <2>1 DEF edit_delete, DeleteByte, Delete
  <2> QED BY <1>2, <1>3, <1>5, <2>2 DEF TextAfter
<1>6. CASE c.op = "AHEAD"
  <2>1. text' = WithByteAt(text, size, cursor, c.arg) /\ size' = size + 1 /\ cursor' = cursor
    BY <1>6 DEF Undo, Replay, edit_insert_ahead, InsertAhead
  <2> QED BY <1>2, <1>3, <1>6, <2>1 DEF TextAfter
<1>7. CASE c.op = "INSERT"
  <2>1. text' = WithByteAt(text, size, cursor, c.arg) /\ size' = size + 1 /\ cursor' = cursor + 1
    BY <1>7 DEF Undo, Replay, edit_insert, Insert
  <2> QED BY <1>2, <1>3, <1>7, <2>1 DEF TextAfter
<1>8. CASE c.op = "CURS_RIGHT"
  <2>1. move_right(s) /\ cursor # size
    BY <1>1, <1>2, <1>3, <1>8 DEF Undo, Replay, TextAfter
  <2>2. text' = text /\ size' = size /\ cursor' = cursor + 1
    BY <2>1 DEF move_right, CursorRight
  <2> QED BY <1>2, <1>3, <1>8, <2>2 DEF TextAfter
<1>9. CASE c.op = "CURS_LEFT"
  <2>1. move_left(s) /\ cursor # 0
    BY <1>1, <1>2, <1>3, <1>9 DEF Undo, Replay, TextAfter
  <2>2. text' = text /\ size' = size /\ cursor' = cursor - 1
    BY <2>1 DEF move_left, CursorLeft
  <2> QED BY <1>2, <1>3, <1>9, <2>2 DEF TextAfter
<1>10. CASE c.op \in {"MARK_1", "MARK_2", "MARK_CURS"}
  <2>1. text' = text /\ size' = size /\ cursor' = cursor
    BY <1>10 DEF Undo, Replay, textVars
  <2> QED BY <1>2, <1>3, <1>10, <2>1 DEF TextAfter
<1> QED BY <1>3, <1>4, <1>5, <1>6, <1>7, <1>8, <1>9, <1>10 DEF TextAfter, IsKey

(* While the redo stack is of use it leads forward from where the editor is; *)
(* a command drops it with the first code it records.                        *)
RdInv ==
  /\ EuInv
  /\ pc # "mouse"
  /\ pc \in {"command", "delete", "backspace"} => redo_stack_reset
  /\ pc = "redo" => ~redo_stack_reset
  /\ Forward(stack.redo, Here)

(* A file just loaded has nothing to redo.                                   *)
LEMMA RdInit == UndoInit => RdInv
<1> SUFFICES ASSUME UndoInit PROVE RdInv
  OBVIOUS
<1>1. EuInv
  BY EuInit
<1>2. StackOK(stack.redo) /\ Here \in Views
  BY <1>1, HereIsView DEF EuInv, Good, Here
<1>3. Forward(Emptied(stack.redo), Here)
  BY <1>2, EmptyForward
<1>4. Emptied(stack.redo) = stack.redo
  <2>1. stack.redo = NewStack
    BY DEF UndoInit
  <2>2. /\ NewStack = [cells |-> NewStack.cells, size |-> NewStack.size, lost |-> NewStack.lost]
        /\ NewStack.cells = << >>
    BY DEF NewStack
  <2>3. Emptied(NewStack) = [cells |-> << >>, size |-> NewStack.size, lost |-> NewStack.lost]
    BY <2>2 DEF Emptied
  <2> QED BY <2>1, <2>2, <2>3
<1> QED BY <1>1, <1>3, <1>4 DEF UndoInit, RdInv

(* What any but an Undo records leaves the way forward, or drops it.         *)
LEMMA OthersForward ==
  ASSUME pc # "undo", NEW s, Good(s), NEW codes \in Seq(Recorded), Len(codes) \in {1, 3, 4},
         Record(s, codes), NEW b \in Views, redo_stack_reset \/ Forward(s.redo, b)
  PROVE  Forward(stack'.redo, b)
<1>1. StackOK(s.redo) /\ s.redo = [cells |-> s.redo.cells, size |-> s.redo.size, lost |-> s.redo.lost]
  BY DEF Good, StackOK, Stacks
<1>2. stack'.redo = IF redo_stack_reset THEN Emptied(s.redo) ELSE s.redo
  BY <1>1, OthersRecord
<1>3. Forward(Emptied(s.redo), b)
  BY <1>1, EmptyForward
<1> QED BY <1>2, <1>3

(* An alteration of a command or a Redo records as they do.                  *)
LEMMA AlteredForward ==
  ASSUME Data, pc # "undo", NEW s, Good(s), Altered(s), ~Kept(s), NEW b \in Views,
         redo_stack_reset \/ Forward(s.redo, b)
  PROVE  Forward(stack'.redo, b)
BY AlteredRecords, OthersForward DEF Records

(* The key of a command, or of a Redo.                                       *)
LEMMA KeyForward ==
  ASSUME EuInv, pc # "undo", Record(stack, KeyPress), Forward(stack.redo, Here)
  PROVE  Forward(stack'.redo, Here)
<1>1. Data /\ Good(stack) /\ Here \in Views
  BY HereIsView DEF EuInv, Here
<1>2. /\ KEY_PRESS(start_display) \in Recorded /\ Code("MARK_1", mark1) \in Recorded
      /\ MARK_CURS(end_mark_curs) \in Recorded
  BY <1>1, MarkerCodes DEF Data, Recorded
<1> DEFINE k == KEY_PRESS(start_display)
           a == Code("MARK_1", mark1)
           e == MARK_CURS(end_mark_curs)
           codes == KeyPress
<1>3. codes = << k >> \o IF mark2 = -1 THEN << a, e >> ELSE << >>
  BY DEF KeyPress
<1> HIDE DEF k, a, e, codes
<1>4. k \in Recorded /\ a \in Recorded /\ e \in Recorded
  BY <1>2 DEF k, a, e
<1>5. codes \in Seq(Recorded) /\ Len(codes) \in {1, 3}
  <2>1. << k >> \in Seq(Recorded) /\ << a, e >> \in Seq(Recorded) /\ << >> \in Seq(Recorded)
    BY <1>4
  <2>2. << k >> \o << a, e >> \in Seq(Recorded) /\ << k >> \o << >> \in Seq(Recorded)
    BY <2>1, ConcatProperties
  <2>3. Len(<< k >> \o << a, e >>) = 3 /\ Len(<< k >> \o << >>) = 1
    BY <1>4, ShortSeqs
  <2> QED BY <1>3, <2>2, <2>3
<1>6. Record(stack, codes)
  BY DEF codes
<1> QED BY <1>1, <1>5, <1>6, OthersForward

(* Each step in turn; what remains the same of the text is the same view.    *)
LEMMA HereSame == UNCHANGED textVars => View(text', size', cursor', {}) = Here
BY DEF textVars, Here, ViewHere

(* The invariant of the next state, in terms of its variables.               *)
LEMMA RdPrimed == EuInv' /\ Forward(stack'.redo, View(text', size', cursor', {}))
                  /\ pc' # "mouse"
                  /\ (pc' \in {"command", "delete", "backspace"} => redo_stack_reset')
                  /\ (pc' = "redo" => ~redo_stack_reset') => RdInv'
BY DEF RdInv, Here, ViewHere

(* A key press, or a Redo, begins.                                           *)
LEMMA RdCommand ==
  ASSUME RdInv, EuInv', key_command \/ redo_command
  PROVE  RdInv'
<1>1. /\ EuInv /\ pc # "undo" /\ Record(stack, KeyPress) /\ Forward(stack.redo, Here)
      /\ UNCHANGED textVars
  BY DEF RdInv, key_command, redo_command
<1>2. Forward(stack'.redo, Here)
  BY <1>1, KeyForward
<1>3. CASE key_command
  <2>1. pc' = "command" /\ redo_stack_reset' = TRUE
    BY <1>3 DEF key_command
  <2> QED BY <1>1, <1>2, <2>1, HereSame, RdPrimed
<1>4. CASE redo_command
  <2>1. pc' = "redo" /\ redo_stack_reset' = FALSE
    BY <1>4 DEF redo_command
  <2> QED BY <1>1, <1>2, <2>1, HereSame, RdPrimed
<1> QED BY <1>3, <1>4

(* What a command records drops the redo stack.                              *)
LEMMA RdCommandStep ==
  ASSUME RdInv, EuInv', command_step \/ command_end
  PROVE  RdInv'
<1>1. /\ EuInv /\ Data /\ Good(stack) /\ pc = "command" /\ redo_stack_reset /\ Forward(stack.redo, Here)
      /\ redo_stack_reset' = redo_stack_reset /\ pc' \in {"command", "idle"}
  BY DEF RdInv, EuInv, command_step, command_end
<1>2. View(text', size', cursor', {}) \in Views
  <2>1. Data'
    BY DEF EuInv
  <2>2. size' \in Nat /\ text' \in TextsOfSize(size') /\ cursor' \in 0 .. size'
    BY <2>1 DEF Data
  <2>3. text' \in Texts
    BY <2>2 DEF Texts
  <2> QED BY <2>2, <2>3 DEF View, Views
<1>3. CASE Kept(stack)
  BY <1>1, <1>3, HereSame, RdPrimed DEF Kept
<1>4. CASE Altered(stack) /\ ~Kept(stack)
  BY <1>1, <1>2, <1>4, AlteredForward, RdPrimed
<1>5. ASSUME NEW unmark \in BOOLEAN, edit_mark_cmd(unmark) PROVE RdInv'
  <2>1. Code("MARK_1", mark1) \in Recorded /\ Code("MARK_2", mark2) \in Recorded
        /\ MARK_CURS(end_mark_curs) \in Recorded
    BY <1>1, MarkerCodes
  <2>2. Markers \in Seq(Recorded) /\ Len(Markers) = 3
    BY <2>1, ShortSeqs DEF Markers
  <2>3. Record(stack, Markers)
    BY <1>5 DEF edit_mark_cmd
  <2>4. Forward(stack'.redo, View(text', size', cursor', {}))
    BY <1>1, <1>2, <2>2, <2>3, OthersForward
  <2> QED BY <1>1, <2>4, RdPrimed
<1>6. ASSUME NEW l \in -MaxSize .. MaxSize, edit_move_display(l) PROVE RdInv'
  BY <1>1, <1>6, HereSame, RdPrimed DEF edit_move_display
<1>7. \/ Altered(stack) \/ \E unmark \in BOOLEAN : edit_mark_cmd(unmark)
      \/ \E l \in -MaxSize .. MaxSize : edit_move_display(l)
      \/ Kept(stack)
  BY DEF command_step, command_end, Alteration, Movement, Altered
<1> QED BY <1>3, <1>4, <1>5, <1>6, <1>7

LEMMA RdChar ==
  ASSUME RdInv, EuInv', char_begins \/ char_step
  PROVE  RdInv'
<1>1. /\ EuInv /\ Data /\ Good(stack) /\ redo_stack_reset /\ redo_stack_reset' = redo_stack_reset
      /\ pc # "undo" /\ pc' \in {"command", "delete", "backspace"}
  BY DEF RdInv, EuInv, char_begins, char_step
<1>2. Takes(stack, MarkersIfSelected) \/ Takes(stack, << >>)
  <2>1. CASE char_begins
    BY <2>1 DEF char_begins, Takes
  <2>2. CASE char_step
    BY <2>2 DEF char_step, Takes
  <2> QED BY <2>1, <2>2
<1>3. Records(stack, {})
  BY <1>1, <1>2, ByteTaken, ByteRecords
<1> DEFINE b == View(text', size', cursor', {})
<1>4. b \in Views
  <2>1. size' \in Nat /\ text' \in TextsOfSize(size') /\ cursor' \in 0 .. size'
    BY <1>1, <1>2, ByteTaken
  <2>2. text' \in Texts
    BY <2>1 DEF Texts
  <2> QED BY <2>1, <2>2 DEF View, Views
<1> HIDE DEF b
<1>5. Forward(stack'.redo, b)
  BY <1>1, <1>3, <1>4, OthersForward DEF Records
<1> QED BY <1>1, <1>5, RdPrimed DEF b

(* An Undo lengthens the way forward by every step back.                     *)
LEMMA RdUndo ==
  ASSUME RdInv, EuInv', undo_command \/ undo_action \/ undo_end
  PROVE  RdInv'
<1>1. /\ EuInv /\ Data /\ Good(stack) /\ Forward(stack.redo, Here)
      /\ pc' \in {"undo", "idle"}
  BY DEF RdInv, EuInv, undo_command, undo_action, undo_end, ctlVars
<1>2. Good(UndoPopped) /\ UndoPopped.redo = stack.redo
  BY <1>1, PoppedGood
<1>3. CASE undo_command
  BY <1>1, <1>3, HereSame, RdPrimed DEF undo_command
<1>4. CASE undo_end
  BY <1>1, <1>2, <1>4, HereSame, RdPrimed DEF undo_end, Landed
<1>5. CASE undo_action
  <2> DEFINE c == Top(stack.undo)
  <2>1. Undo(c, UndoPopped) /\ pc = "undo"
    BY <1>5 DEF undo_action, Undo
  <2>2. c \in Recorded
    <3>1. c # STACK_BOTTOM
      BY <2>1 DEF Undo, Replay, STACK_BOTTOM, Code
    <3> QED BY <1>1, <3>1, PoppedDoes DEF Good
  <2> HIDE DEF c
  <2>3. CASE Altered(UndoPopped)
    BY <1>1, <1>2, <2>1, <2>3, UndoForward, RdPrimed
  <2>4. CASE stack' = UndoPopped /\ UNCHANGED textVars
    BY <1>1, <1>2, <2>4, HereSame, RdPrimed
  <2> QED BY <2>1, <2>2, <2>3, <2>4, UndoCases
<1> QED BY <1>3, <1>4, <1>5

(* A code popped from the redo stack leads on.                               *)
LEMMA RedoLeads ==
  ASSUME RdInv
  PROVE  /\ StackOK(stack.redo) /\ StackOK(Popped(stack.redo))
         /\ stack.redo.cells = << >> =>
              Top(stack.redo) = STACK_BOTTOM /\ Popped(stack.redo) = stack.redo
         /\ stack.redo.cells # << >> =>
              /\ Top(stack.redo) \in Recorded
              /\ IsKey(Top(stack.redo)) => Remembered(TopSeen(stack.redo), Here)
              /\ \E w \in Views : /\ TextAfter(Top(stack.redo), Here, w)
                                  /\ Forward(Popped(stack.redo), View(w.text, w.size, w.cursor, {}))
<1>1. StackOK(stack.redo) /\ Here \in Views /\ Forward(stack.redo, Here)
  BY HereIsView DEF RdInv, EuInv, Good, Here
<1>2. PICK o : Leads(stack.redo, Here, o)
  BY <1>1 DEF Forward
<1>3. /\ StackOK(Popped(stack.redo))
      /\ stack.redo.cells = << >> =>
           Top(stack.redo) = STACK_BOTTOM /\ Popped(stack.redo) = stack.redo
      /\ stack.redo.cells # << >> =>
           /\ Top(stack.redo) \in Recorded
           /\ IsKey(Top(stack.redo)) => Remembered(TopSeen(stack.redo), Here)
           /\ \E w \in Views : Leads(Popped(stack.redo), w, o) /\ Undone(Top(stack.redo), Here, w)
  BY <1>1, <1>2, PopLeads
<1>4. \A w \in Views : Leads(Popped(stack.redo), w, o) =>
        Forward(Popped(stack.redo), View(w.text, w.size, w.cursor, {}))
  BY <1>3, BareLeads DEF Forward
<1> QED BY <1>1, <1>3, <1>4 DEF Undone

(* A Redo goes along it, and what it records leaves it alone.                *)
LEMMA RdRedoAction ==
  ASSUME RdInv, EuInv', NoBreakMet, redo_action
  PROVE  RdInv'
<1> DEFINE c == Top(stack.redo)
<1>1. /\ Data /\ Good(stack) /\ pc = "redo" /\ ~redo_stack_reset /\ pc' = "redo" /\ ~redo_stack_reset'
  BY DEF RdInv, EuInv, redo_action
<1>2. Good(RedoPopped) /\ RedoPopped.redo = Popped(stack.redo)
  BY <1>1, PoppedGood
<1>3. \/ Replay(c, RedoPopped)
      \/ c.op \in {"BACKSPACE_BR", "DELCHAR_BR"} /\ Kept(RedoPopped)
      \/ /\ c.op = "MARK_CURS" /\ mark2' = c.arg + MARK_GAP /\ stack' = RedoPopped
         /\ UNCHANGED <<textVars, lineVars, displayVars, mark1, end_mark_curs>>
  BY DEF redo_action
<1>4. c # STACK_BOTTOM /\ ~IsKey(c)
  BY <1>3 DEF Replay, STACK_BOTTOM, Code, IsKey
<1>5. stack.redo.cells # << >>
  BY <1>4, RedoLeads
<1>6. c \in Recorded /\ c.op \notin Breaks
  BY <1>1, <1>5, RedoLeads DEF NoBreakMet
<1>7. PICK w \in Views : /\ TextAfter(c, Here, w)
                         /\ Forward(Popped(stack.redo), View(w.text, w.size, w.cursor, {}))
  BY <1>5, RedoLeads
<1> HIDE DEF c
<1>8. \/ Undo(c, RedoPopped)
      \/ /\ c.op = "MARK_CURS" /\ mark2' = c.arg + MARK_GAP /\ stack' = RedoPopped
         /\ UNCHANGED <<textVars, lineVars, displayVars, mark1, end_mark_curs>>
  BY <1>3, <1>6 DEF Undo, Breaks
<1>9. w.text = text' /\ w.size = size' /\ w.cursor = cursor'
  BY <1>1, <1>4, <1>6, <1>7, <1>8, ReplayedIs
<1> DEFINE b == View(text', size', cursor', {})
<1>10. Forward(RedoPopped.redo, b)
  BY <1>2, <1>7, <1>9
<1>11. b \in Views
  <2>1. Data'
    BY DEF EuInv
  <2>2. size' \in Nat /\ text' \in TextsOfSize(size') /\ cursor' \in 0 .. size'
    BY <2>1 DEF Data
  <2>3. text' \in Texts
    BY <2>2 DEF Texts
  <2> QED BY <2>2, <2>3 DEF View, Views
<1> HIDE DEF b
<1>12. Forward(stack'.redo, b)
  <2>1. CASE stack' = RedoPopped
    BY <1>10, <2>1
  <2>2. CASE Altered(RedoPopped) /\ ~Kept(RedoPopped)
    BY <1>1, <1>2, <1>10, <1>11, <2>2, AlteredForward
  <2>3. Altered(RedoPopped) \/ stack' = RedoPopped
    BY <1>6, <1>8, UndoCases
  <2> QED BY <2>1, <2>2, <2>3 DEF Kept
<1> QED BY <1>1, <1>12, RdPrimed DEF b

(* It ends at a key press, which leaves the text where it is.                *)
LEMMA RdRedoEnd ==
  ASSUME RdInv, EuInv', redo_end
  PROVE  RdInv'
<1> DEFINE c == Top(stack.redo)
<1>1. /\ Data /\ Good(stack) /\ pc' = "idle" /\ Landed(c) /\ stack' = RedoPopped /\ Forward(stack.redo, Here)
  BY DEF RdInv, EuInv, redo_end
<1>2. stack'.redo = Popped(stack.redo)
  BY <1>1, PoppedGood
<1>3. UNCHANGED textVars
  BY <1>1 DEF Landed
<1>4. CASE stack.redo.cells = << >>
  BY <1>1, <1>2, <1>3, <1>4, RedoLeads, HereSame, RdPrimed
<1>5. CASE stack.redo.cells # << >>
  <2>1. IsKey(c)
    BY <1>1, <1>5, RedoLeads, CodeFacts DEF Landed
  <2>2. PICK w \in Views : /\ TextAfter(c, Here, w)
                           /\ Forward(Popped(stack.redo), View(w.text, w.size, w.cursor, {}))
    BY <1>5, RedoLeads
  <2> HIDE DEF c
  <2>3. w.text = Here.text /\ w.size = Here.size /\ w.cursor = Here.cursor
    BY <2>1, <2>2 DEF TextAfter, IsKey
  <2>4. View(w.text, w.size, w.cursor, {}) = Here
    BY <2>3 DEF Here, ViewHere, View
  <2>5. Forward(stack'.redo, Here)
    BY <1>2, <2>2, <2>4
  <2> QED BY <1>1, <1>3, <2>5, HereSame, RdPrimed
<1> QED BY <1>4, <1>5

(* Every step keeps the way forward.                                         *)
LEMMA RdStep ==
  ASSUME RdInv, [UndoNext]_vars, NoBreakMet, "mouse" \notin Ops
  PROVE  RdInv'
<1>1. EuInv'
  BY EuStep DEF RdInv
<1>2. CASE UNCHANGED vars
  BY <1>1, <1>2, HereSame, RdPrimed DEF vars, editVars, stackVars, ctlVars, RdInv
<1>3. ~mouse_press
  BY DEF mouse_press
<1> QED BY <1>1, <1>2, <1>3, RdCommand, RdCommandStep, RdChar, RdUndo, RdRedoAction,
    RdRedoEnd
    DEF UndoNext, UndoStep, RedoStep

(* The view at the near end of the way forward is what the key press saw.    *)
LEMMA RdRestores == RdInv => RedoRestores
<1> SUFFICES ASSUME RdInv, TopIsKey(stack.redo)
             PROVE  text = TopSeen(stack.redo).text /\ cursor = TopSeen(stack.redo).cursor
  BY DEF RedoRestores, Restored
<1>1. stack.redo.cells # << >>
  BY RedoLeads DEF TopIsKey, IsKey, STACK_BOTTOM, Code
<1>2. Remembered(TopSeen(stack.redo), Here)
  BY <1>1, RedoLeads DEF TopIsKey
<1> QED BY <1>2 DEF Remembered, Here, ViewHere, View

(* With the keyboard alone, and as long as no Redo meets the code of a      *)
(* newline, blank or tab put in by an Undo, a Redo that has popped its way  *)
(* to a key press finds text and cursor as the step of the Undo that pushed *)
(* it had found them, whatever else was typed, taken out, undone and redone *)
(* (edit_do_redo, edit_do_undo, edit_push_undo_action).  Both conditions    *)
(* are needed: edit_do_redo skips such a code, and edit_update_cursor       *)
(* records a mouse press without making the redo stack stale.               *)
THEOREM RedoAlwaysRestores ==
  ASSUME "mouse" \notin Ops
  PROVE  UndoSpec /\ []NoBreakMet => []RedoRestores
<1>1. RdInv /\ NoBreakMet /\ [UndoNext]_vars => RdInv'
  BY RdStep
<1>2. UndoSpec /\ []NoBreakMet => []RdInv
  BY <1>1, RdInit, PTL DEF UndoSpec
<1> QED BY <1>2, RdRestores, PTL

-----------------------------------------------------------------------------
(* One stack by itself (UndoStackSpec), for every set of codes, every size *)
(* and every margin: the oldest code kept is a key press, and it never     *)
(* fills up.                                                               *)

(* The codes on a stack: those pushed, and the counts Pushed adds.          *)
AnyCode == Pushable \cup {COUNT(n) : n \in Int}
AnyCell == [code : AnyCode, seen : {<< >>}]

StackType ==
  /\ a_stack \in [cells : Seq(AnyCell), size : Nat, lost : BOOLEAN]
  /\ a_stack.size >= START_STACK_SIZE

(* The invariant both properties follow from: a push looks at the length    *)
(* alone, a pop at the last cells alone, so neither disturbs the other's.   *)
StackInv == StackType /\ OldestIsKey /\ RoomLeft

-----------------------------------------------------------------------------
(* Forgetting removes a code at least, and leaves a beginning of what was   *)
(* there out.                                                               *)
LEMMA ForgetShortens ==
  ASSUME NEW S, NEW cells \in Seq(S), cells # << >>
  PROVE  ForgetOldest(cells) \in Seq(S) /\ Len(ForgetOldest(cells)) <= Len(cells) - 1
<1> DEFINE along == {k \in 2 .. Len(cells) : \A j \in 2 .. k : ~IsKey(cells[j].code)}
<1>1. Len(cells) \in Nat /\ Len(cells) >= 1
  BY EmptySeq, LenProperties
<1>2. IsFiniteSet(2 .. Len(cells)) /\ Cardinality(2 .. Len(cells)) = Len(cells) - 1
  BY <1>1, FS_Interval
<1>3. along \subseteq 2 .. Len(cells)
  OBVIOUS
<1>4. Cardinality(along) \in 0 .. Len(cells) - 1
  BY <1>1, <1>2, <1>3, FS_Subset, FS_CardinalityType
<1> HIDE DEF along
<1>5. 2 + Cardinality(along) \in 1 .. Len(cells) + 1
  BY <1>1, <1>4
<1>6. SubSeq(cells, 2 + Cardinality(along), Len(cells)) \in Seq(S)
  BY <1>1, <1>5, SubSeqProperties
<1>7. Len(SubSeq(cells, 2 + Cardinality(along), Len(cells))) <= Len(cells) - 1
  BY <1>1, <1>4, <1>5, SubSeqProperties
<1>8. QED
  BY <1>6, <1>7 DEF ForgetOldest, along

(* What a push of a new cell leaves of a stack that had room. *)
LEMMA TrimmedKeeps ==
  ASSUME NEW t \in [cells : Seq(AnyCell), size : Nat, lost : BOOLEAN],
         t.size >= 5, Len(t.cells) <= t.size - 3
  PROVE  /\ Trimmed(t) \in [cells : Seq(AnyCell), size : Nat, lost : BOOLEAN]
         /\ Trimmed(t).size = t.size
         /\ Trimmed(t).cells = << >> \/ IsKey(Trimmed(t).cells[1].code)
         /\ Len(Trimmed(t).cells) <= t.size - 4
<1> DEFINE full == Len(t.cells) \in {t.size - 3, t.size - 2}
           kept == IF full THEN ForgetOldest(t.cells) ELSE t.cells
           whole == kept = << >> \/ IsKey(kept[1].code)
           cells == IF whole THEN kept ELSE << >>
<1>1. t.cells \in Seq(AnyCell) /\ Len(t.cells) \in Nat /\ t.size \in Nat
  BY LenProperties
<1>2. kept \in Seq(AnyCell) /\ Len(kept) <= t.size - 4
  <2>1. CASE full
    <3>1. t.cells # << >>
      BY <1>1, <2>1, EmptySeq
    <3>2. ForgetOldest(t.cells) \in Seq(AnyCell)
          /\ Len(ForgetOldest(t.cells)) <= Len(t.cells) - 1
      BY <1>1, <3>1, ForgetShortens
    <3>3. Len(ForgetOldest(t.cells)) \in Nat
      BY <3>2, LenProperties
    <3>4. QED  BY <1>1, <2>1, <3>2, <3>3
  <2>2. CASE ~full
    BY <1>1, <2>2
  <2>3. QED  BY <2>1, <2>2
<1> HIDE DEF full, kept
<1>3. cells \in Seq(AnyCell) /\ Len(cells) <= t.size - 4
  BY <1>1, <1>2, EmptySeq
<1>4. cells = << >> \/ IsKey(cells[1].code)
  OBVIOUS
<1>5. Trimmed(t) = [t EXCEPT !.cells = cells, !.lost = @ \/ full \/ ~whole]
  BY DEF Trimmed, full, kept
<1>6. Trimmed(t).cells = cells /\ Trimmed(t).size = t.size
  BY <1>5
<1>7. (t.lost \/ full \/ ~whole) \in BOOLEAN
  OBVIOUS
<1>8. Trimmed(t) = [cells |-> cells, size |-> t.size, lost |-> t.lost \/ full \/ ~whole]
  BY <1>5
<1>9. Trimmed(t) \in [cells : Seq(AnyCell), size : Nat, lost : BOOLEAN]
  <2> HIDE DEF cells, whole
  <2> QED  BY <1>1, <1>3, <1>7, <1>8
<1>10. QED
  BY <1>3, <1>4, <1>6, <1>9

LEMMA DoubledKeeps ==
  ASSUME StackInv
  PROVE  /\ Doubled(a_stack) \in [cells : Seq(AnyCell), size : Nat, lost : BOOLEAN]
         /\ Doubled(a_stack).cells = a_stack.cells
         /\ Doubled(a_stack).size >= a_stack.size
BY DEF StackInv, StackType, Doubled

-----------------------------------------------------------------------------
LEMMA PushKeepsInv ==
  ASSUME StackAssumption, StackInv,
         NEW c \in Pushable, a_stack' = Pushed(a_stack, c, << >>)
  PROVE  StackInv'
<1> DEFINE d == Doubled(a_stack)
           n == Len(d.cells)
           counted == n > 0 /\ d.cells[n].code.op = "COUNT"
           again == /\ n > 2
                    /\ c = d.cells[IF counted THEN n - 1 ELSE n].code
                    /\ counted => d.cells[n].code.arg > -MAX_RUN
           push(code) == Trimmed([d EXCEPT !.cells = Append(@, Cell(code, << >>))])
           more == [d EXCEPT !.cells[n].code.arg = @ - 1]
<1>1. /\ d \in [cells : Seq(AnyCell), size : Nat, lost : BOOLEAN]
      /\ d.cells = a_stack.cells /\ d.size >= a_stack.size
  BY DoubledKeeps
<1>2. n \in Nat /\ n <= d.size - 4 /\ d.size >= START_STACK_SIZE /\ d.size \in Nat /\ d.size >= 5
  BY <1>1, LenProperties DEF StackInv, StackType, RoomLeft, StackAssumption
<1>3. d.cells = << >> \/ IsKey(d.cells[1].code)
  BY <1>1 DEF StackInv, OldestIsKey
<1>4. a_stack' = IF again /\ IsKey(c) THEN d
           ELSE IF again /\ counted THEN more
           ELSE push(IF again THEN COUNT(-2) ELSE c)
  BY DEF Pushed
<1> HIDE DEF d
<1>5. CASE a_stack' = d
  BY SMTT(60), <1>1, <1>2, <1>3, <1>5 DEF StackInv, StackType, OldestIsKey, RoomLeft
<1>6. CASE again /\ counted /\ a_stack' = more
  <2>1. n \in 1 .. Len(d.cells)
    BY <1>2, <1>6
  <2>2. d.cells[n] \in AnyCell
    BY <1>1, <2>1, LenProperties
  <2>3. PICK k \in Int : d.cells[n] = [code |-> COUNT(k), seen |-> << >>]
    BY <2>2, <1>6 DEF AnyCell, AnyCode, Pushable
  <2> DEFINE e == [code |-> COUNT(k - 1), seen |-> << >>]
             cells == [d.cells EXCEPT ![n] = e]
  <2>4. [d.cells[n] EXCEPT !.code.arg = @ - 1] = e
    BY <2>3 DEF COUNT, Code
  <2>5. e \in AnyCell
    BY DEF AnyCell, AnyCode
  <2>6. /\ cells \in Seq(AnyCell) /\ Len(cells) = n
        /\ cells[1] = IF n = 1 THEN e ELSE d.cells[1]
    BY <1>1, <2>1, <2>5, ExceptSeq
  <2>7. more = [d EXCEPT !.cells = cells]
    BY <2>4
  <2> HIDE DEF cells, more
  <2>8. more = [cells |-> cells, size |-> d.size, lost |-> d.lost]
    BY <1>1, <2>7
  <2>9. more \in [cells : Seq(AnyCell), size : Nat, lost : BOOLEAN]
    BY <1>1, <2>6, <2>8
  <2>10. more.cells = cells /\ more.size = d.size
    BY <2>8
  <2>11. IsKey(cells[1].code)
    BY <1>3, <1>6, <2>1, <2>6
  <2>12. QED
    BY <1>2, <1>6, <2>6, <2>9, <2>10, <2>11 DEF StackInv, StackType, OldestIsKey, RoomLeft
<1>7. CASE \E code \in AnyCode : a_stack' = push(code)
  <2>1. PICK code \in AnyCode : a_stack' = push(code)
    BY <1>7
  <2>2. Cell(code, << >>) \in AnyCell
    BY DEF AnyCell, Cell
  <2> DEFINE cells == Append(d.cells, Cell(code, << >>))
             t == [d EXCEPT !.cells = Append(@, Cell(code, << >>))]
  <2>3. cells \in Seq(AnyCell) /\ Len(cells) = n + 1
    BY <1>1, <2>2, AppendProperties
  <2>4. t = [d EXCEPT !.cells = cells]
    OBVIOUS
  <2> HIDE DEF cells, t
  <2>5. t = [cells |-> cells, size |-> d.size, lost |-> d.lost]
    BY <1>1, <2>4
  <2>6. /\ t \in [cells : Seq(AnyCell), size : Nat, lost : BOOLEAN]
        /\ t.size = d.size /\ Len(t.cells) = n + 1
    BY <1>1, <2>3, <2>5
  <2>7. /\ Trimmed(t) \in [cells : Seq(AnyCell), size : Nat, lost : BOOLEAN]
        /\ Trimmed(t).size = t.size
        /\ Trimmed(t).cells = << >> \/ IsKey(Trimmed(t).cells[1].code)
        /\ Len(Trimmed(t).cells) <= t.size - 4
    BY <1>2, <2>6, TrimmedKeeps
  <2>8. a_stack' = Trimmed(t)
    BY <2>1 DEF t
  <2>9. QED
    BY <1>2, <2>6, <2>7, <2>8 DEF StackInv, StackType, OldestIsKey, RoomLeft
<1>8. COUNT(-2) \in AnyCode /\ c \in AnyCode
  BY DEF AnyCode
<1>9. QED
  BY <1>4, <1>5, <1>6, <1>7, <1>8

LEMMA PopKeepsInv ==
  ASSUME StackInv, a_stack' = Popped(a_stack)
  PROVE  StackInv'
<1> DEFINE n == Len(a_stack.cells)
           counted == a_stack.cells[n].code.op = "COUNT" /\ a_stack.cells[n].code.arg # -2
           fewer == [a_stack EXCEPT !.cells[n].code.arg = @ + 1]
           shorter == [a_stack EXCEPT !.cells = SubSeq(@, 1, n - 1)]
<1>1. /\ a_stack.cells \in Seq(AnyCell) /\ a_stack.size \in Nat /\ a_stack.lost \in BOOLEAN
      /\ n \in Nat /\ n <= a_stack.size - 4 /\ a_stack.size >= START_STACK_SIZE
  BY LenProperties DEF StackInv, StackType, RoomLeft
<1>2. a_stack = [cells |-> a_stack.cells, size |-> a_stack.size, lost |-> a_stack.lost]
  BY DEF StackInv, StackType
<1>3. a_stack.cells = << >> \/ IsKey(a_stack.cells[1].code)
  BY DEF StackInv, OldestIsKey
<1>4. CASE Top(a_stack) = STACK_BOTTOM
  BY <1>4 DEF Popped, StackInv, StackType, OldestIsKey, RoomLeft
<1>5. CASE Top(a_stack) # STACK_BOTTOM /\ counted
  <2>1. n \in 2 .. Len(a_stack.cells)
    <3>1. n # 0
      BY <1>5 DEF Top
    <3>2. n # 1
      BY <1>5 DEF Top
    <3>3. n \in Nat
      BY <1>1
    <3> HIDE DEF n
    <3>4. n \in 2 .. n
      BY <3>1, <3>2, <3>3
    <3>5. QED  BY <3>4 DEF n
  <2>2. a_stack.cells[n] \in AnyCell
    BY <1>1, <2>1, LenProperties
  <2>3. PICK k \in Int : a_stack.cells[n] = [code |-> COUNT(k), seen |-> << >>]
    BY <2>2, <1>5 DEF AnyCell, AnyCode, Pushable
  <2> DEFINE e == [code |-> COUNT(k + 1), seen |-> << >>]
             cells == [a_stack.cells EXCEPT ![n] = e]
  <2>4. [a_stack.cells[n] EXCEPT !.code.arg = @ + 1] = e
    BY <2>3 DEF COUNT, Code
  <2>5. e \in AnyCell
    BY DEF AnyCell, AnyCode
  <2>6. cells \in Seq(AnyCell) /\ Len(cells) = n /\ cells[1] = a_stack.cells[1]
    BY <1>1, <2>1, <2>5, ExceptSeq
  <2>7. a_stack' = fewer
    BY <1>5 DEF Popped
  <2>8. a_stack' = [a_stack EXCEPT !.cells = cells]
    BY <2>4, <2>7
  <2> HIDE DEF cells
  <2>9. a_stack' = [cells |-> cells, size |-> a_stack.size, lost |-> a_stack.lost]
    BY <1>2, <2>8
  <2>10. IsKey(cells[1].code)
    BY <1>1, <1>3, <2>1, <2>6, EmptySeq
  <2>11. a_stack' \in [cells : Seq(AnyCell), size : Nat, lost : BOOLEAN]
    BY <1>1, <2>6, <2>9
  <2>12. QED
    BY <1>1, <2>6, <2>9, <2>10, <2>11 DEF StackInv, StackType, OldestIsKey, RoomLeft
<1>6. CASE Top(a_stack) # STACK_BOTTOM /\ ~counted
  <2> DEFINE cells == SubSeq(a_stack.cells, 1, n - 1)
  <2>1. n >= 1
    BY <1>1, <1>6 DEF Top
  <2>2. /\ cells \in Seq(AnyCell) /\ Len(cells) = n - 1
        /\ \A i \in 1 .. n - 1 : cells[i] = a_stack.cells[i]
    <3>1. \A i \in 1 .. n - 1 : a_stack.cells[i] \in AnyCell
      BY <1>1, LenProperties
    <3>2. QED  BY <1>1, <2>1, <3>1, SubSeqProperties
  <2>3. a_stack' = shorter
    BY <1>6 DEF Popped
  <2>4. a_stack' = [a_stack EXCEPT !.cells = cells]
    BY <2>3
  <2> HIDE DEF cells
  <2>5. a_stack' = [cells |-> cells, size |-> a_stack.size, lost |-> a_stack.lost]
    BY <1>2, <2>4
  <2>6. cells = << >> \/ IsKey(cells[1].code)
    <3>1. CASE n = 1
      BY <2>2, <3>1, EmptySeq
    <3>2. CASE n # 1
      BY <1>1, <1>3, <2>1, <2>2, <3>2, EmptySeq
    <3>3. QED  BY <3>1, <3>2
  <2>7. a_stack' \in [cells : Seq(AnyCell), size : Nat, lost : BOOLEAN]
    BY <1>1, <2>2, <2>5
  <2>8. QED
    BY <1>1, <2>2, <2>5, <2>6, <2>7 DEF StackInv, StackType, OldestIsKey, RoomLeft
<1>7. QED
  BY <1>4, <1>5, <1>6

LEMMA EmptiedKeepsInv ==
  ASSUME StackAssumption, StackInv, a_stack' = Emptied(a_stack)
  PROVE  StackInv'
<1>1. a_stack' = [cells |-> << >>, size |-> a_stack.size, lost |-> a_stack.lost]
  BY DEF StackInv, StackType, Emptied
<1>2. << >> \in Seq(AnyCell) /\ Len(<< >>) = 0
  BY EmptySeq
<1>3. a_stack.size \in Nat /\ a_stack.lost \in BOOLEAN /\ a_stack.size >= START_STACK_SIZE
  BY DEF StackInv, StackType
<1>4. a_stack' \in [cells : Seq(AnyCell), size : Nat, lost : BOOLEAN]
  BY <1>1, <1>2, <1>3
<1>5. QED
  BY <1>1, <1>2, <1>3, <1>4 DEF StackInv, StackType, OldestIsKey, RoomLeft, StackAssumption

-----------------------------------------------------------------------------
(* The invariant holds of every behaviour: the initial stack is empty, and  *)
(* pushing, popping and dropping keep it.                                   *)
THEOREM StackInvariant == StackSpec => []StackInv
<1>1. StackInit => StackInv
  <2> SUFFICES ASSUME StackInit PROVE StackInv
    OBVIOUS
  <2>1. a_stack = [cells |-> << >>, size |-> START_STACK_SIZE, lost |-> FALSE]
    BY DEF StackInit, NewStack
  <2>2. << >> \in Seq(AnyCell) /\ Len(<< >>) = 0
    BY EmptySeq
  <2>3. START_STACK_SIZE \in Nat /\ START_STACK_SIZE >= 5
    BY StackAssumption DEF StackAssumption
  <2>4. QED
    BY <2>1, <2>2, <2>3 DEF StackInv, StackType, OldestIsKey, RoomLeft
<1>2. StackInv /\ [StackNext]_a_stack => StackInv'
  <2> SUFFICES ASSUME StackInv, [StackNext]_a_stack PROVE StackInv'
    OBVIOUS
  <2>1. ASSUME NEW c \in Pushable, a_stack' = Pushed(a_stack, c, << >>) PROVE StackInv'
    BY <2>1, PushKeepsInv, StackAssumption
  <2>2. CASE a_stack' = Popped(a_stack)
    BY <2>2, PopKeepsInv
  <2>3. CASE a_stack' = Emptied(a_stack)
    BY <2>3, EmptiedKeepsInv, StackAssumption
  <2>4. CASE UNCHANGED a_stack
    BY <2>4 DEF StackInv, StackType, OldestIsKey, RoomLeft
  <2>5. QED
    BY <2>1, <2>2, <2>3, <2>4 DEF StackNext
<1>3. QED
  BY <1>1, <1>2, PTL DEF StackSpec

(* Popping never runs into the bottom within a command: the oldest code     *)
(* kept is a key press.                                                     *)
THEOREM OldestCodeIsKey == StackSpec => []OldestIsKey
<1>1. StackInv => OldestIsKey
  BY DEF StackInv
<1>2. QED
  BY <1>1, StackInvariant, PTL

(* No push finds the stack full: check_bottom forgets codes in time.        *)
THEOREM StackHasRoom == StackSpec => []RoomLeft
<1>1. StackInv => RoomLeft
  BY DEF StackInv
<1>2. QED
  BY <1>1, StackInvariant, PTL

=============================================================================
