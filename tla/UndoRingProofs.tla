--------------------------- MODULE UndoRingProofs ---------------------------
(***************************************************************************)
(* That the undo stack as edit.c stores it, a ring of numbers in an array  *)
(* that grows, is the stack of UndoStackSpec (RingIsStack of UndoRing).    *)
(*                                                                         *)
(* The refinement mapping is AsStack of UndoRing.  Every operation of the  *)
(* ring is matched with the operator of UndoStack it stands for:           *)
(*   g_realloc          Doubled        EnlargeDoes                         *)
(*   storing a code     Append         StoreDoes                           *)
(*   counting           EXCEPT         FewerDoes, MoreDoes                 *)
(*   check_bottom       Trimmed        CheckDoes                           *)
(* The arithmetic of the masks is done once in each lemma, by naming the   *)
(* place (b + m) % n of a cell and saying whether it has wrapped.          *)
(***************************************************************************)
EXTENDS UndoRing, WellFoundedInduction, FiniteSetTheorems, SequenceTheorems, TLAPS

(* What a cell may hold: a code pushed, a count, or what a new cell         *)
(* happens to hold.                                                         *)
RingCode == Codes \cup Garbage \cup {Stack!COUNT(k) : k \in Int}
(* A code as UndoStack keeps it. Nothing is seen: the ring stores numbers.  *)
RingCell == [code : RingCode, seen : {<< >>}]

(* How many cells are in use.                                               *)
Used == (undo_stack_pointer - undo_stack_bottom) % undo_stack_size

(* The codes of the len cells from b on, in an array of n cells.            *)
CellsOf(array, n, b, len) ==
  [k \in 1 .. len |-> [code |-> array[(b + k - 1) % n], seen |-> << >>]]

(* The indices stay within the array, four cells at least are free, and     *)
(* the bottom does not move while the stack may grow: that is why           *)
(* g_realloc, which adds its cells at the end of the array, never tears     *)
(* the ring.                                                                *)
RingInv ==
  /\ undo_stack_size \in Nat /\ undo_stack_size >= 5
  /\ undo_stack \in [0 .. undo_stack_size - 1 -> RingCode]
  /\ undo_stack_pointer \in 0 .. undo_stack_size - 1
  /\ undo_stack_bottom \in 0 .. undo_stack_size - 1
  /\ Used <= undo_stack_size - 4
  /\ undo_stack_size < MaxUndo => undo_stack_bottom = 0
  /\ lost \in BOOLEAN

-----------------------------------------------------------------------------
(* The pointer is the bottom and the number of cells in use, masked.        *)
LEMMA Backward ==
  ASSUME NEW n \in Nat, n >= 5, NEW b \in 0 .. n - 1, NEW sp \in 0 .. n - 1
  PROVE  /\ (sp - b) % n \in 0 .. n - 1
         /\ sp = (b + ((sp - b) % n)) % n
         /\ (sp = b) <=> ((sp - b) % n = 0)
<1>1. (sp - b) % n = IF sp < b THEN sp - b + n ELSE sp - b
  OBVIOUS
<1> DEFINE m == (sp - b) % n
<1>2. m \in 0 .. n - 1 /\ m = IF sp < b THEN sp - b + n ELSE sp - b
  BY <1>1
<1> HIDE DEF m
<1>3. (b + m) % n = sp
  BY <1>2
<1> QED BY <1>2, <1>3 DEF m

(* The cells in use are a sequence of codes.                                *)
LEMMA CellsAreSeq ==
  ASSUME NEW n \in Nat, n >= 5, NEW array \in [0 .. n - 1 -> RingCode], NEW b \in 0 .. n - 1,
         NEW m \in 0 .. n - 1
  PROVE  /\ CellsOf(array, n, b, m) \in Seq(RingCell)
         /\ Len(CellsOf(array, n, b, m)) = m
         /\ \A k \in 1 .. m : /\ CellsOf(array, n, b, m)[k].code = array[(b + (k - 1)) % n]
                              /\ CellsOf(array, n, b, m)[k].seen = << >>
<1> DEFINE f == CellsOf(array, n, b, m)
<1>1. ASSUME NEW k \in 1 .. m
      PROVE  /\ (b + k - 1) % n = (b + (k - 1)) % n /\ array[(b + k - 1) % n] \in RingCode
  <2>1. b + k - 1 = b + (k - 1) /\ k - 1 \in 0 .. n - 1
    OBVIOUS
  <2>2. (b + (k - 1)) % n \in 0 .. n - 1
    BY <2>1
  <2> QED BY <2>1, <2>2
<1>2. f = [k \in 1 .. m |-> [code |-> array[(b + k - 1) % n], seen |-> << >>]]
  BY DEF CellsOf
<1>3. f \in [1 .. m -> RingCell]
  BY <1>1, <1>2 DEF RingCell
<1>4. f \in Seq(RingCell)
  BY <1>3, SeqDef
<1>5. Len(f) \in Nat /\ DOMAIN f = 1 .. Len(f) /\ DOMAIN f = 1 .. m
  BY <1>3, <1>4, LenProperties
<1>6. Len(f) = m
  <2> DEFINE l == Len(f)
  <2>1. l \in Nat /\ 1 .. l = 1 .. m
    BY <1>5
  <2> HIDE DEF l
  <2>2. m + 1 \notin 1 .. l /\ (m >= 1 => m \in 1 .. l)
    BY <2>1
  <2>3. l = m
    BY <2>1, <2>2
  <2> QED BY SMTT(60), <2>3 DEF l
<1>7. \A k \in 1 .. m : f[k].code = array[(b + (k - 1)) % n] /\ f[k].seen = << >>
  BY <1>1, <1>2
<1> QED BY <1>4, <1>6, <1>7

(* Min is the least of a set of natural numbers.                            *)
LEMMA LeastOf ==
  ASSUME NEW S \in SUBSET Nat, S # {}
  PROVE  Min(S) \in S /\ \A y \in S : Min(S) <= y
<1>1. \E x \in S : \A y \in S : <<y, x>> \notin OpToRel(<, Nat)
  BY NatLessThanWellFounded, WFMin
<1>2. \A x, y \in Nat : <<y, x>> \notin OpToRel(<, Nat) => x <= y
  BY DEF OpToRel
<1> QED BY <1>1, <1>2 DEF Min

(* Cells with the same codes are the same: nothing else is stored.          *)
LEMMA SameCells ==
  ASSUME NEW s \in Seq(RingCell), NEW t \in Seq(RingCell), Len(s) = Len(t),
         \A k \in 1 .. Len(s) : s[k].code = t[k].code
  PROVE  s = t
<1>1. \A k \in 1 .. Len(s) : s[k] \in RingCell /\ t[k] \in RingCell
  OBVIOUS
<1>2. \A k \in 1 .. Len(s) : s[k] = t[k]
  BY <1>1 DEF RingCell
<1> QED BY <1>2, SeqEqual

(* The cardinality UndoStack counts with is that of FiniteSets.             *)
LEMMA SameCardinality == ASSUME NEW S PROVE Stack!Cardinality(S) = Cardinality(S)
BY DEF Stack!Cardinality, Cardinality

(* Masking twice is masking once.                                           *)
LEMMA Further ==
  ASSUME NEW n \in Nat, n >= 5, NEW b \in 0 .. n - 1, NEW m \in Nat, NEW j \in Nat, m + j < n
  PROVE  (((b + m) % n) + j) % n = (b + (m + j)) % n
<1>1. (b + m) % n = IF b + m < n THEN b + m ELSE b + m - n
  OBVIOUS
<1> DEFINE sp == (b + m) % n
<1>2. sp \in 0 .. n - 1 /\ sp = IF b + m < n THEN b + m ELSE b + m - n
  BY <1>1
<1> HIDE DEF sp
<1>3. (sp + j) % n = (b + (m + j)) % n
  BY <1>2
<1> QED BY <1>3 DEF sp

(* The loop that moves the bottom stops at the first key press after it,    *)
(* or at the pointer, whichever comes first.                                *)
LEMMA NextBottomDoes ==
  ASSUME NEW n \in Nat, n >= 5, undo_stack_bottom \in 0 .. n - 1,
         NEW array \in [0 .. n - 1 -> RingCode], NEW m \in 1 .. n - 1,
         NEW sp, sp = (undo_stack_bottom + m) % n
  PROVE  \E k \in 1 .. m :
           /\ NextBottom(array, n, sp) = (undo_stack_bottom + k) % n
           /\ \A j \in 1 .. k - 1 : ~Stack!IsKey(array[(undo_stack_bottom + j) % n])
           /\ k < m => Stack!IsKey(array[(undo_stack_bottom + k) % n])
<1> DEFINE b == undo_stack_bottom
           At(k) == (b + k) % n
           stop(k) == Stack!IsKey(array[At(k)]) \/ At(k) = sp
           S == {k \in 1 .. n : stop(k)}
           k == Min(S)
<1>1. m \in S /\ S \in SUBSET Nat
  OBVIOUS
<1>2. k \in S /\ \A y \in S : k <= y
  <2> HIDE DEF S
  <2> QED BY <1>1, LeastOf
<1>4. NextBottom(array, n, sp) = At(k)
  BY DEF NextBottom
<1> HIDE DEF k
<1>3. k \in 1 .. m /\ stop(k)
  <2>1. k \in 1 .. n /\ stop(k)
    BY <1>2
  <2>2. k <= m
    BY <1>1, <1>2
  <2> QED BY <2>1, <2>2
<1>5. \A j \in 1 .. k - 1 : ~stop(j)
  <2>1. \A j \in 1 .. k - 1 : j \in 1 .. n /\ ~(k <= j)
    BY <1>3
  <2> QED BY <1>2, <2>1
<1>6. k < m => At(k) # sp
  <2> SUFFICES ASSUME k < m, At(k) = sp PROVE FALSE
    OBVIOUS
  <2>1. (sp - b) % n = k /\ (sp - b) % n = m
    <3>1. k \in 0 .. n - 1 /\ m \in 0 .. n - 1 /\ sp = (b + k) % n
      BY <1>3
    <3>2. b \in 0 .. n - 1 /\ sp = (b + m) % n
      OBVIOUS
    <3> HIDE DEF b, k
    <3>3. sp = IF b + k < n THEN b + k ELSE b + k - n
      BY <3>1, <3>2
    <3>4. sp = IF b + m < n THEN b + m ELSE b + m - n
      BY <3>2
    <3> QED BY <3>1, <3>2, <3>3, <3>4
  <2> QED BY <1>3, <2>1
<1> QED BY <1>3, <1>4, <1>5, <1>6

(* Moving the bottom there is forgetting the oldest code and all up to the  *)
(* next key press.                                                          *)
LEMMA ForgetDoes ==
  ASSUME NEW n \in Nat, n >= 5, NEW b \in 0 .. n - 1, NEW array \in [0 .. n - 1 -> RingCode],
         NEW m \in 1 .. n - 1, NEW k \in 1 .. m,
         \A j \in 1 .. k - 1 : ~Stack!IsKey(array[(b + j) % n]),
         k < m => Stack!IsKey(array[(b + k) % n])
  PROVE  Stack!ForgetOldest(CellsOf(array, n, b, m)) = CellsOf(array, n, (b + k) % n, m - k)
<1> DEFINE cells == CellsOf(array, n, b, m)
           rest == CellsOf(array, n, (b + k) % n, m - k)
           along == {i \in 2 .. Len(cells) : \A j \in 2 .. i : ~Stack!IsKey(cells[j].code)}
<1>1. cells \in Seq(RingCell) /\ Len(cells) = m
      /\ \A i \in 1 .. m : cells[i].code = array[(b + (i - 1)) % n]
  <2>1. m \in 0 .. n - 1
    OBVIOUS
  <2> QED BY <2>1, CellsAreSeq
<1>2. (b + k) % n \in 0 .. n - 1 /\ m - k \in 0 .. n - 1
  OBVIOUS
<1>3. rest \in Seq(RingCell) /\ Len(rest) = m - k
      /\ \A i \in 1 .. m - k : rest[i].code = array[(((b + k) % n) + (i - 1)) % n]
  BY ZenonT(60), <1>2, CellsAreSeq
<1> HIDE DEF cells, rest
<1>4. along = 2 .. k
  <2>1. ASSUME NEW i \in 2 .. k PROVE i \in along
    <3>1. ASSUME NEW j \in 2 .. i PROVE ~Stack!IsKey(cells[j].code)
      <4> DEFINE h == j - 1
      <4>1. j \in 1 .. m /\ h \in 1 .. k - 1
        OBVIOUS
      <4>2. ~Stack!IsKey(array[(b + h) % n])
        <5> HIDE DEF h
        <5> QED BY <4>1
      <4> QED BY <1>1, <4>1, <4>2
    <3> QED BY <1>1, <3>1
  <2>2. ASSUME NEW i \in along PROVE i \in 2 .. k
    <3>1. CASE i > k
      <4>1. k < m /\ k + 1 \in 2 .. i /\ k + 1 \in 1 .. m /\ (k + 1) - 1 = k
        BY <1>1, <3>1
      <4>2. Stack!IsKey(cells[k + 1].code)
        BY <1>1, <4>1
      <4> QED BY <4>1, <4>2
    <3> QED BY <1>1, <3>1
  <2> QED BY <2>1, <2>2
<1>5. Cardinality(along) = k - 1
  <2> HIDE DEF along
  <2>1. Cardinality(2 .. k) = IF 2 > k THEN 0 ELSE k - 2 + 1
    BY FS_Interval
  <2> QED BY <1>4, <2>1
<1>6. Stack!ForgetOldest(cells) = SubSeq(cells, k + 1, m)
  <2>1. Stack!ForgetOldest(cells) = SubSeq(cells, 2 + Cardinality(along), Len(cells))
    <3>1. Stack!Cardinality(along) = Cardinality(along)
      BY SameCardinality
    <3> QED BY <3>1 DEF Stack!ForgetOldest
  <2> HIDE DEF along
  <2> QED BY <1>1, <1>5, <2>1
<1> DEFINE sub == SubSeq(cells, k + 1, m)
<1>7. sub \in Seq(RingCell) /\ Len(sub) = m - k /\ \A i \in 1 .. m - k : sub[i] = cells[k + i]
  <2>1. \A i \in k + 1 .. m : cells[i] \in RingCell
    BY <1>1
  <2> QED BY <1>1, <2>1
<1> HIDE DEF sub
<1>8. ASSUME NEW i \in 1 .. m - k PROVE sub[i].code = rest[i].code
  <2> DEFINE h == i - 1
  <2>1. k + i \in 1 .. m /\ h \in Nat /\ k + h = (k + i) - 1 /\ k + h < n /\ k \in Nat
    OBVIOUS
  <2>2. (((b + k) % n) + h) % n = (b + (k + h)) % n
    <3> HIDE DEF h
    <3> QED BY <2>1, Further
  <2>3. rest[i].code = array[(((b + k) % n) + h) % n] /\ sub[i] = cells[k + i]
    BY <1>3, <1>7
  <2>4. cells[k + i].code = array[(b + ((k + i) - 1)) % n]
    BY <1>1, <2>1
  <2> HIDE DEF h
  <2> QED BY <2>1, <2>2, <2>3, <2>4
<1>9. sub = rest
  BY <1>3, <1>7, <1>8, SameCells
<1> QED BY <1>6, <1>9 DEF sub, cells, rest

(* Trimmed, with the record it makes written out.                           *)
LEMMA TrimmedIs ==
  ASSUME NEW st \in [cells : Seq(RingCell), size : Nat, lost : BOOLEAN]
  PROVE  LET full == Len(st.cells) \in {st.size - 3, st.size - 2}
             kept == IF full THEN Stack!ForgetOldest(st.cells) ELSE st.cells
             whole == kept = << >> \/ Stack!IsKey(kept[1].code)
         IN  Stack!Trimmed(st)
               = [cells |-> IF whole THEN kept ELSE << >>, size |-> st.size,
                  lost |-> st.lost \/ full \/ ~whole]
<1> DEFINE full == Len(st.cells) \in {st.size - 3, st.size - 2}
           kept == IF full THEN Stack!ForgetOldest(st.cells) ELSE st.cells
           whole == kept = << >> \/ Stack!IsKey(kept[1].code)
           c == IF whole THEN kept ELSE << >>
<1>2. Stack!Trimmed(st) = [st EXCEPT !.cells = c, !.lost = @ \/ full \/ ~whole]
  BY DEF Stack!Trimmed
<1> HIDE DEF full, c, whole
<1>3. Stack!Trimmed(st) = [cells |-> c, size |-> st.size, lost |-> st.lost \/ full \/ ~whole]
  BY <1>2
<1> QED BY <1>3 DEF full, c, whole

(* check_bottom is Trimmed: its look ahead of two cells finds the pointer   *)
(* near the bottom just when three cells are free, and two free cells are   *)
(* never met.                                                               *)
LEMMA CheckDoes ==
  ASSUME NEW n \in Nat, n >= 5, undo_stack_bottom \in 0 .. n - 1, lost \in BOOLEAN,
         NEW array \in [0 .. n - 1 -> RingCode], NEW m \in 1 .. n - 3,
         n < MaxUndo => undo_stack_bottom = 0 /\ m # n - 3,
         NEW sp, sp = (undo_stack_bottom + m) % n,
         CheckBottom(array, n, sp), undo_stack' = array, undo_stack_size' = n
  PROVE  /\ RingInv'
         /\ AsStack' = Stack!Trimmed([cells |-> CellsOf(array, n, undo_stack_bottom, m),
                                     size |-> n, lost |-> lost])
<1> DEFINE b == undo_stack_bottom
           c == (sp + 2) % n
           wraps == c = b \/ (c + 1) % n = b
           bottom == IF wraps THEN NextBottom(array, n, sp) ELSE b
           broken == sp # bottom /\ ~Stack!IsKey(array[bottom])
           cells == CellsOf(array, n, b, m)
           full == Len(cells) \in {n - 3, n - 2}
           kept == IF full THEN Stack!ForgetOldest(cells) ELSE cells
           whole == kept = << >> \/ Stack!IsKey(kept[1].code)
<1>1. /\ undo_stack_bottom' = (IF broken THEN 0 ELSE bottom)
      /\ undo_stack_pointer' = (IF broken THEN 0 ELSE sp)
      /\ lost' = (lost \/ wraps \/ broken)
  BY DEF CheckBottom
<1>2. Stack!Trimmed([cells |-> cells, size |-> n, lost |-> lost])
        = [cells |-> IF whole THEN kept ELSE << >>, size |-> n, lost |-> lost \/ full \/ ~whole]
  <2> DEFINE st == [cells |-> cells, size |-> n, lost |-> lost]
  <2>1. cells \in Seq(RingCell)
    <3>1. m \in 0 .. n - 1
      OBVIOUS
    <3> QED BY <3>1, CellsAreSeq
  <2>2. /\ st \in [cells : Seq(RingCell), size : Nat, lost : BOOLEAN]
        /\ st.cells = cells /\ st.size = n /\ st.lost = lost
    <3> HIDE DEF cells
    <3> QED BY <2>1
  <2> HIDE DEF st, cells
  <2>3. Stack!Trimmed(st)
        = [cells |-> IF whole THEN kept ELSE << >>, size |-> n, lost |-> lost \/ full \/ ~whole]
    BY <2>2, TrimmedIs, Zenon
  <2> QED BY <2>3 DEF st
<1>3. sp \in 0 .. n - 1 /\ (wraps <=> m = n - 3) /\ m \in 0 .. n - 1
  <2>1. m \in 0 .. n - 1
    OBVIOUS
  <2>2. /\ sp \in 0 .. n - 1
        /\ ((sp + 2) % n = b) <=> (m = n - 2)
        /\ ((((sp + 2) % n) + 1) % n = b) <=> (m = n - 3)
    <3>1. b \in 0 .. n - 1 /\ sp = (b + m) % n
      OBVIOUS
    <3> HIDE DEF b
    <3>2. sp \in 0 .. n - 1 /\ sp = IF b + m < n THEN b + m ELSE b + m - n
      BY <2>1, <3>1
    <3>3. ((sp + 2) % n = b) <=> (m = n - 2)
      BY <3>1, <3>2
    <3>4. ((((sp + 2) % n) + 1) % n = b) <=> (m = n - 3)
      <4> DEFINE d == (sp + 2) % n
      <4>1. d \in 0 .. n - 1 /\ d = IF sp + 2 < n THEN sp + 2 ELSE sp + 2 - n
        BY <3>2
      <4> HIDE DEF d
      <4>2. (d + 1) % n = IF d + 1 < n THEN d + 1 ELSE d + 1 - n
        BY <4>1
      <4>3. ((d + 1) % n = b) <=> (m = n - 3)
        BY <3>1, <3>2, <4>1, <4>2
      <4> QED BY <4>3 DEF d
    <3> QED BY <3>2, <3>3, <3>4
  <2> QED BY <2>1, <2>2
<1>4. cells \in Seq(RingCell) /\ Len(cells) = m
  BY <1>3, CellsAreSeq
<1>5. full <=> wraps
  BY <1>3, <1>4
<1>6. \E k \in 0 .. m : /\ bottom = (b + k) % n /\ kept = CellsOf(array, n, bottom, m - k)
                        /\ (m = n - 3 => k >= 1)
  <2>1. CASE ~wraps
    <3>1. (b + 0) % n = b /\ m - 0 = m /\ 0 \in 0 .. m
      OBVIOUS
    <3>2. bottom = b /\ kept = cells /\ m # n - 3
      BY <1>3, <1>5, <2>1
    <3>3. kept = CellsOf(array, n, bottom, m - 0)
      BY <3>1, <3>2
    <3> HIDE DEF bottom, kept
    <3> QED BY <3>1, <3>2, <3>3
  <2>2. CASE wraps
    <3>1. m \in 1 .. n - 1
      OBVIOUS
    <3>2. PICK k \in 1 .. m :
            /\ NextBottom(array, n, sp) = (b + k) % n
            /\ \A j \in 1 .. k - 1 : ~Stack!IsKey(array[(b + j) % n])
            /\ k < m => Stack!IsKey(array[(b + k) % n])
      BY <3>1, NextBottomDoes
    <3>3. Stack!ForgetOldest(cells) = CellsOf(array, n, (b + k) % n, m - k)
      BY <3>1, <3>2, ForgetDoes
    <3> QED BY <1>5, <2>2, <3>2, <3>3
  <2> QED BY <2>1, <2>2
<1> HIDE DEF wraps, bottom, kept, cells, full
<1>7. PICK k \in 0 .. m : /\ bottom = (b + k) % n /\ kept = CellsOf(array, n, bottom, m - k)
                         /\ (m = n - 3 => k >= 1)
  BY <1>6
<1>8. bottom \in 0 .. n - 1 /\ (sp - bottom) % n = m - k
  <2> DEFINE l == m - k
  <2>1. k \in 0 .. n - 1 /\ k \in Nat /\ l \in Nat /\ k + l = m /\ k + l < n /\ l \in 0 .. n - 1
    OBVIOUS
  <2> HIDE DEF l
  <2>2. bottom \in 0 .. n - 1
    BY <1>7, <2>1
  <2>3. (bottom + l) % n = sp
    BY <1>7, <2>1, Further
  <2>4. (sp - bottom) % n = l
    <3>1. sp = IF bottom + l < n THEN bottom + l ELSE bottom + l - n
      BY <2>1, <2>2, <2>3
    <3> QED BY <2>1, <2>2, <3>1
  <2> QED BY <2>2, <2>4 DEF l
<1>9. kept \in Seq(RingCell) /\ Len(kept) = m - k
      /\ (m - k >= 1 => kept[1].code = array[bottom])
  <2> DEFINE l == m - k
  <2>1. l \in 0 .. n - 1
    OBVIOUS
  <2>2. (bottom + (1 - 1)) % n = bottom
    BY <1>8
  <2> HIDE DEF l
  <2>3. kept = CellsOf(array, n, bottom, l)
    BY <1>7 DEF l
  <2>4. kept \in Seq(RingCell) /\ Len(kept) = l
        /\ (l >= 1 => kept[1].code = array[(bottom + (1 - 1)) % n])
    <3>1. \A i \in 1 .. l : kept[i].code = array[(bottom + (i - 1)) % n]
      BY <1>8, <2>1, <2>3, CellsAreSeq, Zenon
    <3>2. kept \in Seq(RingCell) /\ Len(kept) = l
      BY <1>8, <2>1, <2>3, CellsAreSeq, Zenon
    <3>3. l >= 1 => 1 \in 1 .. l
      BY <2>1
    <3> QED BY <3>1, <3>2, <3>3
  <2> QED BY <2>2, <2>4 DEF l
<1>10. broken <=> ~whole
  <2>1. (sp # bottom) <=> (m - k # 0)
    BY <1>3, <1>8, Backward
  <2>2. (kept = << >>) <=> (m - k = 0)
    BY <1>9, EmptySeq
  <2> QED BY <1>9, <2>1, <2>2
<1> DEFINE cells2 == IF whole THEN kept ELSE << >>
<1>11. Used' = Len(cells2) /\ AsStack'.cells = cells2
  <2>1. AsStack'.cells = CellsOf(array, n, undo_stack_bottom', Used')
    BY DEF AsStack, CellsOf, Used
  <2>2. CASE broken
    <3>1. undo_stack_bottom' = 0 /\ undo_stack_pointer' = 0 /\ cells2 = << >>
      BY <1>1, <1>10, <2>2
    <3>2. Used' = 0
      BY <3>1 DEF Used
    <3>3. CellsOf(array, n, 0, 0) = << >>
      BY DEF CellsOf
    <3> QED BY <2>1, <3>1, <3>2, <3>3
  <2>3. CASE ~broken
    <3>1. undo_stack_bottom' = bottom /\ undo_stack_pointer' = sp /\ cells2 = kept
      BY <1>1, <1>10, <2>3
    <3>2. Used' = m - k
      BY <1>8, <3>1 DEF Used
    <3> QED BY <1>7, <1>9, <2>1, <3>1, <3>2
  <2> QED BY <2>2, <2>3
<1>12. RingInv'
  <2>1. undo_stack_bottom' \in 0 .. n - 1 /\ undo_stack_pointer' \in 0 .. n - 1 /\ lost' \in BOOLEAN
    BY <1>1, <1>3, <1>8
  <2>2. Used' <= n - 4
    <3>1. m - k <= n - 4 /\ 0 <= n - 4
      BY <1>7
    <3>2. Len(cells2) = m - k \/ Len(cells2) = 0
      BY <1>9
    <3> HIDE DEF cells2
    <3> QED BY <1>11, <3>1, <3>2
  <2>3. n < MaxUndo => undo_stack_bottom' = 0
    <3>1. n < MaxUndo => bottom = b /\ b = 0
      BY <1>3 DEF bottom
    <3> QED BY <1>1, <3>1
  <2> QED BY <2>1, <2>2, <2>3 DEF RingInv
<1>13. AsStack' = [cells |-> cells2, size |-> n, lost |-> lost \/ full \/ ~whole]
  <2>1. lost' = (lost \/ full \/ ~whole)
    BY <1>1, <1>5, <1>10
  <2> HIDE DEF whole, cells2
  <2> QED BY <1>11, <2>1 DEF AsStack
<1> QED BY <1>2, <1>12, <1>13 DEF cells
(* Different cells in use have different places.                            *)
LEMMA Distinct ==
  ASSUME NEW n \in Nat, n >= 5, NEW b \in 0 .. n - 1, NEW j \in 0 .. n - 1, NEW k \in 0 .. n - 1,
         (b + j) % n = (b + k) % n
  PROVE  j = k
<1>1. (b + j) % n = IF b + j < n THEN b + j ELSE b + j - n
  OBVIOUS
<1>2. (b + k) % n = IF b + k < n THEN b + k ELSE b + k - n
  OBVIOUS
<1> QED BY <1>1, <1>2

(* The stack seen through AsStack, and the pointer from the number of       *)
(* cells in use.                                                            *)
LEMMA StackOf ==
  ASSUME RingInv
  PROVE  /\ Used \in 0 .. undo_stack_size - 4
         /\ undo_stack_pointer = (undo_stack_bottom + Used) % undo_stack_size
         /\ (undo_stack_bottom = 0) => Used = undo_stack_pointer
         /\ AsStack = [cells |-> CellsOf(undo_stack, undo_stack_size, undo_stack_bottom, Used),
                       size |-> undo_stack_size, lost |-> lost]
<1> DEFINE n == undo_stack_size  b == undo_stack_bottom  p == undo_stack_pointer
<1>1. n \in Nat /\ n >= 5 /\ b \in 0 .. n - 1 /\ p \in 0 .. n - 1 /\ Used <= n - 4
  BY DEF RingInv
<1>2. Used = (p - b) % n
  BY DEF Used
<1>3. AsStack = [cells |-> CellsOf(undo_stack, n, b, Used), size |-> n, lost |-> lost]
  BY Zenon DEF AsStack, CellsOf, Used
<1> HIDE DEF n, b, p
<1>4. (p - b) % n = IF p < b THEN p - b + n ELSE p - b
  BY <1>1
<1> DEFINE m == (p - b) % n
<1>5. m = (IF p < b THEN p - b + n ELSE p - b) /\ m \in Nat
  BY <1>1, <1>4
<1> HIDE DEF m
<1>6. p = (b + m) % n
  BY <1>1, <1>5
<1>7. Used = m
  BY <1>2 DEF m
<1>8. p = (b + Used) % n
  BY <1>6, <1>7, Zenon
<1>9. Used \in 0 .. n - 4 /\ (b = 0 => Used = p)
  BY <1>1, <1>5, <1>7
<1> QED BY <1>3, <1>8, <1>9, Zenon DEF n, b, p

(* g_realloc is Doubled: the cells in use stay where they are, and there    *)
(* is room for one more with three cells to spare.                          *)
LEMMA EnlargeDoes ==
  ASSUME RingInv, NEW array \in Enlarged(undo_stack, NewSize)
  PROVE  /\ NewSize \in Nat /\ NewSize >= 5
         /\ array \in [0 .. NewSize - 1 -> RingCode]
         /\ undo_stack_bottom \in 0 .. NewSize - 1
         /\ undo_stack_pointer = (undo_stack_bottom + Used) % NewSize
         /\ Used \in Nat /\ Used <= NewSize - 4
         /\ NewSize < MaxUndo => undo_stack_bottom = 0 /\ Used + 1 # NewSize - 3
         /\ Stack!Doubled(AsStack)
              = [cells |-> CellsOf(array, NewSize, undo_stack_bottom, Used),
                 size |-> NewSize, lost |-> lost]
<1> DEFINE n == undo_stack_size  b == undo_stack_bottom  p == undo_stack_pointer
           cells == CellsOf(undo_stack, n, b, Used)
<1>1. /\ n \in Nat /\ n >= 5 /\ b \in 0 .. n - 1 /\ p \in 0 .. n - 1
      /\ undo_stack \in [0 .. n - 1 -> RingCode] /\ (n < MaxUndo => b = 0) /\ lost \in BOOLEAN
  BY DEF RingInv
<1>2. /\ Used \in 0 .. n - 4 /\ p = (b + Used) % n /\ (b = 0 => Used = p)
      /\ AsStack = [cells |-> cells, size |-> n, lost |-> lost]
  BY StackOf
<1>3. MaxUndo \in Nat /\ Margin \in Nat /\ Margin >= 5
  BY RingAssumption
<1>4. cells \in Seq(RingCell) /\ Len(cells) = Used
      /\ \A k \in 1 .. Used : cells[k].code = undo_stack[(b + (k - 1)) % n]
  <2>1. Used \in 0 .. n - 1
    BY <1>1, <1>2
  <2> HIDE DEF n, b
  <2> QED BY <1>1, <2>1, CellsAreSeq
<1>5. Enlarge <=> (Len(cells) > n - Margin /\ n < MaxUndo)
  BY <1>1, <1>2, <1>4 DEF Enlarge
<1>6. Stack!Doubled(AsStack) = IF Enlarge THEN [cells |-> cells, size |-> 2 * n, lost |-> lost]
                               ELSE AsStack
  <2> DEFINE st == AsStack
  <2>1. /\ st \in [cells : Seq(RingCell), size : Nat, lost : BOOLEAN]
        /\ st.cells = cells /\ st.size = n /\ st.lost = lost
    <3> HIDE DEF cells, n
    <3> QED BY <1>1, <1>2, <1>4
  <2> HIDE DEF st, cells
  <2>2. Stack!Doubled(st) = IF Len(st.cells) > st.size - Margin /\ st.size < MaxUndo
                            THEN [st EXCEPT !.size = 2 * @] ELSE st
    BY DEF Stack!Doubled
  <2>3. [st EXCEPT !.size = 2 * @] = [cells |-> cells, size |-> 2 * n, lost |-> lost]
    BY <2>1
  <2>4. Stack!Doubled(st) = IF Enlarge THEN [cells |-> cells, size |-> 2 * n, lost |-> lost] ELSE st
    BY <1>5, <2>1, <2>2, <2>3
  <2> QED BY <2>4 DEF st
<1>7. CASE ~Enlarge
  <2>1. NewSize = n /\ array = undo_stack
    BY <1>7 DEF NewSize, Enlarged
  <2>2. n < MaxUndo => Used + 1 # n - 3
    BY <1>1, <1>2, <1>3, <1>7 DEF Enlarge
  <2> HIDE DEF cells
  <2>3. Stack!Doubled(AsStack) = [cells |-> cells, size |-> n, lost |-> lost]
    BY <1>2, <1>6, <1>7, Zenon
  <2> QED BY <1>1, <1>2, <2>1, <2>2, <2>3 DEF cells
<1>8. CASE Enlarge
  <2> DEFINE N == 2 * n
  <2>1. NewSize = N /\ N # n /\ N \in Nat /\ b = 0 /\ p = Used
    BY <1>1, <1>2, <1>8 DEF NewSize, Enlarge
  <2>2. PICK g \in Garbage : array = [i \in 0 .. N - 1 |-> IF i < n THEN undo_stack[i] ELSE g]
    BY <2>1, <1>8 DEF Enlarged
  <2>3. g \in RingCode
    BY <2>2 DEF RingCode
  <2>4. array \in [0 .. N - 1 -> RingCode]
    BY <1>1, <2>2, <2>3
  <2>5. N >= 5 /\ Used \in 0 .. N - 1 /\ Used <= N - 4 /\ Used + 1 # N - 3 /\ 0 \in 0 .. N - 1
    BY <1>1, <1>2
  <2> DEFINE more == CellsOf(array, N, 0, Used)
  <2>6. more \in Seq(RingCell) /\ Len(more) = Used
        /\ \A k \in 1 .. Used : more[k].code = array[(0 + (k - 1)) % N]
    <3> HIDE DEF N
    <3> QED BY <2>1, <2>4, <2>5, CellsAreSeq
  <2>7. ASSUME NEW k \in 1 .. Used PROVE array[(0 + (k - 1)) % N] = undo_stack[(0 + (k - 1)) % n]
    <3>1. k - 1 \in 0 .. n - 1 /\ k - 1 \in 0 .. N - 1
      BY <1>1, <1>2
    <3>2. (0 + (k - 1)) % n = k - 1
      BY <1>1, <3>1
    <3>3. (0 + (k - 1)) % N = k - 1
      <4> HIDE DEF N
      <4> QED BY <2>1, <2>5, <3>1
    <3> DEFINE h == k - 1
    <3>4. h \in 0 .. N - 1 /\ h < n
      BY <1>1, <3>1
    <3> HIDE DEF h, N
    <3>5. array[h] = undo_stack[h]
      BY <2>2, <3>4
    <3> QED BY <3>2, <3>3, <3>5, Zenon DEF h
  <2>8. cells = more
    <3>1. \A k \in 1 .. Used : cells[k].code = more[k].code
      <4> HIDE DEF N, cells, more
      <4> QED BY <1>4, <2>1, <2>6, <2>7
    <3> HIDE DEF cells, more
    <3> QED BY <1>4, <2>6, <3>1, SameCells
  <2>9. p = (0 + Used) % N
    <3> HIDE DEF N
    <3> QED BY <2>1, <2>5
  <2>10. Stack!Doubled(AsStack) = [cells |-> more, size |-> N, lost |-> lost]
    <3> HIDE DEF cells, more
    <3> QED BY <1>6, <1>8, <2>8, Zenon
  <2> HIDE DEF N
  <2>11. /\ N \in Nat /\ N >= 5 /\ array \in [0 .. N - 1 -> RingCode]
         /\ b \in 0 .. N - 1 /\ p = (b + Used) % N /\ Used \in Nat /\ Used <= N - 4
         /\ Used + 1 # N - 3 /\ b = 0
    BY <2>1, <2>4, <2>5, <2>9
  <2>12. Stack!Doubled(AsStack) = [cells |-> CellsOf(array, N, b, Used), size |-> N, lost |-> lost]
    BY <2>10, <2>11, Zenon
  <2> QED BY <2>1, <2>11, <2>12, Zenon
<1> QED BY <1>7, <1>8
(* The array with a code stored, and with the count in a cell changed.      *)
Written(array, sp, code) == [array EXCEPT ![sp] = code]

CountedDown(array, sp) == [array EXCEPT ![sp].arg = @ - 1]
CountedUp(array, sp) == [array EXCEPT ![sp].arg = @ + 1]

(* The same changes to the cells of UndoStack.                              *)
LessCounted(cells, m) == [cells EXCEPT ![m].code.arg = @ - 1]

(* When Pushed takes a code for one pushed again.                           *)
AgainOf(cells, c) ==
  LET m == Len(cells)
      counted == m > 0 /\ cells[m].code.op = "COUNT"
  IN  /\ m > 2
      /\ c = cells[IF counted THEN m - 1 ELSE m].code
      /\ counted => cells[m].code.arg > -MAX_RUN

CountedOf(cells) == Len(cells) > 0 /\ cells[Len(cells)].code.op = "COUNT"

(* What storing a code at the pointer does to the cells in use.             *)
Stored(array, n, b, m, sp, code) ==
  /\ Written(array, sp, code) \in [0 .. n - 1 -> RingCode]
  /\ (sp + 1) % n = (b + (m + 1)) % n
  /\ CellsOf(Written(array, sp, code), n, b, m + 1)
       = Append(CellsOf(array, n, b, m), Stack!Cell(code, << >>))

(* Storing at the pointer appends a cell, whatever the place held.          *)
LEMMA StoreDoes ==
  ASSUME NEW n \in Nat, n >= 5, NEW b \in 0 .. n - 1, NEW m \in 0 .. n - 4,
         NEW array \in [0 .. n - 1 -> RingCode], NEW code \in RingCode,
         NEW sp \in 0 .. n - 1, sp = (b + m) % n
  PROVE  Stored(array, n, b, m, sp, code)
<1> DEFINE array2 == [array EXCEPT ![sp] = code]
           more == CellsOf(array2, n, b, m + 1)
           cells == CellsOf(array, n, b, m)
           e == Stack!Cell(code, << >>)
           longer == Append(cells, e)
<1>1. sp \in 0 .. n - 1 /\ sp = IF b + m < n THEN b + m ELSE b + m - n
  OBVIOUS
<1>2. array2 \in [0 .. n - 1 -> RingCode]
  BY <1>1
<1>3. (sp + 1) % n = (b + (m + 1)) % n
  BY <1>1
<1>4. /\ cells \in Seq(RingCell) /\ Len(cells) = m
      /\ \A k \in 1 .. m : cells[k].code = array[(b + (k - 1)) % n]
  <2>1. m \in 0 .. n - 1
    OBVIOUS
  <2> QED BY <2>1, CellsAreSeq
<1> DEFINE l == m + 1
<1>5. /\ more \in Seq(RingCell) /\ Len(more) = l
      /\ \A k \in 1 .. l : more[k].code = array2[(b + (k - 1)) % n]
  <2>1. l \in 0 .. n - 1
    OBVIOUS
  <2> HIDE DEF l, array2
  <2> QED BY <1>2, <2>1, CellsAreSeq DEF l
<1>6. e \in RingCell /\ e.code = code
  BY DEF Stack!Cell, RingCell
<1>7. /\ longer \in Seq(RingCell) /\ Len(longer) = l
      /\ \A k \in 1 .. m : longer[k] = cells[k]
      /\ longer[l] = e
  <2> HIDE DEF cells, e
  <2>1. /\ longer \in Seq(RingCell) /\ Len(longer) = Len(cells) + 1
        /\ \A k \in 1 .. Len(cells) : longer[k] = cells[k]
        /\ longer[Len(cells) + 1] = e
    BY <1>4, <1>6, AppendProperties
  <2> QED BY <1>4, <2>1
<1>8. ASSUME NEW k \in 1 .. l PROVE more[k].code = longer[k].code
  <2>1. CASE k = l
    <3>1. l - 1 = m /\ l \in 1 .. l
      OBVIOUS
    <3>2. array2[(b + m) % n] = code
      BY <1>1
    <3> HIDE DEF l, more, longer, array2, e
    <3> QED BY <1>5, <1>6, <1>7, <2>1, <3>1, <3>2
  <2>2. CASE k # l
    <3>1. k \in 1 .. m
      BY <2>2
    <3> DEFINE h == k - 1
    <3>2. h \in 0 .. n - 1 /\ m \in 0 .. n - 1 /\ h # m
      BY <3>1
    <3>3. (b + h) % n # (b + m) % n
      <4> HIDE DEF h
      <4> QED BY <3>2, Distinct
    <3>4. (b + h) % n \in 0 .. n - 1
      <4> HIDE DEF h
      <4> QED BY <3>2
    <3>5. array2[(b + h) % n] = array[(b + h) % n]
      <4> HIDE DEF h
      <4> QED BY <3>3, <3>4
    <3>6. more[k].code = array2[(b + h) % n]
      BY <1>5
    <3>7. longer[k].code = array[(b + h) % n]
      BY <1>4, <1>7, <3>1
    <3> QED BY <3>5, <3>6, <3>7
  <2> QED BY <2>1, <2>2
<1>9. more = longer
  <2> HIDE DEF more, longer, l
  <2> QED BY <1>5, <1>7, <1>8, SameCells
<1>10. array2 = Written(array, sp, code)
  BY DEF Written
<1> HIDE DEF array2
<1> QED BY <1>2, <1>3, <1>9, <1>10, Zenon DEF Stored

MoreCounted(cells, m) == [cells EXCEPT ![m].code.arg = @ + 1]

(* What changing the newest cell does to the cells in use.                  *)
Rewritten(array, n, b, m, sp, code) ==
  /\ Written(array, sp, code) \in [0 .. n - 1 -> RingCode]
  /\ CellsOf(Written(array, sp, code), n, b, m)
       = [CellsOf(array, n, b, m) EXCEPT ![m] = [code |-> code, seen |-> << >>]]

(* Changing the cell before the pointer changes the last cell only.         *)
LEMMA TopRewritten ==
  ASSUME NEW n \in Nat, n >= 5, NEW b \in 0 .. n - 1, NEW m \in 1 .. n - 4,
         NEW array \in [0 .. n - 1 -> RingCode], NEW sp \in 0 .. n - 1, sp = (b + (m - 1)) % n,
         NEW code \in RingCode
  PROVE  Rewritten(array, n, b, m, sp, code)
<1> DEFINE array2 == Written(array, sp, code)
           cells2 == CellsOf(array2, n, b, m)
           cells == CellsOf(array, n, b, m)
           h == m - 1
           e == [code |-> code, seen |-> << >>]
           cells3 == [cells EXCEPT ![m] = e]
<1>1. sp \in 0 .. n - 1 /\ m \in 0 .. n - 1 /\ h \in 0 .. n - 1 /\ sp = (b + h) % n
  OBVIOUS
<1>4. array2 = [array EXCEPT ![sp] = code]
  BY DEF Written
<1> HIDE DEF h, array2
<1>6. array2 \in [0 .. n - 1 -> RingCode]
  BY <1>1, <1>4
<1>7. /\ cells \in Seq(RingCell) /\ Len(cells) = m
      /\ \A i \in 1 .. m : cells[i].code = array[(b + (i - 1)) % n]
  BY <1>1, CellsAreSeq
<1>8. /\ cells2 \in Seq(RingCell) /\ Len(cells2) = m
      /\ \A i \in 1 .. m : cells2[i].code = array2[(b + (i - 1)) % n]
  BY <1>1, <1>6, CellsAreSeq
<1>12. e \in RingCell /\ e.code = code
  BY DEF RingCell
<1>13. cells3 \in Seq(RingCell) /\ Len(cells3) = m
       /\ \A i \in 1 .. m : cells3[i] = IF i = m THEN e ELSE cells[i]
  <2> HIDE DEF cells, e
  <2>1. m \in 1 .. Len(cells)
    BY <1>7
  <2> QED BY <1>7, <1>12, <2>1
<1>14. ASSUME NEW i \in 1 .. m PROVE cells2[i].code = cells3[i].code
  <2> DEFINE j == i - 1
  <2>1. j \in 0 .. n - 1 /\ (j = h <=> i = m)
    BY DEF h
  <2>2. cells2[i].code = array2[(b + j) % n] /\ cells[i].code = array[(b + j) % n]
    BY <1>7, <1>8
  <2> HIDE DEF j
  <2>3. (b + j) % n \in 0 .. n - 1
    BY <2>1
  <2>4. CASE i = m
    <3>1. array2[(b + j) % n] = code
      BY <1>1, <1>4, <2>1, <2>3, <2>4
    <3> HIDE DEF cells2, cells3, e
    <3> QED BY <1>12, <1>13, <2>2, <2>4, <3>1
  <2>5. CASE i # m
    <3>1. (b + j) % n # sp
      BY <1>1, <2>1, <2>5, Distinct
    <3>2. array2[(b + j) % n] = array[(b + j) % n]
      BY <1>4, <2>3, <3>1
    <3> HIDE DEF cells2, cells3, cells, e
    <3> QED BY <1>13, <2>2, <2>5, <3>2
  <2> QED BY <2>4, <2>5
<1>15. cells2 = cells3
  <2> HIDE DEF cells2, cells3
  <2> QED BY <1>8, <1>13, <1>14, SameCells
<1> QED BY <1>6, <1>15, Zenon DEF array2, Rewritten

(* A cell whose code is a count is the count of some number.                *)
LEMMA CountRewritten ==
  ASSUME NEW n \in Nat, n >= 5, NEW b \in 0 .. n - 1, NEW m \in 1 .. n - 4,
         NEW array \in [0 .. n - 1 -> RingCode], NEW sp \in 0 .. n - 1, sp = (b + (m - 1)) % n,
         array[sp].op = "COUNT"
  PROVE  \E k \in Int : /\ array[sp] = Stack!COUNT(k)
                        /\ CellsOf(array, n, b, m)[m] = [code |-> Stack!COUNT(k), seen |-> << >>]
<1> DEFINE cells == CellsOf(array, n, b, m)
           h == m - 1
<1>1. m \in 0 .. n - 1 /\ sp = (b + h) % n
  OBVIOUS
<1>2. PICK k \in Int : array[sp] = Stack!COUNT(k)
  <2>1. array[sp] \in RingCode
    BY <1>1
  <2> QED BY <2>1, RingAssumption DEF RingCode, Garbage, KEY, Stack!Code, Stack!KEY_PRESS
<1> HIDE DEF h
<1>7. /\ cells \in Seq(RingCell) /\ Len(cells) = m
      /\ \A i \in 1 .. m : cells[i].code = array[(b + (i - 1)) % n]
  BY <1>1, CellsAreSeq
<1>9. cells[m] = [code |-> Stack!COUNT(k), seen |-> << >>]
  <2>1. m \in 1 .. m /\ cells[m].code = array[(b + h) % n]
    BY <1>7 DEF h
  <2>2. cells[m] \in RingCell
    BY <1>7, <2>1
  <2> QED BY <1>1, <1>2, <2>1, <2>2 DEF RingCell
<1> QED BY <1>2, <1>9

(* Counting a code once more.                                               *)
LEMMA FewerDoes ==
  ASSUME NEW n \in Nat, n >= 5, NEW b \in 0 .. n - 1, NEW m \in 1 .. n - 4,
         NEW array \in [0 .. n - 1 -> RingCode], NEW sp \in 0 .. n - 1, sp = (b + (m - 1)) % n,
         array[sp].op = "COUNT"
  PROVE  /\ CountedDown(array, sp) \in [0 .. n - 1 -> RingCode]
         /\ CellsOf(CountedDown(array, sp), n, b, m) = LessCounted(CellsOf(array, n, b, m), m)
<1> DEFINE cells == CellsOf(array, n, b, m)
<1>1. PICK k \in Int : /\ array[sp] = Stack!COUNT(k)
                       /\ cells[m] = [code |-> Stack!COUNT(k), seen |-> << >>]
  BY CountRewritten
<1> DEFINE code == Stack!COUNT(k - 1)
           e == [code |-> code, seen |-> << >>]
<1>2. code \in RingCode
  BY DEF RingCode
<1>3. CountedDown(array, sp) = Written(array, sp, code)
  <2>1. [array[sp] EXCEPT !.arg = @ - 1] = code
    BY <1>1 DEF Stack!COUNT, Stack!Code
  <2> HIDE DEF code
  <2> QED BY <2>1 DEF CountedDown, Written
<1>4. LessCounted(cells, m) = [cells EXCEPT ![m] = e]
  <2>1. [cells[m] EXCEPT !.code.arg = @ - 1] = e
    <3> HIDE DEF cells
    <3> QED BY <1>1 DEF Stack!COUNT, Stack!Code
  <2> HIDE DEF e, cells
  <2> QED BY <2>1 DEF LessCounted
<1> HIDE DEF code
<1>5. /\ Written(array, sp, code) \in [0 .. n - 1 -> RingCode]
      /\ CellsOf(Written(array, sp, code), n, b, m) = [cells EXCEPT ![m] = e]
  <2>1. Rewritten(array, n, b, m, sp, code)
    BY <1>2, TopRewritten
  <2> QED BY <2>1, Zenon DEF Rewritten
<1> HIDE DEF e, cells
<1> QED BY <1>3, <1>4, <1>5, Zenon DEF cells

(* Counting one less.                                                       *)
LEMMA MoreDoes ==
  ASSUME NEW n \in Nat, n >= 5, NEW b \in 0 .. n - 1, NEW m \in 1 .. n - 4,
         NEW array \in [0 .. n - 1 -> RingCode], NEW sp \in 0 .. n - 1, sp = (b + (m - 1)) % n,
         array[sp].op = "COUNT"
  PROVE  /\ CountedUp(array, sp) \in [0 .. n - 1 -> RingCode]
         /\ CellsOf(CountedUp(array, sp), n, b, m) = MoreCounted(CellsOf(array, n, b, m), m)
<1> DEFINE cells == CellsOf(array, n, b, m)
<1>1. PICK k \in Int : /\ array[sp] = Stack!COUNT(k)
                       /\ cells[m] = [code |-> Stack!COUNT(k), seen |-> << >>]
  BY CountRewritten
<1> DEFINE code == Stack!COUNT(k + 1)
           e == [code |-> code, seen |-> << >>]
<1>2. code \in RingCode
  BY DEF RingCode
<1>3. CountedUp(array, sp) = Written(array, sp, code)
  <2>1. [array[sp] EXCEPT !.arg = @ + 1] = code
    BY <1>1 DEF Stack!COUNT, Stack!Code
  <2> HIDE DEF code
  <2> QED BY <2>1 DEF CountedUp, Written
<1>4. MoreCounted(cells, m) = [cells EXCEPT ![m] = e]
  <2>1. [cells[m] EXCEPT !.code.arg = @ + 1] = e
    <3> HIDE DEF cells
    <3> QED BY <1>1 DEF Stack!COUNT, Stack!Code
  <2> HIDE DEF e, cells
  <2> QED BY <2>1 DEF MoreCounted
<1> HIDE DEF code
<1>5. /\ Written(array, sp, code) \in [0 .. n - 1 -> RingCode]
      /\ CellsOf(Written(array, sp, code), n, b, m) = [cells EXCEPT ![m] = e]
  <2>1. Rewritten(array, n, b, m, sp, code)
    BY <1>2, TopRewritten
  <2> QED BY <2>1, Zenon DEF Rewritten
<1> HIDE DEF e, cells
<1> QED BY <1>3, <1>4, <1>5, Zenon DEF cells

(* The two cells the push looks back at, and that it looks at them only     *)
(* when three cells are in use.                                             *)
LEMMA LookBack ==
  ASSUME NEW n \in Nat, n >= 5, NEW b \in 0 .. n - 1, NEW m \in 0 .. n - 4,
         NEW sp \in 0 .. n - 1, sp = (b + m) % n
  PROVE  /\ (sp - 1) % n \in 0 .. n - 1 /\ (sp - 2) % n \in 0 .. n - 1
         /\ m >= 1 => (sp - 1) % n = (b + (m - 1)) % n
         /\ m >= 2 => (sp - 2) % n = (b + (m - 2)) % n
         /\ (b \notin {sp, (sp - 1) % n, (sp - 2) % n}) <=> m > 2
<1>1. sp \in 0 .. n - 1 /\ sp = IF b + m < n THEN b + m ELSE b + m - n
  OBVIOUS
<1>2. (sp - 1) % n = IF sp >= 1 THEN sp - 1 ELSE sp - 1 + n
  BY <1>1
<1>3. (sp - 2) % n = IF sp >= 2 THEN sp - 2 ELSE sp - 2 + n
  BY <1>1
<1> DEFINE p == (sp - 1) % n
           q == (sp - 2) % n
<1>4. /\ p = (IF sp >= 1 THEN sp - 1 ELSE sp - 1 + n) /\ p \in 0 .. n - 1
      /\ q = (IF sp >= 2 THEN sp - 2 ELSE sp - 2 + n) /\ q \in 0 .. n - 1
  BY <1>1, <1>2, <1>3
<1> HIDE DEF p, q
<1>5. (b \notin {sp, p, q}) <=> m > 2
  BY <1>1, <1>4
<1>6. m >= 1 => p = (b + (m - 1)) % n
  BY <1>1, <1>4
<1>7. m >= 2 => q = (b + (m - 2)) % n
  BY <1>1, <1>4
<1> QED BY <1>4, <1>5, <1>6, <1>7 DEF p, q

(* A stack made of its parts, and what Pushed makes of a doubled one.       *)
Stacked(cells, n, was) == [cells |-> cells, size |-> n, lost |-> was]

PushedFrom(cells, n, was, c) ==
  IF AgainOf(cells, c) /\ Stack!IsKey(c) THEN Stacked(cells, n, was)
  ELSE IF AgainOf(cells, c) /\ CountedOf(cells) THEN Stacked(LessCounted(cells, Len(cells)), n, was)
  ELSE Stack!Trimmed(Stacked(
         Append(cells, Stack!Cell(IF AgainOf(cells, c) THEN Stack!COUNT(-2) ELSE c, << >>)),
         n, was))

(* Pushed, with its LET and its EXCEPTs written out.                        *)
LEMMA PushedIs ==
  ASSUME NEW st, NEW cells \in Seq(RingCell), NEW n \in Nat, NEW was \in BOOLEAN,
         Stack!Doubled(st) = Stacked(cells, n, was), NEW c
  PROVE  Stack!Pushed(st, c, << >>) = PushedFrom(cells, n, was, c)
<1> DEFINE d == Stack!Doubled(st)
           m == Len(d.cells)
           counted == m > 0 /\ d.cells[m].code.op = "COUNT"
           again == /\ m > 2
                    /\ c = d.cells[IF counted THEN m - 1 ELSE m].code
                    /\ counted => d.cells[m].code.arg > -MAX_RUN
           e == Stack!Cell(IF again THEN Stack!COUNT(-2) ELSE c, << >>)
           less == [d.cells EXCEPT ![m].code.arg = @ - 1]
           longer == Append(d.cells, e)
<1>1. d \in [cells : Seq(RingCell), size : Nat, lost : BOOLEAN]
      /\ d.cells = cells /\ d.size = n /\ d.lost = was
  <2> HIDE DEF d
  <2>1. d = [cells |-> cells, size |-> n, lost |-> was]
    BY DEF d, Stacked
  <2> QED BY <2>1
<1>2. Stack!Pushed(st, c, << >>) =
        IF again /\ Stack!IsKey(c) THEN d
        ELSE IF again /\ counted THEN [d EXCEPT !.cells[m].code.arg = @ - 1]
        ELSE Stack!Trimmed([d EXCEPT !.cells = Append(@, e)])
  BY Zenon DEF Stack!Pushed
<1> HIDE DEF d, e
<1>3. [d EXCEPT !.cells[m].code.arg = @ - 1] = [d EXCEPT !.cells = less]
  OBVIOUS
<1>4. [d EXCEPT !.cells = Append(@, e)] = [d EXCEPT !.cells = longer]
  OBVIOUS
<1> HIDE DEF less, longer
<1>5. [d EXCEPT !.cells = less] = [cells |-> less, size |-> n, lost |-> was]
  BY <1>1
<1>6. [d EXCEPT !.cells = longer] = [cells |-> longer, size |-> n, lost |-> was]
  BY <1>1
<1>7. Stack!Pushed(st, c, << >>) =
        IF again /\ Stack!IsKey(c) THEN d
        ELSE IF again /\ counted THEN [cells |-> less, size |-> n, lost |-> was]
        ELSE Stack!Trimmed([cells |-> longer, size |-> n, lost |-> was])
  BY <1>2, <1>3, <1>4, <1>5, <1>6, Zenon
<1>8. d = [cells |-> cells, size |-> n, lost |-> was]
  BY DEF d, Stacked
<1>9. less = LessCounted(cells, Len(cells))
  BY <1>1, Zenon DEF less, LessCounted
<1>10. (again <=> AgainOf(cells, c)) /\ (counted <=> CountedOf(cells))
  BY <1>1, Zenon DEF AgainOf, CountedOf
<1>11. longer = Append(cells, Stack!Cell(IF AgainOf(cells, c) THEN Stack!COUNT(-2) ELSE c, << >>))
  <2>1. e = Stack!Cell(IF AgainOf(cells, c) THEN Stack!COUNT(-2) ELSE c, << >>)
    BY <1>10, Zenon DEF e
  <2> QED BY <1>1, <2>1, Zenon DEF longer
<1> HIDE DEF again, counted
<1> QED BY <1>7, <1>8, <1>9, <1>10, <1>11, Zenon DEF PushedFrom, Stacked

(* The alternatives of a push, as one choice of what is stored.             *)
LEMMA StepOfPush ==
  ASSUME NEW c, edit_push_undo_action(c)
  PROVE  \E array \in Enlarged(undo_stack, NewSize) :
           LET sp == undo_stack_pointer
               p == (sp - 1) % NewSize
               q == (sp - 2) % NewSize
               counted == array[p].op = "COUNT"
               again == /\ undo_stack_bottom \notin {sp, p, q}
                        /\ c = array[IF counted THEN q ELSE p]
                        /\ counted => array[p].arg > -MAX_RUN
               code == IF again THEN Stack!COUNT(-2) ELSE c
           IN  /\ undo_stack_size' = NewSize
               /\ IF again /\ (Stack!IsKey(c) \/ counted)
                  THEN /\ undo_stack' = IF Stack!IsKey(c) THEN array
                                        ELSE [array EXCEPT ![p].arg = @ - 1]
                       /\ UNCHANGED <<undo_stack_pointer, undo_stack_bottom, lost>>
                  ELSE /\ undo_stack' = [array EXCEPT ![sp] = code]
                       /\ CheckBottom(undo_stack', NewSize, (sp + 1) % NewSize)
BY Zenon DEF edit_push_undo_action

-----------------------------------------------------------------------------
(* A push of the ring is a push of the stack.                               *)
LEMMA PushDoes ==
  ASSUME RingInv, NEW c \in Codes, edit_push_undo_action(c)
  PROVE  RingInv' /\ AsStack' = Stack!Pushed(AsStack, c, << >>)
<1>0. PICK n, b, m, sp :
        n = NewSize /\ b = undo_stack_bottom /\ m = Used /\ sp = undo_stack_pointer
  OBVIOUS
<1> DEFINE p == (sp - 1) % n
           q == (sp - 2) % n
<1>1. PICK array \in Enlarged(undo_stack, n) :
        LET counted == array[p].op = "COUNT"
            again == /\ b \notin {sp, p, q}
                     /\ c = array[IF counted THEN q ELSE p]
                     /\ counted => array[p].arg > -MAX_RUN
            code == IF again THEN Stack!COUNT(-2) ELSE c
        IN  /\ undo_stack_size' = n
            /\ IF again /\ (Stack!IsKey(c) \/ counted)
               THEN /\ undo_stack' = IF Stack!IsKey(c) THEN array
                                     ELSE [array EXCEPT ![p].arg = @ - 1]
                    /\ UNCHANGED <<undo_stack_pointer, undo_stack_bottom, lost>>
               ELSE /\ undo_stack' = [array EXCEPT ![sp] = code]
                    /\ CheckBottom(undo_stack', n, (sp + 1) % n)
  <2>1. \E array \in Enlarged(undo_stack, NewSize) :
        LET pt == undo_stack_pointer
            p1 == (pt - 1) % NewSize
            p2 == (pt - 2) % NewSize
            counted == array[p1].op = "COUNT"
            again == /\ undo_stack_bottom \notin {pt, p1, p2}
                     /\ c = array[IF counted THEN p2 ELSE p1]
                     /\ counted => array[p1].arg > -MAX_RUN
            code == IF again THEN Stack!COUNT(-2) ELSE c
        IN  /\ undo_stack_size' = NewSize
            /\ IF again /\ (Stack!IsKey(c) \/ counted)
               THEN /\ undo_stack' = IF Stack!IsKey(c) THEN array
                                     ELSE [array EXCEPT ![p1].arg = @ - 1]
                    /\ UNCHANGED <<undo_stack_pointer, undo_stack_bottom, lost>>
               ELSE /\ undo_stack' = [array EXCEPT ![pt] = code]
                    /\ CheckBottom(undo_stack', NewSize, (pt + 1) % NewSize)
    BY StepOfPush, Zenon
  <2> QED BY <1>0, <2>1
<1> DEFINE counted == array[p].op = "COUNT"
           again == /\ b \notin {sp, p, q}
                    /\ c = array[IF counted THEN q ELSE p]
                    /\ counted => array[p].arg > -MAX_RUN
           code == IF again THEN Stack!COUNT(-2) ELSE c
           cells == CellsOf(array, n, b, m)
           ofCells == cells[m].code.op = "COUNT"
<1>2. /\ n \in Nat /\ n >= 5 /\ array \in [0 .. n - 1 -> RingCode] /\ b \in 0 .. n - 1
      /\ sp = (b + m) % n /\ m \in Nat /\ m <= n - 4
      /\ n < MaxUndo => b = 0 /\ m + 1 # n - 3
      /\ Stack!Doubled(AsStack) = [cells |-> cells, size |-> n, lost |-> lost]
  BY <1>0, <1>1, EnlargeDoes
<1>2a. n \in Nat /\ n >= 5 /\ array \in [0 .. n - 1 -> RingCode] /\ b \in 0 .. n - 1
      /\ sp = (b + m) % n /\ sp \in 0 .. n - 1
  <2>1. sp = (b + m) % n /\ n \in Nat /\ n >= 5 /\ b \in 0 .. n - 1 /\ m \in Nat
    BY <1>2
  <2>2. sp \in 0 .. n - 1
    BY <2>1
  <2> QED BY <1>2, <2>2
<1>2b. n \in Nat /\ n >= 5 /\ m \in Nat /\ m <= n - 4
  BY <1>2
<1>3. lost \in BOOLEAN
  BY DEF RingInv
<1>4. /\ p \in 0 .. n - 1 /\ q \in 0 .. n - 1
      /\ m >= 1 => p = (b + (m - 1)) % n
      /\ m >= 2 => q = (b + (m - 2)) % n
      /\ (b \notin {sp, p, q}) <=> m > 2
      /\ m \in 0 .. n - 1 /\ m \in 0 .. n - 4
  <2>1. m \in 0 .. n - 4 /\ m \in 0 .. n - 1
    BY <1>2
  <2>2. /\ n \in Nat /\ n >= 5 /\ b \in 0 .. n - 1 /\ m \in 0 .. n - 4
        /\ sp \in 0 .. n - 1 /\ sp = (b + m) % n
    BY <1>2a, <2>1
  <2>3. /\ (sp - 1) % n \in 0 .. n - 1 /\ (sp - 2) % n \in 0 .. n - 1
        /\ m >= 1 => (sp - 1) % n = (b + (m - 1)) % n
        /\ m >= 2 => (sp - 2) % n = (b + (m - 2)) % n
        /\ (b \notin {sp, (sp - 1) % n, (sp - 2) % n}) <=> m > 2
    BY ZenonT(60), <2>2, LookBack
  <2> QED BY <2>1, <2>3
<1> HIDE DEF p, q
<1>5. cells \in Seq(RingCell) /\ Len(cells) = m
      /\ \A k \in 1 .. m : cells[k].code = array[(b + (k - 1)) % n]
  <2>1. m \in 0 .. n - 1
    BY <1>4
  <2> QED BY <1>2a, <2>1, CellsAreSeq
<1>6. m > 2 => cells[m].code = array[p] /\ cells[m - 1].code = array[q]
  <2> SUFFICES ASSUME m > 2 PROVE cells[m].code = array[p] /\ cells[m - 1].code = array[q]
    OBVIOUS
  <2>1. m \in 1 .. m /\ m - 1 \in 1 .. m /\ (m - 1) - 1 = m - 2
    BY <1>2
  <2>2. cells[m].code = array[(b + (m - 1)) % n]
    BY <1>5, <2>1
  <2>3. cells[m - 1].code = array[(b + ((m - 1) - 1)) % n]
    BY <1>5, <2>1
  <2> QED BY SMTT(60), <1>2, <1>4, <2>1, <2>2, <2>3
<1> HIDE DEF cells
<1> DEFINE len == Len(cells)
<1>7. again <=> AgainOf(cells, c)
  <2>1. (b \notin {sp, p, q}) <=> m > 2
    BY <1>4
  <2>2. m > 2 => m > 0
    BY <1>2b
  <2>3. len = m
    BY <1>5
  <2>4. AgainOf(cells, c) <=>
          LET counted2 == len > 0 /\ cells[len].code.op = "COUNT"
          IN  /\ len > 2
              /\ c = cells[IF counted2 THEN len - 1 ELSE len].code
              /\ counted2 => cells[len].code.arg > -MAX_RUN
    BY Zenon DEF AgainOf
  <2> HIDE DEF len
  <2> QED BY <1>6, <2>1, <2>2, <2>3, <2>4
<1>8. again => (counted <=> CountedOf(cells))
  <2>1. again => m > 2 /\ m > 0
    BY <1>4, <1>2b
  <2>3. len = m
    BY <1>5
  <2>4. CountedOf(cells) <=> len > 0 /\ cells[len].code.op = "COUNT"
    BY Zenon DEF CountedOf
  <2> HIDE DEF len
  <2> QED BY <1>6, <2>1, <2>3, <2>4
<1> DEFINE less == LessCounted(cells, m)
           longer == Append(cells, Stack!Cell(code, << >>))
<1>9. Stack!Pushed(AsStack, c, << >>) =
        IF AgainOf(cells, c) /\ Stack!IsKey(c) THEN [cells |-> cells, size |-> n, lost |-> lost]
        ELSE IF AgainOf(cells, c) /\ CountedOf(cells)
        THEN [cells |-> LessCounted(cells, len), size |-> n, lost |-> lost]
        ELSE Stack!Trimmed(
               [cells |-> Append(cells, Stack!Cell(IF AgainOf(cells, c) THEN Stack!COUNT(-2) ELSE c,
                                                   << >>)),
                size |-> n, lost |-> lost])
  <2>1. Stack!Doubled(AsStack) = Stacked(cells, n, lost)
    BY <1>2 DEF Stacked
  <2>2. cells \in Seq(RingCell) /\ n \in Nat
    BY <1>2b, <1>5
  <2>3. cells \in Seq(RingCell)
    BY <2>2
  <2>4. n \in Nat
    BY <2>2
  <2>5. Stack!Pushed(AsStack, c, << >>) = PushedFrom(cells, n, lost, c)
    BY ZenonT(60), <1>3, <2>1, <2>3, <2>4, PushedIs
  <2> QED BY <2>5, Zenon DEF PushedFrom, Stacked
<1>10. Stack!Pushed(AsStack, c, << >>) =
        IF again /\ Stack!IsKey(c) THEN [cells |-> cells, size |-> n, lost |-> lost]
        ELSE IF again /\ counted THEN [cells |-> less, size |-> n, lost |-> lost]
        ELSE Stack!Trimmed([cells |-> longer, size |-> n, lost |-> lost])
  <2>1. LessCounted(cells, len) = less
    BY <1>5, Zenon
  <2>2. Append(cells, Stack!Cell(IF AgainOf(cells, c) THEN Stack!COUNT(-2) ELSE c, << >>)) = longer
    BY <1>7, Zenon
  <2> HIDE DEF again, counted, less, longer
  <2> QED BY <1>7, <1>8, <1>9, <2>1, <2>2, Zenon
<1>11. /\ undo_stack_size' = n
       /\ IF again /\ (Stack!IsKey(c) \/ counted)
          THEN /\ undo_stack' = IF Stack!IsKey(c) THEN array
                                ELSE [array EXCEPT ![p].arg = @ - 1]
               /\ UNCHANGED <<undo_stack_pointer, undo_stack_bottom, lost>>
          ELSE /\ undo_stack' = [array EXCEPT ![sp] = code]
               /\ CheckBottom(undo_stack', n, (sp + 1) % n)
  BY <1>1, Zenon
<1>12. again => m >= 1 /\ m > 2
  BY <1>2, <1>4
<1>13. CASE again /\ (Stack!IsKey(c) \/ counted)
  <2> DEFINE array2 == IF Stack!IsKey(c) THEN array ELSE [array EXCEPT ![p].arg = @ - 1]
             cells2 == IF Stack!IsKey(c) THEN cells ELSE less
  <2>1. /\ undo_stack' = array2 /\ undo_stack_size' = n
        /\ undo_stack_pointer' = sp /\ undo_stack_bottom' = b /\ lost' = lost
    BY <1>0, <1>11, <1>13, Zenon
  <2>2. array2 \in [0 .. n - 1 -> RingCode] /\ CellsOf(array2, n, b, m) = cells2
    <3>1. CASE Stack!IsKey(c)
      BY <1>2, <3>1 DEF cells
    <3>2. CASE ~Stack!IsKey(c)
      <4>1. /\ n \in Nat /\ n >= 5 /\ array \in [0 .. n - 1 -> RingCode] /\ b \in 0 .. n - 1
            /\ m \in 1 .. n - 4 /\ p \in 0 .. n - 1 /\ p = (b + (m - 1)) % n
            /\ array[p].op = "COUNT"
        BY <1>2a, <1>2b, <1>4, <1>12, <1>13, <3>2
      <4>2. /\ CountedDown(array, p) \in [0 .. n - 1 -> RingCode]
            /\ CellsOf(CountedDown(array, p), n, b, m) = LessCounted(CellsOf(array, n, b, m), m)
        BY <4>1, FewerDoes
      <4>3. array2 = CountedDown(array, p)
        BY <3>2, Zenon DEF CountedDown
      <4> HIDE DEF array2
      <4> QED BY <3>2, <4>2, <4>3, Zenon DEF cells
    <3> QED BY <3>1, <3>2
  <2> HIDE DEF array2, cells2
  <2>3. undo_stack_pointer \in 0 .. n - 1 /\ (sp - b) % n = m
    <3>1. sp = IF b + m < n THEN b + m ELSE b + m - n
      BY <1>2
    <3> QED BY <1>0, <1>2, <1>4, <3>1
  <2>4. Used' = m
    BY <1>0, <2>1, <2>3, Zenon DEF Used
  <2>5. RingInv'
    <3>1. sp \in 0 .. n - 1
      BY <1>0, <2>3
    <3>2. n < MaxUndo => b = 0
      BY <1>2
    <3> QED BY <1>2, <1>3, <2>1, <2>2, <2>4, <3>1, <3>2 DEF RingInv
  <2>6. AsStack' = [cells |-> cells2, size |-> n, lost |-> lost]
    <3>1. AsStack' = [cells |-> CellsOf(undo_stack', undo_stack_size', undo_stack_bottom', Used'),
                      size |-> undo_stack_size', lost |-> lost']
      BY Zenon DEF AsStack, CellsOf, Used
    <3> QED BY <2>1, <2>2, <2>4, <3>1, Zenon
  <2>7. Stack!Pushed(AsStack, c, << >>) = [cells |-> cells2, size |-> n, lost |-> lost]
    BY <1>10, <1>13, Zenon DEF cells2
  <2> QED BY <2>5, <2>6, <2>7, Zenon
<1>14. CASE ~(again /\ (Stack!IsKey(c) \/ counted))
  <2> DEFINE array2 == [array EXCEPT ![sp] = code]  sp2 == (sp + 1) % n  l == m + 1
  <2>1. undo_stack' = array2 /\ undo_stack_size' = n /\ CheckBottom(array2, n, sp2)
    BY <1>11, <1>14, Zenon
  <2>2. code \in RingCode
    <3>1. -2 \in Int
      OBVIOUS
    <3> QED BY <3>1 DEF RingCode
  <2> HIDE DEF code
  <2>3. /\ array2 \in [0 .. n - 1 -> RingCode] /\ sp2 = (b + l) % n
        /\ CellsOf(array2, n, b, l) = longer
    <3>1. n \in Nat /\ n >= 5 /\ b \in 0 .. n - 1 /\ sp \in 0 .. n - 1 /\ sp = (b + m) % n
      BY <1>2a
    <3>3. array \in [0 .. n - 1 -> RingCode] /\ m \in 0 .. n - 4
      BY <1>2a, <1>4
    <3>2. /\ Written(array, sp, code) \in [0 .. n - 1 -> RingCode]
          /\ (sp + 1) % n = (b + (m + 1)) % n
          /\ CellsOf(Written(array, sp, code), n, b, m + 1)
               = Append(CellsOf(array, n, b, m), Stack!Cell(code, << >>))
      <4>1. n \in Nat
        BY <3>1
      <4>2. n >= 5
        BY <3>1
      <4>3. b \in 0 .. n - 1
        BY <3>1
      <4>4. m \in 0 .. n - 4
        BY <3>3
      <4>5. array \in [0 .. n - 1 -> RingCode]
        BY <3>3
      <4>6. sp \in 0 .. n - 1
        BY <3>1
      <4>7. sp = (b + m) % n
        BY <3>1
      <4>8. Stored(array, n, b, m, sp, code)
        BY <2>2, <4>1, <4>2, <4>3, <4>4, <4>5, <4>6, <4>7, StoreDoes, Zenon
      <4> QED BY <4>8, Zenon DEF Stored
    <3>4. array2 = Written(array, sp, code)
      BY DEF Written
    <3> HIDE DEF array2
    <3> QED BY <3>2, <3>4, Zenon DEF cells
  <2>4. l \in 1 .. n - 3 /\ (n < MaxUndo => b = 0 /\ l # n - 3)
    BY <1>2
  <2> HIDE DEF array2, sp2, l
  <2>5. /\ RingInv'
        /\ AsStack' = Stack!Trimmed([cells |-> CellsOf(array2, n, b, l), size |-> n, lost |-> lost])
    BY <1>0, <1>2, <1>3, <2>1, <2>3, <2>4, CheckDoes
  <2> HIDE DEF longer
  <2>6. Stack!Pushed(AsStack, c, << >>)
          = Stack!Trimmed([cells |-> longer, size |-> n, lost |-> lost])
    BY <1>10, <1>14, Zenon
  <2> QED BY <2>3, <2>5, <2>6, Zenon
<1> QED BY <1>13, <1>14
(* Popped, for a stack whose top is a code.                                 *)
LEMMA PoppedIs ==
  ASSUME NEW st, NEW cells \in Seq(RingCell), NEW n \in Nat, NEW was \in BOOLEAN,
         st = Stacked(cells, n, was), NEW m, m = Len(cells),
         m # 0, m = 1 => cells[m].code.op # "COUNT"
  PROVE  Stack!Popped(st) =
           IF cells[m].code.op = "COUNT" /\ cells[m].code.arg # -2
           THEN Stacked(MoreCounted(cells, m), n, was)
           ELSE Stacked(SubSeq(cells, 1, m - 1), n, was)
<1> DEFINE fewer == [st.cells EXCEPT ![m].code.arg = @ + 1]
           shorter == SubSeq(st.cells, 1, m - 1)
<1>1. st \in [cells : Seq(RingCell), size : Nat, lost : BOOLEAN]
      /\ st.cells = cells /\ st.size = n /\ st.lost = was
  BY DEF Stacked
<1>2. m \in Nat /\ Len(st.cells) = m
  BY <1>1
<1>3. \A k \in 1 .. m : cells[k].code.op # "STACK_BOTTOM"
  <2> SUFFICES ASSUME NEW k \in 1 .. m PROVE cells[k].code.op # "STACK_BOTTOM"
    OBVIOUS
  <2>1. cells[k] \in RingCell
    BY <1>2
  <2>2. PICK code \in RingCode : code = cells[k].code
    BY <2>1 DEF RingCell
  <2>3. code.op # "STACK_BOTTOM"
    BY RingAssumption DEF RingCode, Garbage, KEY, Stack!Code, Stack!KEY_PRESS, Stack!COUNT
  <2> QED BY <2>2, <2>3
<1>4. Stack!Top(st) # Stack!STACK_BOTTOM
  <2>1. Stack!Top(st) \in {cells[m].code, cells[m - 1].code}
        /\ (Stack!Top(st) = cells[m - 1].code => m > 1 \/ Stack!Top(st) = cells[m].code)
    BY <1>1, <1>2 DEF Stack!Top
  <2>2. m \in 1 .. m /\ (m > 1 => m - 1 \in 1 .. m)
    BY <1>2
  <2>3. \A code : code.op # "STACK_BOTTOM" => code # Stack!STACK_BOTTOM
    BY DEF Stack!STACK_BOTTOM, Stack!Code
  <2> QED BY <1>2, <1>3, <2>1, <2>2, <2>3
<1>5. Stack!Popped(st) =
        IF st.cells[m].code.op = "COUNT" /\ st.cells[m].code.arg # -2
        THEN [st EXCEPT !.cells[m].code.arg = @ + 1]
        ELSE [st EXCEPT !.cells = SubSeq(@, 1, m - 1)]
  BY <1>2, <1>4 DEF Stack!Popped
<1>6. [st EXCEPT !.cells[m].code.arg = @ + 1] = [st EXCEPT !.cells = fewer]
  OBVIOUS
<1>7. [st EXCEPT !.cells = SubSeq(@, 1, m - 1)] = [st EXCEPT !.cells = shorter]
  OBVIOUS
<1> HIDE DEF fewer, shorter
<1>8. [st EXCEPT !.cells = fewer] = Stacked(fewer, n, was)
  BY <1>1 DEF Stacked
<1>9. [st EXCEPT !.cells = shorter] = Stacked(shorter, n, was)
  BY <1>1 DEF Stacked
<1>10. fewer = MoreCounted(cells, m) /\ shorter = SubSeq(cells, 1, m - 1)
  BY <1>1, Zenon DEF fewer, shorter, MoreCounted
<1> QED BY <1>1, <1>5, <1>6, <1>7, <1>8, <1>9, <1>10, Zenon

(* Moving the pointer back drops the last cell.                             *)
LEMMA ShorterDoes ==
  ASSUME NEW n \in Nat, n >= 5, NEW b \in 0 .. n - 1, NEW m \in 1 .. n - 4,
         NEW array \in [0 .. n - 1 -> RingCode]
  PROVE  CellsOf(array, n, b, m - 1) = SubSeq(CellsOf(array, n, b, m), 1, m - 1)
<1> DEFINE cells == CellsOf(array, n, b, m)
           h == m - 1
           less == CellsOf(array, n, b, h)
           sub == SubSeq(cells, 1, h)
<1>1. m \in 0 .. n - 1 /\ h \in 0 .. n - 1 /\ h < m
  OBVIOUS
<1> HIDE DEF h
<1>2. /\ cells \in Seq(RingCell) /\ Len(cells) = m
      /\ \A k \in 1 .. m : cells[k].code = array[(b + (k - 1)) % n]
  BY <1>1, CellsAreSeq
<1>3. /\ less \in Seq(RingCell) /\ Len(less) = h
      /\ \A k \in 1 .. h : less[k].code = array[(b + (k - 1)) % n]
  BY <1>1, CellsAreSeq
<1> HIDE DEF cells, less
<1>4. sub \in Seq(RingCell) /\ Len(sub) = h /\ \A k \in 1 .. h : sub[k] = cells[k]
  <2>1. \A k \in 1 .. h : cells[k] \in RingCell
    BY <1>1, <1>2
  <2> QED BY <1>1, <1>2, <2>1
<1> HIDE DEF sub
<1>5. \A k \in 1 .. h : k \in 1 .. m
  BY <1>1
<1>6. \A k \in 1 .. h : less[k].code = sub[k].code
  BY <1>2, <1>3, <1>4, <1>5, Zenon
<1>7. less = sub
  BY <1>3, <1>4, <1>6, SameCells
<1> QED BY <1>7, Zenon DEF less, sub, h, cells
(* A pop of the ring is a pop of the stack.                                 *)
LEMMA PopDoes ==
  ASSUME RingInv, edit_pop_undo_action
  PROVE  RingInv' /\ AsStack' = Stack!Popped(AsStack)
<1>0. PICK n, b, m, sp, array :
        n = undo_stack_size /\ b = undo_stack_bottom /\ m = Used /\ sp = undo_stack_pointer
        /\ array = undo_stack
  OBVIOUS
<1> DEFINE p == (sp - 1) % n
           counted == array[p].op = "COUNT"
           cells == CellsOf(array, n, b, m)
<1>1. /\ sp # b /\ (counted => p # b)
      /\ IF counted /\ array[p].arg # -2
         THEN undo_stack' = [array EXCEPT ![p].arg = @ + 1] /\ undo_stack_pointer' = sp
         ELSE undo_stack_pointer' = p /\ undo_stack' = array
      /\ undo_stack_size' = n /\ undo_stack_bottom' = b /\ lost' = lost
  BY <1>0, Zenon DEF edit_pop_undo_action
<1>2. /\ n \in Nat /\ n >= 5 /\ array \in [0 .. n - 1 -> RingCode] /\ b \in 0 .. n - 1
      /\ sp \in 0 .. n - 1 /\ (n < MaxUndo => b = 0) /\ lost \in BOOLEAN
      /\ m \in 0 .. n - 4 /\ sp = (b + m) % n
  BY <1>0, StackOf DEF RingInv
<1>3. AsStack = Stacked(cells, n, lost)
  BY <1>0, StackOf, Zenon DEF Stacked
<1>4. m \in 1 .. n - 4 /\ p \in 0 .. n - 1 /\ p = (b + (m - 1)) % n /\ (p = b <=> m = 1)
  <2>1. sp = IF b + m < n THEN b + m ELSE b + m - n
    BY <1>2
  <2>2. (sp - 1) % n = IF sp >= 1 THEN sp - 1 ELSE sp - 1 + n
    BY <1>2
  <2>3. p \in 0 .. n - 1 /\ p = IF sp >= 1 THEN sp - 1 ELSE sp - 1 + n
    BY <1>2, <2>2
  <2> HIDE DEF p
  <2>4. m \in 1 .. n - 4
    BY <1>1, <1>2, <2>1
  <2>5. p = (b + (m - 1)) % n
    BY <1>2, <2>1, <2>3, <2>4
  <2>6. p = b <=> m = 1
    BY <1>2, <2>1, <2>3, <2>4
  <2> QED BY <2>3, <2>4, <2>5, <2>6
<1> HIDE DEF p
<1>5. cells \in Seq(RingCell) /\ Len(cells) = m /\ cells[m].code = array[p]
  <2>1. m \in 0 .. n - 1 /\ m \in 1 .. m
    BY <1>2, <1>4
  <2>2. /\ cells \in Seq(RingCell) /\ Len(cells) = m
        /\ \A k \in 1 .. m : cells[k].code = array[(b + (k - 1)) % n]
    BY <1>2, <2>1, CellsAreSeq
  <2> HIDE DEF cells
  <2> QED BY <1>4, <2>1, <2>2
<1> HIDE DEF cells
<1>6. Stack!Popped(AsStack) =
        IF counted /\ array[p].arg # -2
        THEN Stacked(MoreCounted(cells, m), n, lost)
        ELSE Stacked(SubSeq(cells, 1, m - 1), n, lost)
  <2>1. m # 0 /\ (m = 1 => cells[m].code.op # "COUNT")
    <3>1. m # 0
      BY <1>2, <1>4
    <3>2. m = 1 => ~counted
      BY <1>1, <1>4
    <3> QED BY <1>5, <3>1, <3>2
  <2>2. Stack!Popped(AsStack) =
           IF cells[m].code.op = "COUNT" /\ cells[m].code.arg # -2
           THEN Stacked(MoreCounted(cells, m), n, lost)
           ELSE Stacked(SubSeq(cells, 1, m - 1), n, lost)
    BY ZenonT(60), <1>2, <1>3, <1>5, <2>1, PoppedIs
  <2> QED BY <1>5, <2>2, Zenon
<1>7. AsStack' = Stacked(CellsOf(undo_stack', n, b, Used'), n, lost)
  <2>1. AsStack' = [cells |-> CellsOf(undo_stack', undo_stack_size', undo_stack_bottom', Used'),
                    size |-> undo_stack_size', lost |-> lost']
    BY Zenon DEF AsStack, CellsOf, Used
  <2> QED BY <1>1, <2>1, Zenon DEF Stacked
<1>8. CASE counted /\ array[p].arg # -2
  <2>1. undo_stack' = CountedUp(array, p) /\ undo_stack_pointer' = sp
    BY <1>1, <1>8, Zenon DEF CountedUp
  <2>2. /\ CountedUp(array, p) \in [0 .. n - 1 -> RingCode]
        /\ CellsOf(CountedUp(array, p), n, b, m) = MoreCounted(CellsOf(array, n, b, m), m)
    <3>1. /\ n \in Nat /\ n >= 5 /\ array \in [0 .. n - 1 -> RingCode] /\ b \in 0 .. n - 1
          /\ m \in 1 .. n - 4 /\ p \in 0 .. n - 1 /\ p = (b + (m - 1)) % n
          /\ array[p].op = "COUNT"
      BY <1>2, <1>4, <1>8
    <3> QED BY <3>1, MoreDoes
  <2>3. Used' = m
    BY <1>0, <1>1, <2>1, Zenon DEF Used
  <2>4. RingInv'
    BY <1>1, <1>2, <2>1, <2>2, <2>3 DEF RingInv
  <2>5. AsStack' = Stacked(MoreCounted(cells, m), n, lost)
    BY <1>7, <2>1, <2>2, <2>3, Zenon DEF cells
  <2> QED BY <1>6, <1>8, <2>4, <2>5, Zenon
<1>9. CASE ~(counted /\ array[p].arg # -2)
  <2>1. undo_stack' = array /\ undo_stack_pointer' = p
    BY <1>1, <1>9
  <2>2. CellsOf(array, n, b, m - 1) = SubSeq(cells, 1, m - 1)
    BY <1>2, <1>4, ShorterDoes DEF cells
  <2> DEFINE h == m - 1
  <2>3. Used' = h
    <3>1. Used' = (p - b) % n
      BY <1>1, <2>1, Zenon DEF Used
    <3>2. h \in 0 .. n - 5 /\ p = (b + h) % n
      BY <1>2, <1>4
    <3> HIDE DEF h
    <3>3. p = IF b + h < n THEN b + h ELSE b + h - n
      BY <1>2, <3>2
    <3>4. (p - b) % n = h
      BY <1>2, <3>2, <3>3
    <3> QED BY <3>1, <3>4
  <2>4. RingInv'
    <3>1. h \in 0 .. n - 4
      BY <1>2, <1>4
    <3> HIDE DEF h
    <3> QED BY <1>1, <1>2, <1>4, <2>1, <2>3, <3>1 DEF RingInv
  <2>5. AsStack' = Stacked(SubSeq(cells, 1, m - 1), n, lost)
    BY <1>7, <2>1, <2>2, <2>3, Zenon
  <2> QED BY <1>6, <1>9, <2>4, <2>5, Zenon
<1> QED BY <1>8, <1>9

(* Dropping all codes is Emptied.                                           *)
LEMMA ResetDoes ==
  ASSUME RingInv, redo_reset
  PROVE  RingInv' /\ AsStack' = Stack!Emptied(AsStack)
<1>1. /\ undo_stack_bottom' = 0 /\ undo_stack_pointer' = 0
      /\ undo_stack' = undo_stack /\ undo_stack_size' = undo_stack_size /\ lost' = lost
  BY DEF redo_reset
<1>2. undo_stack_size \in Nat /\ undo_stack_size >= 5
  BY DEF RingInv
<1>3. Used' = 0
  BY <1>1, <1>2 DEF Used
<1>4. RingInv'
  BY <1>1, <1>2, <1>3 DEF RingInv
<1>5. AsStack' = Stacked(<< >>, undo_stack_size, lost)
  <2>1. AsStack' = [cells |-> CellsOf(undo_stack', undo_stack_size', undo_stack_bottom', Used'),
                    size |-> undo_stack_size', lost |-> lost']
    BY Zenon DEF AsStack, CellsOf, Used
  <2>2. CellsOf(undo_stack, undo_stack_size, 0, 0) = << >>
    BY DEF CellsOf
  <2> QED BY <1>1, <1>3, <2>1, <2>2, Zenon DEF Stacked
<1>6. Stack!Emptied(AsStack) = Stacked(<< >>, undo_stack_size, lost)
  <2> DEFINE cells == CellsOf(undo_stack, undo_stack_size, undo_stack_bottom, Used)
             st == AsStack
  <2>1. AsStack = [cells |-> cells, size |-> undo_stack_size, lost |-> lost]
    BY StackOf
  <2>2. cells \in Seq(RingCell)
    <3>1. PICK n, b, m, array :
            n = undo_stack_size /\ b = undo_stack_bottom /\ m = Used /\ array = undo_stack
      OBVIOUS
    <3>2. n \in Nat /\ n >= 5 /\ array \in [0 .. n - 1 -> RingCode] /\ b \in 0 .. n - 1
      BY <3>1 DEF RingInv
    <3>3. m \in 0 .. n - 1
      BY <3>1, <3>2, StackOf
    <3>4. CellsOf(array, n, b, m) \in Seq(RingCell)
      BY <3>2, <3>3, CellsAreSeq
    <3> QED BY <3>1, <3>4
  <2>3. lost \in BOOLEAN
    BY DEF RingInv
  <2> HIDE DEF cells
  <2>4. st \in [cells : Seq(RingCell), size : Nat, lost : BOOLEAN]
        /\ st.size = undo_stack_size /\ st.lost = lost
    BY <1>2, <2>1, <2>2, <2>3
  <2> HIDE DEF st
  <2>5. Stack!Emptied(st) = [st EXCEPT !.cells = << >>]
    BY DEF Stack!Emptied
  <2>6. Stack!Emptied(st) = Stacked(<< >>, undo_stack_size, lost)
    BY <2>4, <2>5 DEF Stacked
  <2> QED BY <2>6 DEF st
<1> QED BY <1>4, <1>5, <1>6

-----------------------------------------------------------------------------
(* A new ring is a new stack.                                               *)
LEMMA RingStarts ==
  ASSUME RingInit
  PROVE  RingInv /\ Stack!StackInit
<1>1. START_STACK_SIZE \in Nat /\ START_STACK_SIZE >= 5
  BY RingAssumption
<1>2. Used = 0
  BY <1>1 DEF RingInit, Used
<1>3. Stack!Code("INSERT", 0) \in RingCode
  BY DEF RingCode, Garbage
<1>4. RingInv
  <2>1. /\ undo_stack_size = START_STACK_SIZE /\ undo_stack_pointer = 0 /\ undo_stack_bottom = 0
        /\ lost = FALSE
        /\ undo_stack = [i \in 0 .. START_STACK_SIZE - 1 |-> Stack!Code("INSERT", 0)]
    BY DEF RingInit
  <2>2. undo_stack \in [0 .. undo_stack_size - 1 -> RingCode]
    <3>1. PICK code \in RingCode : code = Stack!Code("INSERT", 0)
      BY <1>3
    <3> QED BY <2>1, <3>1
  <2>3. 0 \in 0 .. undo_stack_size - 1 /\ Used <= undo_stack_size - 4
    BY <1>1, <1>2, <2>1
  <2> QED BY <1>1, <2>1, <2>2, <2>3 DEF RingInv
<1>5. AsStack = [cells |-> << >>, size |-> START_STACK_SIZE, lost |-> FALSE]
  <2>1. AsStack = [cells |-> CellsOf(undo_stack, undo_stack_size, undo_stack_bottom, Used),
                   size |-> undo_stack_size, lost |-> lost]
    BY Zenon DEF AsStack, CellsOf, Used
  <2>2. CellsOf(undo_stack, undo_stack_size, undo_stack_bottom, 0) = << >>
    BY DEF CellsOf
  <2> QED BY <1>2, <2>1, <2>2 DEF RingInit
<1> QED BY <1>4, <1>5 DEF Stack!StackInit, Stack!NewStack

(* Every step of the ring is a step of the stack, or leaves it as it is.    *)
LEMMA RingSteps ==
  ASSUME RingInv, [RingNext]_ring_vars
  PROVE  RingInv' /\ [Stack!StackNext]_AsStack
<1>1. ASSUME NEW c \in Codes, edit_push_undo_action(c)
      PROVE  RingInv' /\ Stack!StackNext
  <2>1. RingInv' /\ AsStack' = Stack!Pushed(AsStack, c, << >>)
    BY <1>1, PushDoes
  <2>2. c \in Stack!Pushable
    BY RingAssumption DEF Stack!Pushable, Stack!STACK_BOTTOM, Stack!Code
  <2> QED BY <2>1, <2>2, Zenon DEF Stack!StackNext
<1>2. ASSUME edit_pop_undo_action PROVE RingInv' /\ Stack!StackNext
  BY <1>2, PopDoes, Zenon DEF Stack!StackNext
<1>3. ASSUME redo_reset PROVE RingInv' /\ Stack!StackNext
  BY <1>3, ResetDoes, Zenon DEF Stack!StackNext
<1>4. ASSUME UNCHANGED ring_vars PROVE RingInv' /\ AsStack' = AsStack
  BY <1>4 DEF ring_vars, RingInv, AsStack, Used
<1> QED BY <1>1, <1>2, <1>3, <1>4, Zenon DEF RingNext

(* The indices of the ring stay within the array, and four cells at least   *)
(* stay free, whatever is pushed, popped and dropped.                       *)
THEOREM RingStaysInRange == RingSpec => []RingInv
<1>1. RingInit => RingInv
  BY RingStarts
<1>2. RingInv /\ [RingNext]_ring_vars => RingInv'
  BY RingSteps
<1> QED BY <1>1, <1>2, PTL DEF RingSpec

(* The ring of numbers of src/editor/edit.c is, seen through AsStack, the   *)
(* stack of UndoStackSpec, for every size, limit and margin and every set   *)
(* of codes (RingIsStack).                                                  *)
THEOREM RingIsAStack == RingSpec => RingIsStack
<1>1. RingInit => RingInv /\ Stack!StackInit
  BY RingStarts
<1>2. RingInv /\ [RingNext]_ring_vars => RingInv' /\ [Stack!StackNext]_AsStack
  BY RingSteps
<1> QED BY <1>1, <1>2, PTL DEF RingSpec, RingIsStack, Stack!StackSpec
=============================================================================
