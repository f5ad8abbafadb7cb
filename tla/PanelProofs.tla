---------------------------- MODULE PanelProofs ----------------------------
(***************************************************************************)
(* A panel of Panel.tla, for every directory, size and option: the counts  *)
(* are those of what is marked, the cursor is shown, a loop over the       *)
(* marked files takes each once, and reading a directory again keeps marks *)
(* and cursor.                                                             *)
(*                                                                         *)
(* The invariant is PanelInv.  It says of the panel at rest what the       *)
(* properties say (PanelOK), with names that are distinct, from which it   *)
(* follows that the marks by name, which loops and reloads go by, and the  *)
(* marks by entry, which are counted, are the same; what there is left to  *)
(* do of a directory half read (ReadingOK); and where a loop has got to    *)
(* (LoopOK).  The operators of PanelList are looked at one by one, each by *)
(* what it leaves alone: OnlyMarks, OnlyCursor.                            *)
(***************************************************************************)
EXTENDS Panel, FiniteSetTheorems, SequenceTheorems, WellFoundedInduction, TLAPS

(* A panel has entries with distinct names, ".." among them and never       *)
(* marked.                                                                  *)
Entries ==
  [name : Names \cup {DotDot}, dir : BOOLEAN, size : {0, FileSize, TreeSize},
   computed : BOOLEAN, marked : BOOLEAN]

Panels ==
  [list : Seq(Entries), marked : Int, dirs_marked : Int, total : Int, selected : Int,
   top_file : Int, items : Nat \ {0}, reverse : BOOLEAN, is_panelized : BOOLEAN,
   stale : BOOLEAN]

FilesOK(list) ==
  /\ list \in Seq(Entries)
  /\ \A i, j \in DOMAIN list : list[i].name = list[j].name => i = j
  /\ \E i \in DOMAIN list : list[i].name = DotDot
  /\ \A i \in DOMAIN list : list[i].marked => list[i].name # DotDot

ListOK(q) == q \in Panels /\ FilesOK(q.list)

Shown(q) ==
  /\ q.selected \in 0..(Len(q.list) - 1)
  /\ q.selected - q.top_file \in 0..(q.items - 1)
  /\ q.top_file <= Greater(0, Len(q.list) - q.items)

PanelOK(q) == ListOK(q) /\ Shown(q) /\ (~q.stale => Tally(q))

(* While a directory is read: the marks are those kept, as far as they have *)
(* come, and cnt says how many are still to come; or there are none.        *)
Loads ==
  [on : {TRUE}, todo : SUBSET Names, count : Nat, want : Names \cup {DotDot, NoName},
   fresh : BOOLEAN, keep : SUBSET Names, cnt : Int,
   before : [marked : SUBSET Names, cursor : Names \cup {DotDot}, dir : Directories]]

ReadingOK ==
  /\ load \in Loads /\ batch.op = "none"
  /\ load.todo \cap Listed(p) = {}
  /\ load.fresh => ~p.stale /\ Tally(p) /\ MarkedAt(p) = {}
  /\ ~load.fresh =>
       /\ load.keep = load.before.marked /\ load.want = load.before.cursor
       /\ \A i \in DOMAIN p.list : p.list[i].marked <=> p.list[i].name \in load.keep
       /\ load.cnt = Cardinality(load.keep \ Listed(p))

(* A loop over files: where it is, and what there is left to do.            *)
Batches ==
  [op : {"ask", "apply", "operate", "done", "astray"}, file : Nat \ {0},
   chosen : SUBSET Names, done : SUBSET Names, update : BOOLEAN]

AtFirst(q, b) ==
  /\ b.file \in MarkedAt(q)
  /\ \A i \in MarkedAt(q) : b.file <= i

LoopOK(q, b) ==
  /\ b \in Batches
  /\ b.op \in {"ask", "apply"} => b.file \in DOMAIN q.list
  /\ ~q.stale /\ b.chosen # {} =>
       /\ b.op # "astray"
       /\ b.done \cap MarkedNames(q) = {} /\ b.done \cup MarkedNames(q) = b.chosen
       /\ b.op \in {"ask", "apply"} => AtFirst(q, b)

PanelInv ==
  /\ disk \in [Directories -> SUBSET Names] /\ cwdir \in Directories
  /\ (found = << >> \/ (FilesOK(found) /\ \A i \in DOMAIN found : ~found[i].marked))
  /\ ListOK(p)
  /\ IF load.on THEN ReadingOK ELSE load = NoLoad /\ PanelOK(p)
  /\ batch = NoBatch \/ LoopOK(p, batch)

-----------------------------------------------------------------------------
(* Numbers, counts and loops.                                               *)
LEMMA LeastNat == ASSUME NEW T \in SUBSET Nat, T # {} PROVE \E x \in T : \A y \in T : x <= y
<1>1. \E x \in T : \A y \in T : <<y, x>> \notin OpToRel(<, Nat)
  BY NatLessThanWellFounded, WFMin
<1>2. \A x, y \in Nat : <<y, x>> \notin OpToRel(<, Nat) => x <= y
  BY DEF OpToRel
<1> QED BY <1>1, <1>2

(* The least of a set of numbers is in it.                                  *)
LEMMA MinIs ==
  ASSUME NEW T \in SUBSET Nat, T # {}
  PROVE  Min(T) \in T /\ \A y \in T : Min(T) <= y
BY LeastNat DEF Min

LEMMA NatInduct ==
  ASSUME NEW T, 0 \in T, \A n \in Nat : n \in T => n + 1 \in T
  PROVE  Nat \subseteq T
<1> DEFINE U == {n \in Nat : n \notin T}
<1> SUFFICES ASSUME U # {} PROVE FALSE
  OBVIOUS
<1>1. PICK x \in U : \A y \in U : x <= y
  <2>1. U \in SUBSET Nat
    OBVIOUS
  <2> HIDE DEF U
  <2> QED BY <2>1, LeastNat
<1>2. x # 0 /\ x - 1 \in Nat /\ x - 1 \notin U
  BY <1>1
<1> QED BY <1>1, <1>2

(* A loop of n steps whose step k leads from Place[k - 1] into Place[k]:    *)
(* the values it takes are a function,                                      *)
Steps(F, n, Place, st) == \A k \in 1..n : F[k - 1] \in Place[k - 1] /\ F[k] = st[k][F[k - 1]]
Leads(n, Place, st) == \A k \in 1..n : \A v \in Place[k - 1] : st[k][v] \in Place[k]
Runs(n, S, Place, st, start) ==
  \E F \in [0..n -> S] : F[0] = start /\ Steps(F, n, Place, st)

LEMMA LoopRuns ==
  ASSUME NEW n \in Nat, NEW S, NEW Place \in [0..n -> SUBSET S], NEW st, NEW start, start \in Place[0],
         Leads(n, Place, st)
  PROVE  Runs(n, S, Place, st, start)
<1> DEFINE Follows(F, m) == /\ F = [k \in 0..m |-> F[k]] /\ F[0] = start
                            /\ \A k \in 1..m : F[k] = st[k][F[k - 1]]
                            /\ \A k \in 0..m : F[k] \in Place[k]
           T == {m \in Nat : m <= n => \E F : Follows(F, m)}
<1>1. 0 \in T
  <2>1. Follows([k \in 0..0 |-> start], 0)
    OBVIOUS
  <2> HIDE DEF Follows
  <2> QED BY <2>1
<1>2. ASSUME NEW m \in Nat, m \in T PROVE m + 1 \in T
  <2> SUFFICES ASSUME m + 1 <= n PROVE \E F : Follows(F, m + 1)
    OBVIOUS
  <2>1. PICK F : Follows(F, m)
    BY <1>2
  <2>2. PICK j \in Nat : j = m + 1 /\ j - 1 = m /\ j # 0 /\ m \in 0..m /\ j \in 1..n
    OBVIOUS
  <2> DEFINE e == st[j][F[m]]
             G == [i \in 0..j |-> IF i = j THEN e ELSE F[i]]
  <2>3. e \in Place[j]
    BY <2>1, <2>2 DEF Leads
  <2> HIDE DEF e
  <2>4. G = [i \in 0..j |-> G[i]] /\ G[0] = start
    BY <2>1, <2>2
  <2>5. ASSUME NEW i \in 0..j PROVE G[i] \in Place[i]
    BY <2>1, <2>2, <2>3
  <2>6. ASSUME NEW i \in 1..j PROVE G[i] = st[i][G[i - 1]]
    <3>1. i - 1 \in 0..j /\ i - 1 # j /\ i \in 0..j
      BY <2>2
    <3>2. G[i - 1] = F[i - 1] /\ G[i] = IF i = j THEN e ELSE F[i]
      BY <3>1
    <3>3. i # j => i \in 1..m
      BY <2>2
    <3> QED BY <2>1, <2>2, <3>2, <3>3 DEF e
  <2> QED BY <2>2, <2>4, <2>5, <2>6
<1>3. n \in T
  <2> HIDE DEF T
  <2>1. Nat \subseteq T
    BY <1>1, <1>2, NatInduct
  <2> QED BY <2>1
<1>4. PICK F : Follows(F, n)
  BY <1>3
<1>5. \A k \in 1..n : k - 1 \in 0..n
  OBVIOUS
<1>6. F \in [0..n -> S]
  BY <1>4
<1> QED BY <1>4, <1>5, <1>6 DEF Steps, Runs

(* and any function that follows the steps is in its place throughout.      *)
LEMMA LoopStays ==
  ASSUME NEW n \in Nat, NEW Place, NEW st, NEW C, C[0] \in Place[0],
         Leads(n, Place, st),
         \A k \in 1..n : C[k - 1] \in Place[k - 1] => C[k] = st[k][C[k - 1]]
  PROVE  C[n] \in Place[n]
<1> DEFINE U == {m \in Nat : m <= n => C[m] \in Place[m]}
<1>1. 0 \in U
  OBVIOUS
<1>2. ASSUME NEW m \in Nat, m \in U PROVE m + 1 \in U
  <2> SUFFICES ASSUME m + 1 <= n PROVE C[m + 1] \in Place[m + 1]
    OBVIOUS
  <2>1. PICK j \in 1..n : j = m + 1 /\ j - 1 = m
    OBVIOUS
  <2> QED BY <1>2, <2>1 DEF Leads
<1> HIDE DEF U
<1>3. Nat \subseteq U
  BY <1>1, <1>2, NatInduct
<1> QED BY <1>3 DEF U

(* A mark set or taken away where it was not, or was, is one more or one    *)
(* less of those counted.                                                   *)
LEMMA OneCounted ==
  ASSUME NEW A, NEW B, NEW i, IsFiniteSet(A), NEW mark \in BOOLEAN, NEW counts \in BOOLEAN,
         i \in A <=> counts /\ ~mark, i \in B <=> counts /\ mark,
         \A j : j # i => (j \in A <=> j \in B)
  PROVE  /\ IsFiniteSet(B) /\ Cardinality(A) \in Nat
         /\ Cardinality(B) = IF counts THEN Cardinality(A) + (IF mark THEN 1 ELSE -1)
                             ELSE Cardinality(A)
<1>1. Cardinality(A) \in Nat
  BY FS_CardinalityType
<1>2. CASE ~counts
  <2>1. B = A
    BY <1>2
  <2> QED BY <1>1, <1>2, <2>1
<1>3. CASE counts /\ mark
  <2>1. B = A \cup {i} /\ i \notin A
    BY <1>3
  <2> QED BY <1>1, <1>3, <2>1, FS_AddElement
<1>4. CASE counts /\ ~mark
  <2>1. B = A \ {i} /\ i \in A
    BY <1>4
  <2> QED BY <1>1, <1>4, <2>1, FS_RemoveElement
<1> QED BY <1>2, <1>3, <1>4

-----------------------------------------------------------------------------
(* Marks.                                                                   *)
SameFiles(a, b) ==
  /\ Len(b) = Len(a)
  /\ \A i \in DOMAIN a : /\ b[i].name = a[i].name /\ b[i].dir = a[i].dir
                         /\ b[i].size = a[i].size /\ b[i].computed = a[i].computed

OnlyMarks(q, r) ==
  /\ r \in Panels /\ SameFiles(q.list, r.list)
  /\ \A i \in DOMAIN r.list : r.list[i].marked => r.list[i].name # DotDot
  /\ r.selected = q.selected /\ r.top_file = q.top_file /\ r.items = q.items
  /\ r.reverse = q.reverse /\ r.is_panelized = q.is_panelized /\ r.stale = q.stale

LEMMA ListDomain ==
  ASSUME NEW q \in Panels
  PROVE  /\ Len(q.list) \in Nat /\ DOMAIN q.list = 1..Len(q.list) /\ q.list \in Seq(Entries)
         /\ \A i \in DOMAIN q.list : q.list[i] \in Entries
<1>1. q.list \in Seq(Entries)
  BY DEF Panels
<1> QED BY <1>1, LenProperties, ElementOfSeq

LEMMA OnlyMarksOK ==
  ASSUME NEW q, NEW r, ListOK(q), OnlyMarks(q, r)
  PROVE  /\ ListOK(r) /\ (Shown(q) => Shown(r)) /\ DOMAIN r.list = DOMAIN q.list
         /\ Listed(r) = Listed(q)
<1>1. q \in Panels /\ r \in Panels
  BY DEF ListOK, OnlyMarks
<1>2. DOMAIN r.list = DOMAIN q.list /\ Len(r.list) = Len(q.list)
  BY <1>1, ListDomain DEF OnlyMarks, SameFiles
<1>3. \A i \in DOMAIN q.list : r.list[i].name = q.list[i].name
  BY DEF OnlyMarks, SameFiles
<1>4. FilesOK(r.list)
  BY <1>1, <1>2, <1>3, ListDomain DEF ListOK, FilesOK, OnlyMarks
<1>5. Shown(q) => Shown(r)
  BY <1>2 DEF Shown, OnlyMarks
<1>6. Listed(r) = Listed(q)
  BY <1>2, <1>3 DEF Listed, Range
<1> QED BY <1>1, <1>2, <1>4, <1>5, <1>6 DEF ListOK

LEMMA OnlyMarksTransitive ==
  ASSUME NEW q, NEW r, NEW s, OnlyMarks(q, r), OnlyMarks(r, s)
  PROVE  q \in Panels => OnlyMarks(q, s)
<1> SUFFICES ASSUME q \in Panels PROVE OnlyMarks(q, s)
  OBVIOUS
<1>1. DOMAIN r.list = DOMAIN q.list
  BY ListDomain DEF OnlyMarks, SameFiles
<1> QED BY <1>1 DEF OnlyMarks, SameFiles

(* What is counted is counted of a finite list.                             *)
LEMMA CountsAreFinite ==
  ASSUME NEW q \in Panels
  PROVE  /\ IsFiniteSet(MarkedAt(q)) /\ IsFiniteSet({i \in MarkedAt(q) : q.list[i].dir})
         /\ \A w : IsFiniteSet(Weighing(q, w))
<1>1. IsFiniteSet(DOMAIN q.list)
  BY ListDomain, FS_Interval
<1>2. \A T : T \subseteq DOMAIN q.list => IsFiniteSet(T)
  BY <1>1, FS_Subset
<1> QED BY <1>2 DEF MarkedAt, Weighing

LEMMA MarkDoes ==
  ASSUME NEW q, ListOK(q), NEW i \in DOMAIN q.list, NEW mark \in BOOLEAN,
         NEW r, r = do_file_mark(q, i, mark)
  PROVE  /\ OnlyMarks(q, r)
         /\ \A j \in DOMAIN q.list :
              r.list[j].marked = IF j = i /\ q.list[j].name # DotDot THEN mark
                                 ELSE q.list[j].marked
         /\ Tally(q) => Tally(r)
<1> DEFINE e == q.list[i]
           sign == IF mark THEN 1 ELSE -1
           l == [q.list EXCEPT ![i].marked = mark]
<1>1. q \in Panels /\ q.list \in Seq(Entries) /\ e \in Entries /\ (e.marked => e.name # DotDot)
  BY ListDomain DEF ListOK, FilesOK
<1>2. CASE e.marked = mark \/ e.name = DotDot
  <2>1. r = q
    BY <1>2 DEF do_file_mark
  <2>2. OnlyMarks(q, q)
    BY <1>1 DEF OnlyMarks, SameFiles, ListOK, FilesOK
  <2> QED BY <1>1, <1>2, <2>1, <2>2
<1>3. CASE e.marked # mark /\ e.name # DotDot
  <2>1. r = [q EXCEPT !.list = l, !.marked = @ + sign,
                      !.dirs_marked = IF e.dir THEN @ + sign ELSE @,
                      !.total = @ + sign * Weight(e)]
    <3>1. r = [q EXCEPT !.list[i].marked = mark, !.marked = @ + sign,
                      !.dirs_marked = IF e.dir THEN @ + sign ELSE @,
                      !.total = @ + sign * Weight(e)]
      BY <1>3 DEF do_file_mark
    <3> QED BY <1>1, <3>1 DEF Panels
  <2>2. /\ e.marked = ~mark /\ e.dir \in BOOLEAN
        /\ Weight(e) \in {0, FileSize, TreeSize} /\ sign \in Int
    BY <1>1, <1>3 DEF Entries, Weight
  <2>3. /\ l \in Seq(Entries) /\ Len(l) = Len(q.list) /\ DOMAIN l = DOMAIN q.list
        /\ \A j \in DOMAIN q.list : l[j] = IF j = i THEN [e EXCEPT !.marked = mark] ELSE q.list[j]
    <3>1. [e EXCEPT !.marked = mark] \in Entries
      BY <1>1 DEF Entries
    <3>2. l = [q.list EXCEPT ![i] = [e EXCEPT !.marked = mark]]
      OBVIOUS
    <3> HIDE DEF e, l
    <3> QED BY <1>1, <3>1, <3>2, ExceptSeq
  <2>4. /\ [e EXCEPT !.marked = mark].name = e.name /\ [e EXCEPT !.marked = mark].dir = e.dir
        /\ [e EXCEPT !.marked = mark].size = e.size
        /\ [e EXCEPT !.marked = mark].computed = e.computed
        /\ [e EXCEPT !.marked = mark].marked = mark
    BY <1>1 DEF Entries
  <2>5. \A j \in DOMAIN q.list :
          /\ l[j].name = q.list[j].name /\ l[j].dir = q.list[j].dir
          /\ l[j].size = q.list[j].size /\ l[j].computed = q.list[j].computed
          /\ l[j].marked = IF j = i THEN mark ELSE q.list[j].marked
    BY <2>3, <2>4
  <2> HIDE DEF l
  <2>6. /\ r.list = l /\ r.marked = q.marked + sign
        /\ r.dirs_marked = IF e.dir THEN q.dirs_marked + sign ELSE q.dirs_marked
        /\ r.total = q.total + sign * Weight(e)
        /\ r.selected = q.selected /\ r.top_file = q.top_file /\ r.items = q.items
        /\ r.reverse = q.reverse /\ r.is_panelized = q.is_panelized /\ r.stale = q.stale
    BY <1>1, <2>1 DEF Panels
  <2>7. r \in Panels
    <3>1. q.marked \in Int /\ q.dirs_marked \in Int /\ q.total \in Int
      BY <1>1 DEF Panels
    <3>2. sign * Weight(e) \in Int
      BY <2>2 DEF FileSize, TreeSize
    <3>3. /\ q.marked + sign \in Int /\ q.total + sign * Weight(e) \in Int
          /\ (IF e.dir THEN q.dirs_marked + sign ELSE q.dirs_marked) \in Int
      <4> HIDE DEF e, sign
      <4> DEFINE w == sign * Weight(e)
      <4> HIDE DEF w
      <4>1. w \in Int
        BY <3>2 DEF w
      <4>2. q.total + w \in Int
        BY <4>1, <3>1
      <4> QED BY <3>1, <2>2, <4>2 DEF w
    <3> HIDE DEF e, sign
    <3> QED BY <1>1, <2>1, <2>3, <3>3 DEF Panels
  <2>8. OnlyMarks(q, r)
    BY <1>1, <1>3, <2>3, <2>5, <2>6, <2>7 DEF OnlyMarks, SameFiles, ListOK, FilesOK
  <2>9. ASSUME Tally(q) PROVE Tally(r)
    <3>1. \A j : j # i => (j \in MarkedAt(q) <=> j \in MarkedAt(r))
      BY <2>3, <2>5, <2>6 DEF MarkedAt
    <3>2. (i \in MarkedAt(q) <=> ~mark) /\ (i \in MarkedAt(r) <=> mark)
      BY <2>2, <2>3, <2>5, <2>6 DEF MarkedAt
    <3>3. \A j \in DOMAIN q.list : r.list[j].dir = q.list[j].dir /\ Weight(r.list[j]) = Weight(q.list[j])
      BY <2>5, <2>6 DEF Weight
    <3>4. MarkedAt(q) \subseteq DOMAIN q.list /\ MarkedAt(r) \subseteq DOMAIN q.list
      BY <2>3, <2>6 DEF MarkedAt
    <3>5. Cardinality(MarkedAt(r)) = Cardinality(MarkedAt(q)) + sign
      BY <1>1, <3>1, <3>2, OneCounted, CountsAreFinite
    <3> DEFINE Da == {j \in MarkedAt(q) : q.list[j].dir}
               Db == {j \in MarkedAt(r) : r.list[j].dir}
    <3>6. Cardinality(Db) = IF e.dir THEN Cardinality(Da) + sign ELSE Cardinality(Da)
      <4>1. (i \in Da <=> e.dir /\ ~mark) /\ (i \in Db <=> e.dir /\ mark)
        BY <3>2, <3>3, <3>4
      <4>2. \A j : j # i => (j \in Da <=> j \in Db)
        BY <3>1, <3>3, <3>4
      <4>3. IsFiniteSet(Da)
        BY <1>1, CountsAreFinite
      <4> HIDE DEF Da, Db
      <4> QED BY <2>2, <4>1, <4>2, <4>3, OneCounted
    <3>7. ASSUME NEW w
          PROVE  /\ Cardinality(Weighing(q, w)) \in Nat
                 /\ Cardinality(Weighing(r, w)) =
                      IF Weight(e) = w THEN Cardinality(Weighing(q, w)) + sign
                      ELSE Cardinality(Weighing(q, w))
      <4>1. /\ i \in Weighing(q, w) <=> Weight(e) = w /\ ~mark
            /\ i \in Weighing(r, w) <=> Weight(e) = w /\ mark
        BY <3>2, <3>3, <3>4 DEF Weighing
      <4>2. \A j : j # i => (j \in Weighing(q, w) <=> j \in Weighing(r, w))
        BY <3>1, <3>3, <3>4 DEF Weighing
      <4>3. IsFiniteSet(Weighing(q, w))
        BY <1>1, CountsAreFinite
      <4> DEFINE c == Weight(e) = w
      <4>4. c \in BOOLEAN
        OBVIOUS
      <4> HIDE DEF c
      <4>5. (i \in Weighing(q, w) <=> c /\ ~mark) /\ (i \in Weighing(r, w) <=> c /\ mark)
        BY <4>1 DEF c
      <4>6. /\ Cardinality(Weighing(q, w)) \in Nat
            /\ Cardinality(Weighing(r, w)) =
                 IF c THEN Cardinality(Weighing(q, w)) + sign ELSE Cardinality(Weighing(q, w))
        BY <4>2, <4>3, <4>4, <4>5, OneCounted
      <4> QED BY <4>6 DEF c
    <3>8. r.total = FileSize * Cardinality(Weighing(r, FileSize))
                    + TreeSize * Cardinality(Weighing(r, TreeSize))
      <4> DEFINE f == Cardinality(Weighing(q, FileSize))
                 t == Cardinality(Weighing(q, TreeSize))
                 ff == Cardinality(Weighing(r, FileSize))
                 tt == Cardinality(Weighing(r, TreeSize))
                 w == Weight(e)
      <4>1. f \in Nat /\ t \in Nat /\ ff = (IF w = FileSize THEN f + sign ELSE f)
            /\ tt = (IF w = TreeSize THEN t + sign ELSE t)
        BY <3>7
      <4>2. q.total = FileSize * f + TreeSize * t /\ r.total = q.total + sign * w
        BY <2>9, <2>6 DEF Tally
      <4>3. w \in {0, 1, 3} /\ sign \in {1, -1}
        BY <2>2 DEF FileSize, TreeSize
      <4> HIDE DEF f, t, ff, tt, w, sign, e
      <4>4. r.total = FileSize * ff + TreeSize * tt
        BY <4>1, <4>2, <4>3 DEF FileSize, TreeSize
      <4> QED BY <4>4 DEF ff, tt
    <3> QED BY <2>9, <2>6, <3>5, <3>6, <3>8 DEF Tally
  <2>10. \A j \in DOMAIN q.list :
           r.list[j].marked = IF j = i /\ q.list[j].name # DotDot THEN mark
                              ELSE q.list[j].marked
    BY <1>3, <2>5, <2>6
  <2> QED BY <2>8, <2>9, <2>10
<1> QED BY <1>2, <1>3

(* A loop that marks: each entry it names has its mark, the others theirs.  *)
LEMMA MarkEachDoes ==
  ASSUME NEW q, ListOK(q), NEW S \in SUBSET DOMAIN q.list, NEW marks \in [S -> BOOLEAN],
         NEW r, r = MarkEach(q, marks)
  PROVE  /\ OnlyMarks(q, r)
         /\ \A j \in DOMAIN q.list :
              r.list[j].marked = IF j \in S /\ q.list[j].name # DotDot THEN marks[j]
                                 ELSE q.list[j].marked
         /\ Tally(q) => Tally(r)
<1> DEFINE n == Len(q.list)
           D(v, i) == IF i \in S THEN do_file_mark(v, i, marks[i]) ELSE v
           R(f) == [i \in 0..n |-> IF i = 0 THEN q ELSE D(f[i - 1], i)]
           C == CHOOSE f : f = R(f)
           So(k, v) == /\ OnlyMarks(q, v)
                       /\ \A j \in DOMAIN q.list :
                            v.list[j].marked =
                              IF j <= k /\ j \in S /\ q.list[j].name # DotDot THEN marks[j]
                              ELSE q.list[j].marked
                       /\ Tally(q) => Tally(v)
           Place == [k \in 0..n |-> {v \in Panels : So(k, v)}]
           st == [k \in 1..n |-> [v \in Panels |-> D(v, k)]]
<1>1. q \in Panels /\ n \in Nat /\ DOMAIN q.list = 1..n
  BY ListDomain DEF ListOK
<1>2. r = C[n]
  <2>1. DOMAIN marks = S
    OBVIOUS
  <2> QED BY <2>1 DEF MarkEach
<1> HIDE DEF n
<1>3. q \in Place[0]
  <2>1. OnlyMarks(q, q)
    BY <1>1 DEF OnlyMarks, SameFiles, ListOK, FilesOK
  <2>2. So(0, q)
    BY <1>1, <2>1
  <2> QED BY <1>1, <2>2
<1>4. ASSUME NEW k \in 1..n, NEW v \in Panels, So(k - 1, v) PROVE D(v, k) \in Panels /\ So(k, D(v, k))
  <2>1. ListOK(v) /\ DOMAIN v.list = DOMAIN q.list
    BY <1>4, OnlyMarksOK
  <2>2. \A j \in DOMAIN q.list : j <= k <=> (j <= k - 1 \/ j = k)
    BY <1>1
  <2>3. CASE k \in S
    <3> DEFINE w == do_file_mark(v, k, marks[k])
    <3>1. marks[k] \in BOOLEAN /\ k \in DOMAIN v.list
      BY <1>1, <2>1, <2>3
    <3>2. /\ OnlyMarks(v, w)
          /\ \A j \in DOMAIN v.list :
               w.list[j].marked = IF j = k /\ v.list[j].name # DotDot THEN marks[k]
                                  ELSE v.list[j].marked
          /\ Tally(v) => Tally(w)
      <4> HIDE DEF So
      <4> QED BY <2>1, <3>1, MarkDoes
    <3> HIDE DEF w
    <3>3. OnlyMarks(q, w)
      BY <1>1, <1>4, <3>2, OnlyMarksTransitive
    <3>4. \A j \in DOMAIN q.list : v.list[j].name = q.list[j].name
      BY <1>4 DEF OnlyMarks, SameFiles
    <3>5. So(k, w)
      BY <1>1, <1>4, <2>1, <2>2, <2>3, <3>2, <3>3, <3>4
    <3>6. D(v, k) = w
      BY <2>3 DEF w
    <3> QED BY <3>3, <3>5, <3>6 DEF OnlyMarks
  <2>4. CASE k \notin S
    <3>1. D(v, k) = v
      BY <2>4
    <3> QED BY <1>1, <1>4, <2>2, <2>4, <3>1
  <2> QED BY <2>3, <2>4
<1> HIDE DEF So, D
<1>5. /\ Place \in [0..n -> SUBSET Panels]
      /\ \A k \in 0..n : \A v : v \in Place[k] <=> v \in Panels /\ So(k, v)
      /\ \A k \in 1..n : k - 1 \in 0..n /\ k \in 0..n /\ \A v \in Panels : st[k][v] = D(v, k)
  BY <1>1
<1> HIDE DEF Place, st
<1>6. Leads(n, Place, st)
  BY <1>4, <1>5 DEF Leads
<1>7. C = R(C)
  <2>1. PICK F \in [0..n -> Panels] : F[0] = q /\ Steps(F, n, Place, st)
    <3>1. n \in Nat /\ Place \in [0..n -> SUBSET Panels]
      BY <1>1, <1>5
    <3>2. Runs(n, Panels, Place, st, q)
      BY <1>3, <1>6, <3>1, LoopRuns
    <3> QED BY <3>2 DEF Runs
  <2>2. \A k \in 1..n : F[k] = D(F[k - 1], k)
    BY <1>5, <2>1 DEF Steps
  <2>3. \A k \in 0..n : k = 0 \/ k \in 1..n
    BY <1>1
  <2>4. F = R(F)
    BY <2>1, <2>2, <2>3
  <2> HIDE DEF R
  <2> QED BY <2>4
<1>8. C[0] = q /\ \A k \in 1..n : C[k] = D(C[k - 1], k)
  <2> HIDE DEF C
  <2> QED BY <1>1, <1>7
<1> HIDE DEF C
<1>9. C[n] \in Place[n]
  <2>1. \A k \in 1..n : C[k - 1] \in Place[k - 1] => C[k] = st[k][C[k - 1]]
    BY <1>5, <1>8
  <2> QED BY <1>1, <1>3, <1>6, <1>8, <2>1, LoopStays
<1>10. So(n, r)
  BY <1>1, <1>2, <1>5, <1>9
<1> QED BY <1>1, <1>10 DEF So

LEMMA MarkAllDoes ==
  ASSUME NEW q, ListOK(q), NEW S \in SUBSET DOMAIN q.list, NEW mark \in BOOLEAN,
         NEW r, r = MarkAll(q, S, mark)
  PROVE  /\ OnlyMarks(q, r)
         /\ \A j \in DOMAIN q.list :
              r.list[j].marked = IF j \in S /\ q.list[j].name # DotDot THEN mark
                                 ELSE q.list[j].marked
         /\ Tally(q) => Tally(r)
<1> DEFINE marks == [i \in S |-> mark]
<1>1. marks \in [S -> BOOLEAN] /\ r = MarkEach(q, marks)
  BY DEF MarkAll
<1>2. \A j \in S : marks[j] = mark
  OBVIOUS
<1> HIDE DEF marks
<1> QED BY <1>1, <1>2, MarkEachDoes

LEMMA InvertDoes ==
  ASSUME NEW q, ListOK(q), NEW files_only \in BOOLEAN,
         NEW r, r = panel_select_invert_files(q, files_only)
  PROVE  OnlyMarks(q, r) /\ (Tally(q) => Tally(r))
<1> DEFINE S == {i \in DOMAIN q.list : ~(files_only /\ q.list[i].dir)}
           marks == [i \in S |-> ~q.list[i].marked]
<1>1. \A i \in DOMAIN q.list : (~q.list[i].marked) \in BOOLEAN
  OBVIOUS
<1>2. marks \in [S -> BOOLEAN] /\ r = MarkEach(q, marks) /\ S \in SUBSET DOMAIN q.list
  BY <1>1 DEF panel_select_invert_files
<1> HIDE DEF marks, S
<1> QED BY <1>2, MarkEachDoes

(* Nothing marked, and nothing counted.                                     *)
LEMMA NothingTallied ==
  ASSUME NEW q, q.marked = 0, q.dirs_marked = 0, q.total = 0, MarkedAt(q) = {}
  PROVE  Tally(q)
<1>1. \A w : Weighing(q, w) = {}
  BY DEF Weighing
<1>2. {i \in MarkedAt(q) : q.list[i].dir} = {}
  OBVIOUS
<1> QED BY <1>1, <1>2, FS_EmptySet DEF Tally, FileSize, TreeSize

(* And the other way about.                                                 *)
LEMMA NothingMarked ==
  ASSUME NEW q \in Panels, Tally(q)
  PROVE  /\ q.marked = 0 <=> MarkedAt(q) = {}
         /\ q.marked = 0 => q.dirs_marked = 0 /\ q.total = 0
         /\ q.marked \in Nat
<1>1. IsFiniteSet(MarkedAt(q)) /\ q.marked = Cardinality(MarkedAt(q))
  BY CountsAreFinite DEF Tally
<1>2. (q.marked = 0 <=> MarkedAt(q) = {}) /\ q.marked \in Nat
  BY <1>1, FS_EmptySet, FS_CardinalityType
<1>3. ASSUME MarkedAt(q) = {} PROVE q.dirs_marked = 0 /\ q.total = 0
  <2>1. \A w : Weighing(q, w) = {}
    BY <1>3 DEF Weighing
  <2>2. {i \in MarkedAt(q) : q.list[i].dir} = {}
    BY <1>3
  <2>3. q.dirs_marked = 0
    BY <2>2, FS_EmptySet DEF Tally
  <2>4. q.total = FileSize * 0 + TreeSize * 0
    <3>1. Cardinality(Weighing(q, FileSize)) = 0 /\ Cardinality(Weighing(q, TreeSize)) = 0
      BY <2>1, FS_EmptySet
    <3> QED BY <3>1 DEF Tally
  <2> QED BY <2>3, <2>4 DEF FileSize, TreeSize
<1> QED BY <1>2, <1>3

LEMMA UnmarkedDoes ==
  ASSUME NEW q, ListOK(q), NEW r, r = Unmarked(q)
  PROVE  OnlyMarks(q, r) /\ MarkedAt(r) = {} /\ Tally(r)
<1> DEFINE l == [i \in DOMAIN q.list |-> [q.list[i] EXCEPT !.marked = FALSE]]
<1>1. q \in Panels /\ DOMAIN q.list = 1..Len(q.list) /\ Len(q.list) \in Nat
  BY ListDomain DEF ListOK
<1>2. ASSUME NEW i \in DOMAIN q.list
      PROVE  /\ l[i] \in Entries /\ l[i].name = q.list[i].name /\ l[i].dir = q.list[i].dir
             /\ l[i].size = q.list[i].size /\ l[i].computed = q.list[i].computed
             /\ l[i].marked = FALSE
  <2>1. q.list[i] \in Entries
    BY <1>1, ListDomain
  <2> QED BY <2>1 DEF Entries
<1>3. l \in Seq(Entries) /\ Len(l) = Len(q.list) /\ DOMAIN l = DOMAIN q.list
  <2>1. l \in [1..Len(q.list) -> Entries]
    <3>1. l = [i \in 1..Len(q.list) |-> l[i]]
      BY <1>1
    <3> HIDE DEF l
    <3> QED BY <1>1, <1>2, <3>1
  <2> HIDE DEF l
  <2>2. l \in Seq(Entries)
    BY <1>1, <2>1, SeqDef
  <2> QED BY <1>1, <2>1, <2>2, LenProperties
<1>4. r = [q EXCEPT !.list = l, !.marked = 0, !.dirs_marked = 0, !.total = 0]
  BY DEF Unmarked
<1> HIDE DEF l
<1>5. /\ r \in Panels /\ r.list = l /\ r.marked = 0 /\ r.dirs_marked = 0 /\ r.total = 0
      /\ r.selected = q.selected /\ r.top_file = q.top_file /\ r.items = q.items
      /\ r.reverse = q.reverse /\ r.is_panelized = q.is_panelized /\ r.stale = q.stale
  <2>1. /\ r.list = l /\ r.marked = 0 /\ r.dirs_marked = 0 /\ r.total = 0
        /\ r.selected = q.selected /\ r.top_file = q.top_file /\ r.items = q.items
        /\ r.reverse = q.reverse /\ r.is_panelized = q.is_panelized /\ r.stale = q.stale
    BY <1>1, <1>4 DEF Panels
  <2>2. r = [list |-> l, marked |-> 0, dirs_marked |-> 0, total |-> 0, selected |-> q.selected,
             top_file |-> q.top_file, items |-> q.items, reverse |-> q.reverse,
             is_panelized |-> q.is_panelized, stale |-> q.stale]
    BY <1>1, <1>4 DEF Panels
  <2>3. /\ q.selected \in Int /\ q.top_file \in Int /\ q.items \in Nat \ {0}
        /\ q.reverse \in BOOLEAN /\ q.is_panelized \in BOOLEAN /\ q.stale \in BOOLEAN
    BY <1>1 DEF Panels
  <2>4. r \in Panels
    BY <1>3, <2>2, <2>3 DEF Panels
  <2> QED BY <2>1, <2>4
<1>6. MarkedAt(r) = {}
  BY <1>2, <1>3, <1>5 DEF MarkedAt
<1>7. OnlyMarks(q, r)
  BY <1>1, <1>2, <1>3, <1>5 DEF OnlyMarks, SameFiles
<1> QED BY <1>5, <1>6, <1>7, NothingTallied

(* With FALSE for stale: the counts are true from now on.                   *)
LEMMA FreshDoes ==
  ASSUME NEW q, ListOK(q), NEW r, r = [q EXCEPT !.stale = FALSE]
  PROVE  /\ ListOK(r) /\ r.list = q.list /\ ~r.stale /\ (Tally(q) => Tally(r))
         /\ r.selected = q.selected /\ r.top_file = q.top_file /\ r.items = q.items
         /\ r.reverse = q.reverse /\ r.is_panelized = q.is_panelized
<1>1. q \in Panels
  BY DEF ListOK
<1>2. /\ r \in Panels /\ r.list = q.list /\ ~r.stale /\ r.marked = q.marked
      /\ r.dirs_marked = q.dirs_marked /\ r.total = q.total
      /\ r.selected = q.selected /\ r.top_file = q.top_file /\ r.items = q.items
      /\ r.reverse = q.reverse /\ r.is_panelized = q.is_panelized
  BY <1>1 DEF Panels
<1> QED BY <1>2 DEF ListOK, Tally, MarkedAt, Weighing

(* The counts are made true, and the marks stay.                            *)
LEMMA SummaryDoes ==
  ASSUME NEW q, ListOK(q), NEW r, r = recalculate_panel_summary(q)
  PROVE  /\ ListOK(r) /\ ~r.stale /\ Tally(r) /\ SameFiles(q.list, r.list)
         /\ DOMAIN r.list = DOMAIN q.list
         /\ \A i \in DOMAIN q.list : r.list[i].marked = q.list[i].marked
         /\ r.selected = q.selected /\ r.top_file = q.top_file /\ r.items = q.items
         /\ r.reverse = q.reverse
<1> DEFINE u == Unmarked(q)
           f == [u EXCEPT !.stale = FALSE]
           S == {i \in DOMAIN q.list : q.list[i].marked}
<1>1. OnlyMarks(q, u) /\ MarkedAt(u) = {} /\ Tally(u)
  BY UnmarkedDoes
<1> HIDE DEF u
<1>2. ListOK(u) /\ DOMAIN u.list = DOMAIN q.list
  BY <1>1, OnlyMarksOK
<1>3. /\ ListOK(f) /\ f.list = u.list /\ ~f.stale /\ Tally(f)
      /\ f.selected = u.selected /\ f.top_file = u.top_file /\ f.items = u.items
      /\ f.reverse = u.reverse
  BY <1>1, <1>2, FreshDoes
<1> HIDE DEF f
<1>4. r = MarkAll(f, S, TRUE)
  BY DEF recalculate_panel_summary, f, u
<1>5. S \in SUBSET DOMAIN f.list
  BY <1>2, <1>3
<1>6. /\ OnlyMarks(f, r) /\ Tally(r)
      /\ \A j \in DOMAIN f.list :
           r.list[j].marked = IF j \in S /\ f.list[j].name # DotDot THEN TRUE
                              ELSE f.list[j].marked
  <2> HIDE DEF S
  <2> QED BY ZenonT(60), <1>3, <1>4, <1>5, MarkAllDoes
<1>7. ListOK(r) /\ DOMAIN r.list = DOMAIN q.list
  BY <1>2, <1>3, <1>6, OnlyMarksOK
<1>8. \A i \in DOMAIN q.list : r.list[i].marked = q.list[i].marked
  <2>1. \A i \in DOMAIN q.list : ~u.list[i].marked
    BY <1>1, <1>2 DEF MarkedAt
  <2>2. \A i \in DOMAIN q.list : q.list[i].marked => f.list[i].name # DotDot
    BY <1>1, <1>2, <1>3 DEF ListOK, FilesOK, OnlyMarks, SameFiles
  <2>3. \A i \in DOMAIN q.list : q.list[i].marked \in BOOLEAN
    BY ListDomain DEF ListOK, Entries
  <2>4. ASSUME NEW i \in DOMAIN q.list PROVE r.list[i].marked = q.list[i].marked
    <3>1. r.list[i].marked = IF i \in S /\ f.list[i].name # DotDot THEN TRUE
                              ELSE f.list[i].marked
      BY <1>2, <1>3, <1>6
    <3>2. f.list[i].marked = FALSE
      <4>1. f.list[i].marked \in BOOLEAN
        BY <1>2, <1>3, ListDomain DEF ListOK, Entries
      <4> QED BY <1>3, <2>1, <4>1
    <3> QED BY <2>2, <2>3, <3>1, <3>2
  <2> QED BY <2>4
<1>9. SameFiles(q.list, r.list)
  BY <1>1, <1>2, <1>3, <1>6 DEF OnlyMarks, SameFiles
<1> QED BY <1>1, <1>3, <1>6, <1>7, <1>8, <1>9 DEF OnlyMarks

-----------------------------------------------------------------------------
(* The cursor.                                                              *)
OnlyCursor(q, r) ==
  /\ r \in Panels /\ r.list = q.list /\ r.marked = q.marked /\ r.dirs_marked = q.dirs_marked
  /\ r.total = q.total /\ r.reverse = q.reverse
  /\ r.is_panelized = q.is_panelized /\ r.stale = q.stale

LEMMA OnlyCursorOK ==
  ASSUME NEW q, NEW r, OnlyCursor(q, r)
  PROVE  /\ ListOK(q) => ListOK(r)
         /\ Tally(q) => Tally(r)
         /\ MarkedAt(r) = MarkedAt(q) /\ MarkedNames(r) = MarkedNames(q) /\ Listed(r) = Listed(q)
<1>1. r \in Panels /\ r.list = q.list
  BY DEF OnlyCursor
<1>2. MarkedAt(r) = MarkedAt(q) /\ MarkedNames(r) = MarkedNames(q) /\ Listed(r) = Listed(q)
  BY <1>1 DEF MarkedAt, MarkedNames, Listed
<1>3. \A w : Weighing(r, w) = Weighing(q, w)
  BY <1>1, <1>2 DEF Weighing
<1>4. {i \in MarkedAt(r) : r.list[i].dir} = {i \in MarkedAt(q) : q.list[i].dir}
  BY <1>1, <1>2
<1>5. Tally(q) => Tally(r)
  BY <1>2, <1>3, <1>4 DEF Tally, OnlyCursor
<1> QED BY <1>1, <1>2, <1>5 DEF ListOK

LEMMA OnlyCursorTransitive ==
  ASSUME NEW q, NEW r, NEW s, OnlyCursor(q, r), OnlyCursor(r, s)
  PROVE  OnlyCursor(q, s)
BY DEF OnlyCursor

LEMMA NotEmpty ==
  ASSUME NEW q, ListOK(q)
  PROVE  Len(q.list) \in Nat /\ Len(q.list) >= 1 /\ DOMAIN q.list = 1..Len(q.list) /\ q \in Panels
<1>1. q \in Panels /\ \E i \in DOMAIN q.list : TRUE
  BY DEF ListOK, FilesOK
<1> QED BY <1>1, ListDomain

LEMMA CursorType ==
  ASSUME NEW q \in Panels
  PROVE  q.selected \in Int /\ q.top_file \in Int /\ q.items \in Nat \ {0}
BY DEF Panels

(* Whatever the cursor and the top were, the cursor is shown after this;    *)
(* and it stays where it was if that is an entry.                           *)
LEMMA SelectDoes ==
  ASSUME NEW q \in Panels, Len(q.list) \in Nat, Len(q.list) >= 1, NEW r, r = adjust_top_file(q)
  PROVE  /\ OnlyCursor(q, r) /\ Shown(r) /\ r.items = q.items
         /\ q.selected \in 0..(Len(q.list) - 1) => r.selected = q.selected
<1> DEFINE len == Len(q.list)
           a == IF q.selected > len - 1 THEN len - 1 ELSE Greater(q.selected, 0)
           low == Greater(Greater(q.top_file, 0), a - q.items + 1)
           b == IF len <= q.items THEN 0 ELSE Lesser(Lesser(low, len - q.items), a)
<1>1. r = [q EXCEPT !.selected = a, !.top_file = b]
  BY DEF adjust_top_file
<1>2. q.selected \in Int /\ q.top_file \in Int /\ q.items \in Nat \ {0} /\ len \in Nat /\ len >= 1
  BY CursorType
<1> HIDE DEF len
<1>3. a \in 0..(len - 1) /\ (q.selected \in 0..(len - 1) => a = q.selected)
  BY <1>2 DEF Greater
<1> HIDE DEF a
<1>4. b \in Int /\ a - b \in 0..(q.items - 1) /\ b <= Greater(0, len - q.items)
  <2>1. low \in Int /\ low >= 0 /\ low >= a - q.items + 1
    BY <1>2, <1>3 DEF Greater
  <2> HIDE DEF low
  <2>2. CASE len <= q.items
    BY <1>2, <1>3, <2>2 DEF Greater
  <2>3. CASE len > q.items
    <3>1. /\ Lesser(low, len - q.items) \in Int /\ Lesser(low, len - q.items) <= len - q.items
          /\ Lesser(low, len - q.items) >= a - q.items + 1
      BY <1>2, <1>3, <2>1 DEF Lesser
    <3> DEFINE m == Lesser(low, len - q.items)
    <3> HIDE DEF m
    <3>2. b = Lesser(m, a)
      BY <1>2, <2>3 DEF m
    <3> HIDE DEF b
    <3>3. m \in Int /\ m <= len - q.items /\ m >= a - q.items + 1
      BY <3>1 DEF m
    <3> QED BY <1>2, <1>3, <3>2, <3>3, <2>3 DEF Lesser, Greater
  <2> QED BY <1>2, <2>2, <2>3
<1> HIDE DEF b
<1>5. OnlyCursor(q, r) /\ r.selected = a /\ r.top_file = b /\ r.items = q.items
  <2>1. a \in Int
    BY <1>2, <1>3
  <2>2. r \in Panels
    BY <1>1, <1>4, <2>1 DEF Panels
  <2> QED BY <1>1, <2>2 DEF Panels, OnlyCursor
<1>6. Len(r.list) = len
  BY <1>5 DEF OnlyCursor, len
<1>7. Shown(r)
  BY <1>3, <1>4, <1>5, <1>6 DEF Shown
<1> QED BY <1>3, <1>5, <1>7 DEF len

(* The cursor and the top are set to something, then this.                  *)
LEMMA PlaceDoes ==
  ASSUME NEW q, ListOK(q), NEW a \in Int, NEW b \in Int,
         NEW r, r = select_item([q EXCEPT !.selected = a, !.top_file = b])
  PROVE  /\ OnlyCursor(q, r) /\ Shown(r) /\ r.items = q.items
         /\ a \in 0..(Len(q.list) - 1) => r.selected = a
<1> DEFINE s == [q EXCEPT !.selected = a, !.top_file = b]
<1>1. OnlyCursor(q, s) /\ s.selected = a /\ s.items = q.items
  <2>1. q \in Panels
    BY NotEmpty
  <2> QED BY <2>1 DEF Panels, OnlyCursor
<1>2. r = adjust_top_file(s)
  BY DEF select_item
<1> HIDE DEF s
<1>3. s \in Panels /\ s.list = q.list /\ Len(s.list) \in Nat /\ Len(s.list) >= 1
  BY <1>1, NotEmpty DEF OnlyCursor
<1>4. /\ OnlyCursor(s, r) /\ Shown(r) /\ r.items = s.items
      /\ s.selected \in 0..(Len(s.list) - 1) => r.selected = s.selected
  BY <1>2, <1>3, SelectDoes
<1> QED BY <1>1, <1>3, <1>4, OnlyCursorTransitive

LEMMA MoveDoes ==
  ASSUME NEW q, ListOK(q), Shown(q), NEW scroll, NEW r,
         \/ r = move_down(q, scroll) \/ r = move_up(q, scroll)
         \/ r = prev_page(q) \/ r = next_page(q)
         \/ \E i \in Targets(q) : r = go_to(q, i)
  PROVE  OnlyCursor(q, r) /\ Shown(r)
<1>1. q \in Panels /\ Len(q.list) \in Nat /\ Len(q.list) >= 1
  BY NotEmpty
<1>2. q.selected \in Int /\ q.top_file \in Int /\ q.items \in Nat \ {0}
  BY <1>1, CursorType
<1>3. q.items \div 2 \in Int
  BY <1>2
<1>4. r = q \/ \E a, b \in Int : r = select_item([q EXCEPT !.selected = a, !.top_file = b])
  <2>1. CASE r = move_down(q, scroll)
    <3> DEFINE down == q.selected + 1
               top == CASE scroll = "pages" /\ down - q.top_file = q.items ->
                             Lesser(q.top_file + q.items \div 2, Len(q.list) - q.items)
                        [] scroll = "center" /\ down - q.top_file > q.items \div 2 ->
                             Lesser(q.top_file + 1, Len(q.list) - q.items)
                        [] OTHER -> q.top_file
    <3>1. r = IF down = Len(q.list) THEN q
              ELSE select_item([q EXCEPT !.selected = down, !.top_file = top])
      BY <2>1 DEF move_down
    <3>2. down \in Int /\ top \in Int
      <4> DEFINE half == q.items \div 2
      <4>1. half \in Int
        BY <1>3
      <4> HIDE DEF half
      <4> QED BY SMTT(60), <1>1, <1>2, <4>1 DEF Lesser
    <3> HIDE DEF down, top
    <3> QED BY <3>1, <3>2
  <2>2. CASE r = move_up(q, scroll)
    <3> DEFINE up == q.selected - 1
               top == CASE scroll = "pages" /\ up < q.top_file ->
                             Greater(q.top_file - q.items \div 2, 0)
                        [] scroll = "center" /\ up - q.top_file < q.items \div 2 ->
                             Greater(q.top_file - 1, 0)
                        [] OTHER -> q.top_file
    <3>1. r = IF q.selected = 0 THEN q
              ELSE select_item([q EXCEPT !.selected = up, !.top_file = top])
      BY <2>2 DEF move_up
    <3>2. up \in Int /\ top \in Int
      <4> DEFINE half == q.items \div 2
      <4>1. half \in Int
        BY <1>3
      <4> HIDE DEF half
      <4> QED BY <1>1, <1>2, <4>1 DEF Greater
    <3> HIDE DEF up, top
    <3> QED BY <3>1, <3>2
  <2>3. CASE r = prev_page(q)
    <3> DEFINE items == Lesser(q.items, q.top_file)
               a == IF items = 0 THEN 0 ELSE q.selected - items
               b == q.top_file - items
    <3>1. r = IF q.selected = 0 /\ q.top_file = 0 THEN q
              ELSE select_item([q EXCEPT !.selected = a, !.top_file = b])
      BY <1>1, <2>3 DEF prev_page, Panels
    <3>2. a \in Int /\ b \in Int
      BY <1>2 DEF Lesser
    <3> HIDE DEF a, b
    <3> QED BY <3>1, <3>2
  <2>4. CASE r = next_page(q)
    <3> DEFINE len == Len(q.list)
               most == IF q.top_file > len - 2 * q.items THEN len - q.items - q.top_file
                       ELSE q.items
               items == Greater(most, -q.top_file)
               a == IF items = 0 THEN len - 1 ELSE q.selected + items
               b == q.top_file + items
    <3>1. r = IF q.selected = len - 1 THEN q
              ELSE select_item([q EXCEPT !.selected = a, !.top_file = b])
      BY <1>1, <2>4 DEF next_page, Panels
    <3>2. a \in Int /\ b \in Int
      <4>1. most \in Int
        BY <1>1, <1>2
      <4> HIDE DEF most
      <4>2. items \in Int
        BY <1>1, <1>2, <4>1 DEF Greater
      <4> HIDE DEF items
      <4> QED BY <1>1, <1>2, <4>2
    <3> HIDE DEF a, b
    <3> QED BY <3>1, <3>2
  <2>5. ASSUME NEW i \in Targets(q), r = go_to(q, i)
        PROVE  \E a, b \in Int : r = select_item([q EXCEPT !.selected = a, !.top_file = b])
    <3>1. i \in Int
      BY <1>1, <1>2 DEF Targets
    <3>2. [q EXCEPT !.selected = i] = [q EXCEPT !.selected = i, !.top_file = q.top_file]
      BY <1>1 DEF Panels
    <3> QED BY <1>2, <2>5, <3>1, <3>2 DEF go_to
  <2> QED BY <2>1, <2>2, <2>3, <2>4, <2>5
<1>5. CASE r = q
  BY <1>1, <1>5 DEF OnlyCursor
<1>6. ASSUME NEW a \in Int, NEW b \in Int,
             r = select_item([q EXCEPT !.selected = a, !.top_file = b])
      PROVE  OnlyCursor(q, r) /\ Shown(r)
  BY <1>6, PlaceDoes
<1> QED BY <1>4, <1>5, <1>6

(* A name that is listed has a place; in a list with distinct names, one.   *)
LEMMA IndexIs ==
  ASSUME NEW q, NEW n \in Listed(q), q.list \in Seq(Entries)
  PROVE  /\ IndexOf(q, n) \in 0..(Len(q.list) - 1)
         /\ q.list[IndexOf(q, n) + 1].name = n
<1> DEFINE i == CHOOSE j \in DOMAIN q.list : q.list[j].name = n
<1>1. \E j \in DOMAIN q.list : q.list[j].name = n
  BY DEF Listed, Range
<1>2. i \in DOMAIN q.list /\ q.list[i].name = n
  BY <1>1
<1>3. IndexOf(q, n) = i - 1
  BY DEF IndexOf
<1> HIDE DEF i
<1>4. DOMAIN q.list = 1..Len(q.list) /\ Len(q.list) \in Nat
  BY LenProperties
<1>5. i \in Int /\ i - 1 + 1 = i /\ i - 1 \in 0..(Len(q.list) - 1)
  BY <1>2, <1>4
<1> QED BY <1>2, <1>3, <1>5

(* The cursor goes to a name, if it is there.                               *)
LEMMA TrySelectDoes ==
  ASSUME NEW q, ListOK(q), NEW n \in Names \cup {DotDot, NoName}, NEW r, r = try_to_select(q, n)
  PROVE  OnlyCursor(q, r) /\ Shown(r) /\ r.items = q.items /\ (n \in Listed(q) => Cursor(r) = n)
<1> DEFINE half == (q.items + 1) \div 2
<1>1. q \in Panels /\ Len(q.list) \in Nat /\ Len(q.list) >= 1 /\ q.list \in Seq(Entries)
  BY NotEmpty, ListDomain
<1>2. q.selected \in Int /\ q.top_file \in Int /\ q.items \in Nat \ {0} /\ half \in Int
  BY <1>1, CursorType
<1>3. n = NoName => n \notin Listed(q)
  <2>1. \A i \in DOMAIN q.list : q.list[i].name \in Names \cup {DotDot}
    BY <1>1, ListDomain DEF Entries
  <2> QED BY <2>1, NamesAssumption DEF Listed, Range, NoName, DotDot
<1>4. \E a, b \in Int :
        /\ r = select_item([q EXCEPT !.selected = a, !.top_file = b])
        /\ n \in Listed(q) => a = IndexOf(q, n)
  <2>1. ASSUME NEW s, NEW i \in Int, s = do_select(q, i)
        PROVE  \E b \in Int : s = [q EXCEPT !.selected = i, !.top_file = b]
    <3>1. CASE i = q.selected
      <4>1. s = [q EXCEPT !.selected = i, !.top_file = q.top_file]
        BY <1>1, <2>1, <3>1 DEF do_select, Panels
      <4> QED BY <1>2, <4>1
    <3>2. CASE i # q.selected
      <4>1. Greater(i - half, 0) \in Int
        <5> HIDE DEF half
        <5> QED BY <1>2 DEF Greater
      <4>2. s = [q EXCEPT !.selected = i, !.top_file = Greater(i - half, 0)]
        BY <2>1, <3>2 DEF do_select
      <4> HIDE DEF half
      <4> QED BY <4>1, <4>2
    <3> QED BY <3>1, <3>2
  <2>2. CASE n = NoName
    <3>1. r = select_item(do_select(q, 0))
      BY <1>3, <2>2 DEF try_to_select, do_try_to_select
    <3>2. PICK i \in Int : i = 0
      OBVIOUS
    <3>3. PICK b \in Int : do_select(q, i) = [q EXCEPT !.selected = i, !.top_file = b]
      BY <2>1
    <3> QED BY <1>3, <2>2, <3>1, <3>2, <3>3
  <2>3. CASE n # NoName /\ n \in Listed(q)
    <3>1. r = select_item(do_select(q, IndexOf(q, n)))
      BY <2>3 DEF try_to_select, do_try_to_select
    <3>2. IndexOf(q, n) \in Int
      BY <1>1, <2>3, IndexIs
    <3> DEFINE i == IndexOf(q, n)
    <3>3. PICK b \in Int : do_select(q, i) = [q EXCEPT !.selected = i, !.top_file = b]
      BY <2>1, <3>2
    <3> HIDE DEF i
    <3>4. i \in Int /\ r = select_item([q EXCEPT !.selected = i, !.top_file = b])
      BY <3>1, <3>2, <3>3 DEF i
    <3> QED BY <3>4 DEF i
  <2>4. CASE n # NoName /\ n \notin Listed(q)
    <3>1. r = select_item(IF q.selected >= Len(q.list) THEN do_select(q, Len(q.list) - 1) ELSE q)
      BY <2>4 DEF try_to_select, do_try_to_select
    <3>2. Len(q.list) - 1 \in Int
      BY <1>1
    <3>3. q = [q EXCEPT !.selected = q.selected, !.top_file = q.top_file]
      BY <1>1 DEF Panels
    <3>4. CASE q.selected >= Len(q.list)
      <4> DEFINE i == Len(q.list) - 1
      <4>1. PICK b \in Int : do_select(q, i) = [q EXCEPT !.selected = i, !.top_file = b]
        BY <2>1, <3>2
      <4> HIDE DEF i
      <4>2. i \in Int /\ r = select_item([q EXCEPT !.selected = i, !.top_file = b])
        BY <3>1, <3>2, <3>4, <4>1 DEF i
      <4> QED BY <2>4, <4>2
    <3>5. CASE ~(q.selected >= Len(q.list))
      BY <1>2, <2>4, <3>1, <3>3, <3>5
    <3> QED BY <3>4, <3>5
  <2> QED BY <2>2, <2>3, <2>4
<1>5. PICK a \in Int, b \in Int :
        /\ r = select_item([q EXCEPT !.selected = a, !.top_file = b])
        /\ n \in Listed(q) => a = IndexOf(q, n)
  BY <1>4
<1>6. /\ OnlyCursor(q, r) /\ Shown(r) /\ r.items = q.items
      /\ a \in 0..(Len(q.list) - 1) => r.selected = a
  BY <1>5, PlaceDoes
<1>7. ASSUME n \in Listed(q) PROVE Cursor(r) = n
  <2>1. a = IndexOf(q, n) /\ a \in 0..(Len(q.list) - 1) /\ q.list[a + 1].name = n
    BY <1>1, <1>5, <1>7, IndexIs
  <2> QED BY <1>6, <2>1 DEF Cursor, OnlyCursor
<1> QED BY <1>6, <1>7

-----------------------------------------------------------------------------
(* The order.                                                               *)
LEMMA PrecedesOrders ==
  ASSUME NEW q, NEW a \in Nat, NEW b \in Nat
  PROVE  /\ a # b => Precedes(q, a, b) \/ Precedes(q, b, a)
         /\ ~Precedes(q, a, a)
         /\ \A c \in Nat : Precedes(q, a, b) /\ Precedes(q, b, c) => Precedes(q, a, c)
<1>1. CASE q.reverse
  BY <1>1 DEF Precedes, DotDot
<1>2. CASE ~q.reverse
  BY <1>2 DEF Precedes, DotDot
<1> QED BY <1>1, <1>2

Permutes(f, n) ==
  /\ f \in [1..n -> 1..n]
  /\ \A k, m \in 1..n : f[k] = f[m] => k = m
  /\ \A i \in 1..n : \E k \in 1..n : f[k] = i

(* As many in one list as in the other.                                     *)
LEMMA MovedCounts ==
  ASSUME NEW n \in Nat, NEW f, Permutes(f, n), NEW A \in SUBSET (1..n), NEW B \in SUBSET (1..n),
         \A k \in 1..n : k \in B <=> f[k] \in A
  PROVE  Cardinality(B) = Cardinality(A)
<1> DEFINE g == [k \in B |-> f[k]]
<1> USE DEF Permutes
<1>1. g \in [B -> A]
  OBVIOUS
<1>2. g \in Bijection(B, A)
  <2>1. \A k, m \in B : g[k] = g[m] => k = m
    OBVIOUS
  <2>2. \A i \in A : \E k \in B : g[k] = i
    OBVIOUS
  <2> HIDE DEF g
  <2> QED BY <1>1, <2>1, <2>2 DEF Bijection, Injection, Surjection, IsInjective
<1>3. IsFiniteSet(B)
  <2>1. IsFiniteSet(1..n)
    BY FS_Interval
  <2> QED BY <2>1, FS_Subset
<1> HIDE DEF g
<1>4. ExistsBijection(B, A)
  BY <1>2 DEF ExistsBijection
<1> QED BY <1>3, <1>4, FS_Bijection

(* An injection of a finite range into itself reaches all of it.            *)
LEMMA AllReached ==
  ASSUME NEW n \in Nat, NEW f \in [1..n -> 1..n], \A k, m \in 1..n : f[k] = f[m] => k = m
  PROVE  \A i \in 1..n : \E k \in 1..n : f[k] = i
<1>1. f \in Injection(1..n, 1..n)
  BY DEF Injection, IsInjective
<1>2. IsFiniteSet(1..n)
  BY FS_Interval
<1>3. f \in Surjection(1..n, 1..n)
  BY <1>1, <1>2, FS_Injection
<1> QED BY <1>3 DEF Surjection

(* Where the entries of a list go: each to one place, and one to each.      *)
From(q, n) ==
  [k \in 1..n |->
     CHOOSE i \in 1..n :
       Cardinality({j \in 1..n : Precedes(q, q.list[j].name, q.list[i].name)}) = k - 1]

LEMMA SortedFrom ==
  ASSUME NEW q, ListOK(q)
  PROVE  Permutes(From(q, Len(q.list)), Len(q.list))
<1> DEFINE n == Len(q.list)
           from == From(q, n)
           before(i) == {j \in 1..n : Precedes(q, q.list[j].name, q.list[i].name)}
           place == [i \in 1..n |-> Cardinality(before(i)) + 1]
<1>0. from = [k \in 1..n |-> CHOOSE i \in 1..n : Cardinality(before(i)) = k - 1]
  BY DEF From
<1>1. n \in Nat /\ DOMAIN q.list = 1..n /\ IsFiniteSet(1..n) /\ Cardinality(1..n) = n
  <2>1. n \in Nat /\ DOMAIN q.list = 1..n
    BY NotEmpty
  <2> QED BY <2>1, FS_Interval
<1> HIDE DEF n, from
<1>2. \A i \in 1..n : q.list[i].name \in Nat
  <2>1. \A i \in 1..n : q.list[i].name \in Names \cup {DotDot}
    BY <1>1, ListDomain DEF ListOK, Entries
  <2>2. \A x \in Names \cup {DotDot} : x \in Nat
    BY NamesAssumption DEF DotDot
  <2> QED BY <2>1, <2>2
<1>3. \A i, j \in 1..n : q.list[i].name = q.list[j].name => i = j
  BY <1>1 DEF ListOK, FilesOK
<1>4. ASSUME NEW i \in 1..n
      PROVE  /\ IsFiniteSet(before(i)) /\ Cardinality(before(i)) \in 0..(n - 1)
             /\ i \notin before(i)
  <2>1. i \notin before(i)
    BY <1>2, PrecedesOrders
  <2>2. before(i) \in SUBSET (1..n) /\ before(i) # 1..n
    BY <2>1
  <2> HIDE DEF before
  <2>3. /\ IsFiniteSet(before(i)) /\ Cardinality(before(i)) <= n
        /\ Cardinality(before(i)) # n
    BY <1>1, <2>2, FS_Subset
  <2>4. Cardinality(before(i)) \in Nat
    BY <2>3, FS_CardinalityType
  <2> QED BY <1>1, <2>1, <2>3, <2>4
<1>5. ASSUME NEW i \in 1..n, NEW j \in 1..n, Precedes(q, q.list[i].name, q.list[j].name)
      PROVE  Cardinality(before(i)) < Cardinality(before(j))
  <2>1. ASSUME NEW k \in before(i) PROVE k \in before(j)
    <3>1. /\ q.list[i].name \in Nat /\ q.list[j].name \in Nat /\ q.list[k].name \in Nat
          /\ k \in 1..n /\ Precedes(q, q.list[k].name, q.list[i].name)
      BY <1>2
    <3>2. Precedes(q, q.list[k].name, q.list[j].name)
      <4> DEFINE a == q.list[k].name
                 b == q.list[i].name
                 c == q.list[j].name
      <4>1. a \in Nat /\ b \in Nat /\ c \in Nat /\ Precedes(q, a, b) /\ Precedes(q, b, c)
        BY <1>5, <3>1
      <4> HIDE DEF a, b, c
      <4>2. Precedes(q, a, c)
        BY <4>1, PrecedesOrders
      <4> QED BY <4>2 DEF a, c
    <3> QED BY <3>1, <3>2
  <2>2. i \in before(j)
    BY <1>5
  <2>3. i \notin before(i) /\ IsFiniteSet(before(j))
    BY <1>4
  <2> HIDE DEF before
  <2>4. /\ Cardinality(before(i)) <= Cardinality(before(j))
        /\ Cardinality(before(j)) = Cardinality(before(i)) => before(j) = before(i)
    <3>1. before(i) \in SUBSET before(j)
      BY <2>1
    <3> QED BY <2>3, <3>1, FS_Subset
  <2>5. Cardinality(before(i)) \in Int /\ Cardinality(before(j)) \in Int
    BY <1>4
  <2> QED BY <2>2, <2>3, <2>4, <2>5
<1> HIDE DEF before
<1>6. place \in [1..n -> 1..n]
  BY <1>1, <1>4
<1>7. \A i, j \in 1..n : place[i] = place[j] => i = j
  <2> SUFFICES ASSUME NEW i \in 1..n, NEW j \in 1..n, i # j PROVE place[i] # place[j]
    OBVIOUS
  <2>1. Cardinality(before(i)) \in Int /\ Cardinality(before(j)) \in Int
    BY <1>4
  <2>2. \/ Precedes(q, q.list[i].name, q.list[j].name)
        \/ Precedes(q, q.list[j].name, q.list[i].name)
    <3>1. q.list[i].name \in Nat /\ q.list[j].name \in Nat /\ q.list[i].name # q.list[j].name
      BY <1>2, <1>3
    <3> DEFINE a == q.list[i].name
               b == q.list[j].name
    <3>2. a \in Nat /\ b \in Nat /\ a # b
      BY <3>1
    <3> HIDE DEF a, b
    <3>3. Precedes(q, a, b) \/ Precedes(q, b, a)
      BY <3>2, PrecedesOrders
    <3> QED BY <3>3 DEF a, b
  <2>3. Cardinality(before(i)) # Cardinality(before(j))
    BY <1>5, <2>1, <2>2
  <2> QED BY <2>1, <2>3
<1>8. \A k \in 1..n : \E i \in 1..n : place[i] = k
  <2> HIDE DEF place
  <2> QED BY <1>1, <1>6, <1>7, AllReached
<1>9. \A k \in 1..n : from[k] \in 1..n /\ place[from[k]] = k
  <2> SUFFICES ASSUME NEW k \in 1..n PROVE from[k] \in 1..n /\ place[from[k]] = k
    OBVIOUS
  <2>1. from[k] = CHOOSE i \in 1..n : Cardinality(before(i)) = k - 1
    BY <1>0
  <2>2. PICK i \in 1..n : place[i] = k
    BY <1>8
  <2>3. Cardinality(before(i)) = k - 1
    BY <1>4, <2>2
  <2>4. from[k] \in 1..n /\ Cardinality(before(from[k])) = k - 1
    BY <2>1, <2>3
  <2> QED BY <2>4
<1> HIDE DEF place
<1>10. from \in [1..n -> 1..n]
  <2>1. from = [k \in 1..n |-> from[k]]
    BY <1>0
  <2> QED BY <1>9, <2>1
<1>11. \A k, m \in 1..n : from[k] = from[m] => k = m
  BY <1>9
<1>12. \A i \in 1..n : \E k \in 1..n : from[k] = i
  BY <1>1, <1>10, <1>11, AllReached
<1> QED BY <1>10, <1>11, <1>12 DEF Permutes, n, from

(* Sorting moves entries, and nothing else.                                 *)
LEMMA SortDoes ==
  ASSUME NEW q, ListOK(q), NEW r, r = dir_list_sort(q)
  PROVE  /\ ListOK(r) /\ (Tally(q) => Tally(r)) /\ Len(r.list) = Len(q.list)
         /\ MarkedNames(r) = MarkedNames(q) /\ Listed(r) = Listed(q)
         /\ MarkedAt(q) = {} => MarkedAt(r) = {}
         /\ r.selected = q.selected /\ r.top_file = q.top_file /\ r.items = q.items
         /\ r.stale = q.stale
<1> DEFINE n == Len(q.list)
           from == From(q, n)
           l == [k \in 1..n |-> q.list[from[k]]]
<1>1. n \in Nat /\ DOMAIN q.list = 1..n /\ q \in Panels
  BY NotEmpty
<1>2. r = [q EXCEPT !.list = l]
  BY <1>1 DEF dir_list_sort, From
<1>3. Permutes(from, n)
  BY SortedFrom
<1> HIDE DEF from
<1>4. ASSUME NEW k \in 1..n PROVE l[k] = q.list[from[k]] /\ l[k] \in Entries
  BY <1>1, <1>3, ListDomain DEF Permutes
<1>5. l \in Seq(Entries) /\ Len(l) = n /\ DOMAIN l = 1..n
  <2>1. l \in [1..n -> Entries]
    BY <1>4
  <2> HIDE DEF l, n
  <2>2. l \in Seq(Entries)
    BY <1>1, <2>1, SeqDef
  <2> QED BY <1>1, <2>1, <2>2, LenProperties
<1> HIDE DEF l, n
<1>6. /\ r.list = l /\ r.selected = q.selected /\ r.top_file = q.top_file /\ r.items = q.items
      /\ r.stale = q.stale /\ r.marked = q.marked /\ r.dirs_marked = q.dirs_marked
      /\ r.total = q.total
  BY <1>1, <1>2 DEF Panels
<1>7. r \in Panels
  BY <1>1, <1>2, <1>5 DEF Panels
<1>8. FilesOK(l)
  <2>1. \A i, j \in 1..n : l[i].name = l[j].name => i = j
    <3>1. \A i, j \in 1..n : q.list[i].name = q.list[j].name => i = j
      BY <1>1 DEF ListOK, FilesOK
    <3> SUFFICES ASSUME NEW i \in 1..n, NEW j \in 1..n, l[i].name = l[j].name PROVE i = j
      OBVIOUS
    <3>2. from[i] \in 1..n /\ from[j] \in 1..n
      BY <1>3 DEF Permutes
    <3>3. q.list[from[i]].name = q.list[from[j]].name
      BY <1>4
    <3>4. from[i] = from[j]
      BY <3>1, <3>2, <3>3
    <3> QED BY <1>3, <3>4 DEF Permutes
  <2>2. \E i \in 1..n : l[i].name = DotDot
    <3>1. PICK j \in 1..n : q.list[j].name = DotDot
      BY <1>1 DEF ListOK, FilesOK
    <3>2. PICK k \in 1..n : from[k] = j
      BY <1>3 DEF Permutes
    <3> QED BY <1>4, <3>1, <3>2
  <2>3. \A i \in 1..n : l[i].marked => l[i].name # DotDot
    <3>1. \A i \in 1..n : q.list[i].marked => q.list[i].name # DotDot
      BY <1>1 DEF ListOK, FilesOK
    <3> SUFFICES ASSUME NEW i \in 1..n, l[i].marked PROVE l[i].name # DotDot
      OBVIOUS
    <3>2. from[i] \in 1..n /\ l[i] = q.list[from[i]]
      BY <1>3, <1>4 DEF Permutes
    <3> QED BY <3>1, <3>2
  <2> QED BY <1>5, <2>1, <2>2, <2>3 DEF FilesOK
<1>9. \A k \in 1..n : k \in MarkedAt(r) <=> from[k] \in MarkedAt(q)
  BY <1>1, <1>3, <1>4, <1>5, <1>6 DEF MarkedAt, Permutes
<1>10. MarkedAt(q) \in SUBSET (1..n) /\ MarkedAt(r) \in SUBSET (1..n)
  BY <1>1, <1>5, <1>6 DEF MarkedAt
<1>11. ASSUME NEW A \in SUBSET (1..n), NEW B \in SUBSET (1..n),
              \A k \in 1..n : k \in B <=> from[k] \in A
       PROVE  Cardinality(B) = Cardinality(A)
  <2>1. n \in Nat
    BY <1>1
  <2> QED BY <1>3, <1>11, <2>1, MovedCounts
<1>12. ASSUME Tally(q) PROVE Tally(r)
  <2>1. Cardinality(MarkedAt(r)) = Cardinality(MarkedAt(q))
    BY <1>9, <1>10, <1>11
  <2> DEFINE Da == {i \in MarkedAt(q) : q.list[i].dir}
             Db == {i \in MarkedAt(r) : r.list[i].dir}
  <2>2. Cardinality(Db) = Cardinality(Da)
    <3>1. Da \in SUBSET (1..n) /\ Db \in SUBSET (1..n)
      BY <1>10
    <3>2. \A k \in 1..n : k \in Db <=> from[k] \in Da
      BY <1>4, <1>6, <1>9
    <3> HIDE DEF Da, Db
    <3> QED BY <1>11, <3>1, <3>2
  <2>3. ASSUME NEW w PROVE Cardinality(Weighing(r, w)) = Cardinality(Weighing(q, w))
    <3>1. Weighing(q, w) \in SUBSET (1..n) /\ Weighing(r, w) \in SUBSET (1..n)
      BY <1>10 DEF Weighing
    <3>2. \A k \in 1..n : k \in Weighing(r, w) <=> from[k] \in Weighing(q, w)
      BY <1>4, <1>6, <1>9 DEF Weighing
    <3> QED BY <1>11, <3>1, <3>2
  <2> QED BY <1>6, <1>12, <2>1, <2>2, <2>3 DEF Tally
<1>13. Listed(r) = Listed(q)
  <2>1. Listed(r) = {l[k].name : k \in 1..n} /\ Listed(q) = {q.list[i].name : i \in 1..n}
    BY <1>1, <1>5, <1>6 DEF Listed, Range
  <2> HIDE DEF Listed
  <2>2. ASSUME NEW k \in 1..n PROVE l[k].name \in {q.list[i].name : i \in 1..n}
    <3>1. from[k] \in 1..n /\ l[k].name = q.list[from[k]].name
      BY <1>3, <1>4 DEF Permutes
    <3> QED BY <3>1
  <2>3. ASSUME NEW i \in 1..n PROVE q.list[i].name \in {l[k].name : k \in 1..n}
    <3>1. PICK k \in 1..n : from[k] = i
      BY <1>3 DEF Permutes
    <3>2. l[k].name = q.list[i].name
      BY <1>4, <3>1
    <3> QED BY <3>2
  <2> QED BY <2>1, <2>2, <2>3
<1>14. MarkedNames(r) = MarkedNames(q)
  <2>1. /\ MarkedNames(r) = {r.list[k].name : k \in MarkedAt(r)}
        /\ MarkedNames(q) = {q.list[i].name : i \in MarkedAt(q)}
    BY DEF MarkedNames, MarkedAt, Range
  <2>2. ASSUME NEW k \in MarkedAt(r) PROVE r.list[k].name \in {q.list[i].name : i \in MarkedAt(q)}
    <3>1. k \in 1..n
      BY <1>10
    <3>2. from[k] \in MarkedAt(q) /\ r.list[k].name = q.list[from[k]].name
      BY <1>4, <1>6, <1>9, <3>1
    <3> QED BY <3>2
  <2>3. ASSUME NEW i \in MarkedAt(q) PROVE q.list[i].name \in {r.list[k].name : k \in MarkedAt(r)}
    <3>1. i \in 1..n
      BY <1>10
    <3>2. PICK k \in 1..n : from[k] = i
      BY <1>3, <3>1 DEF Permutes
    <3>3. k \in MarkedAt(r) /\ r.list[k].name = q.list[i].name
      BY <1>4, <1>6, <1>9, <3>2
    <3> QED BY <3>3
  <2> QED BY <2>1, <2>2, <2>3
<1>15. MarkedAt(q) = {} => MarkedAt(r) = {}
  BY <1>3, <1>9, <1>10
<1> QED BY <1>1, <1>5, <1>6, <1>7, <1>8, <1>12, <1>13, <1>14, <1>15 DEF ListOK, n

-----------------------------------------------------------------------------
(* Commands: what keeps a panel as it should be.                            *)
LEMMA MarksKeep ==
  ASSUME NEW q, PanelOK(q), NEW r, OnlyMarks(q, r), Tally(q) => Tally(r)
  PROVE  PanelOK(r)
<1>1. ListOK(r) /\ Shown(r)
  BY OnlyMarksOK DEF PanelOK
<1> QED BY <1>1 DEF PanelOK, OnlyMarks

LEMMA CursorKeeps ==
  ASSUME NEW q, PanelOK(q), NEW r, OnlyCursor(q, r), Shown(r)
  PROVE  PanelOK(r)
<1>1. ListOK(r) /\ (Tally(q) => Tally(r)) /\ r.stale = q.stale
  BY OnlyCursorOK DEF PanelOK, OnlyCursor
<1> QED BY <1>1 DEF PanelOK

LEMMA HereKeeps ==
  ASSUME NEW q, PanelOK(q), NEW mark \in BOOLEAN,
         NEW r, r = do_file_mark(q, q.selected + 1, mark)
  PROVE  PanelOK(r)
<1>1. ListOK(q) /\ q.selected + 1 \in DOMAIN q.list
  BY NotEmpty DEF PanelOK, Shown
<1> DEFINE i == q.selected + 1
<1> HIDE DEF i
<1>2. i \in DOMAIN q.list /\ r = do_file_mark(q, i, mark)
  BY <1>1 DEF i
<1>3. OnlyMarks(q, r) /\ (Tally(q) => Tally(r))
  BY <1>1, <1>2, MarkDoes
<1> QED BY <1>3, MarksKeep

LEMMA MoveKeeps ==
  ASSUME NEW q, PanelOK(q), NEW scroll, NEW r,
         \/ r = move_down(q, scroll) \/ r = move_up(q, scroll)
         \/ r = prev_page(q) \/ r = next_page(q)
         \/ \E i \in Targets(q) : r = go_to(q, i)
  PROVE  PanelOK(r)
<1>1. OnlyCursor(q, r) /\ Shown(r)
  BY MoveDoes DEF PanelOK
<1> QED BY <1>1, CursorKeeps

LEMMA MarkingKeeps ==
  ASSUME NEW q, PanelOK(q), NEW n \in Nat, NEW to, NEW scroll, NEW mark \in BOOLEAN,
         NEW r, r = Marking(q, n, to, scroll, mark)
  PROVE  PanelOK(r)
<1> DEFINE here(v) == do_file_mark(v, v.selected + 1, mark)
           D(v) == IF to = "right" THEN move_down(here(v), scroll) ELSE move_up(here(v), scroll)
           R(f) == [k \in 0..n |-> IF k = 0 THEN q ELSE D(f[k - 1])]
           C == CHOOSE f : f = R(f)
           S == {v \in Panels : PanelOK(v)}
           Place == [k \in 0..n |-> S]
           st == [k \in 1..n |-> [v \in S |-> D(v)]]
<1>1. r = here(C[n])
  BY DEF Marking
<1>2. \A v : v \in S <=> PanelOK(v)
  BY DEF PanelOK, ListOK
<1>3. ASSUME NEW v \in S PROVE here(v) \in S /\ D(v) \in S
  <2> DEFINE h == here(v)
             d == D(v)
  <2>1. PanelOK(h)
    <3> QED BY <1>2, HereKeeps
  <2> HIDE DEF here
  <2>2. d = move_down(h, scroll) \/ d = move_up(h, scroll)
    OBVIOUS
  <2> HIDE DEF h, d
  <2>3. PanelOK(d)
    BY <2>1, <2>2, MoveKeeps
  <2> QED BY <1>2, <2>1, <2>3 DEF h, d
<1> HIDE DEF S, here, D
<1>4. /\ Place \in [0..n -> SUBSET S] /\ \A k \in 0..n : Place[k] = S
      /\ \A k \in 1..n : k - 1 \in 0..n /\ k \in 0..n /\ \A v \in S : st[k][v] = D(v)
  OBVIOUS
<1> HIDE DEF Place, st
<1>5. q \in Place[0]
  BY <1>2, <1>4
<1>6. Leads(n, Place, st)
  BY <1>3, <1>4 DEF Leads
<1>7. C = R(C)
  <2>1. PICK F \in [0..n -> S] : F[0] = q /\ Steps(F, n, Place, st)
    <3>1. n \in Nat /\ Place \in [0..n -> SUBSET S]
      BY <1>4
    <3> HIDE DEF C, R
    <3>2. Runs(n, S, Place, st, q)
      BY <1>5, <1>6, <3>1, LoopRuns
    <3> QED BY <3>2 DEF Runs
  <2>2. \A k \in 1..n : F[k] = D(F[k - 1])
    BY <1>4, <2>1 DEF Steps
  <2>3. \A k \in 0..n : k = 0 \/ k \in 1..n
    OBVIOUS
  <2>4. F = R(F)
    BY <2>1, <2>2, <2>3
  <2> HIDE DEF R
  <2> QED BY <2>4
<1>8. C[0] = q /\ \A k \in 1..n : C[k] = D(C[k - 1])
  <2> HIDE DEF C
  <2> QED BY <1>7
<1> HIDE DEF C
<1>9. C[n] \in Place[n]
  <2>1. \A k \in 1..n : C[k - 1] \in Place[k - 1] => C[k] = st[k][C[k - 1]]
    BY <1>4, <1>8
  <2> QED BY <1>5, <1>6, <1>8, <2>1, LoopStays
<1>10. here(C[n]) \in S
  BY <1>3, <1>4, <1>9
<1> QED BY <1>1, <1>2, <1>10

LEMMA ArrowsKeep ==
  ASSUME NEW q, PanelOK(q), NEW scroll, NEW mark \in BOOLEAN, NEW r,
         r = mark_file_right(q, scroll, mark) \/ r = mark_file_left(q, scroll, mark)
  PROVE  PanelOK(r)
<1>1. ListOK(q) /\ q.selected \in 0..(Len(q.list) - 1) /\ Len(q.list) \in Nat /\ q.items \in Nat
  BY NotEmpty, CursorType DEF PanelOK, Shown
<1>2. /\ Lesser(q.items, Len(q.list) - q.selected - 1) \in Nat
      /\ Lesser(q.items, q.selected + 1) \in Nat
  BY <1>1 DEF Lesser
<1> DEFINE a == Lesser(q.items, Len(q.list) - q.selected - 1)
           b == Lesser(q.items, q.selected + 1)
<1> HIDE DEF a, b
<1>3. /\ a \in Nat /\ b \in Nat
      /\ r = Marking(q, a, "right", scroll, mark) \/ r = Marking(q, b, "left", scroll, mark)
  BY <1>2 DEF a, b, mark_file_right, mark_file_left
<1> QED BY <1>3, MarkingKeeps

(* A name that counts for a tree: the list is what it was, but for sizes.   *)
LEMMA CountTreeDoes ==
  ASSUME NEW q, ListOK(q), NEW S, NEW r, r = CountTree(q, S)
  PROVE  /\ ListOK(r) /\ Len(r.list) = Len(q.list)
         /\ r.selected = q.selected /\ r.top_file = q.top_file /\ r.items = q.items
<1> DEFINE l == [i \in DOMAIN q.list |->
                   IF i \in S THEN [q.list[i] EXCEPT !.size = TreeSize, !.computed = TRUE]
                   ELSE q.list[i]]
<1>1. q \in Panels /\ DOMAIN q.list = 1..Len(q.list) /\ Len(q.list) \in Nat
  BY NotEmpty
<1>2. ASSUME NEW i \in DOMAIN q.list
      PROVE  /\ l[i] \in Entries /\ l[i].name = q.list[i].name /\ l[i].marked = q.list[i].marked
  <2>1. q.list[i] \in Entries
    BY <1>1, ListDomain
  <2> QED BY <2>1 DEF Entries
<1>3. l \in Seq(Entries) /\ Len(l) = Len(q.list) /\ DOMAIN l = DOMAIN q.list
  <2>1. l \in [1..Len(q.list) -> Entries]
    <3>1. l = [i \in 1..Len(q.list) |-> l[i]]
      BY <1>1
    <3> HIDE DEF l
    <3> QED BY SMTT(60), <1>1, <1>2, <3>1
  <2> HIDE DEF l
  <2>2. l \in Seq(Entries)
    BY <1>1, <2>1, SeqDef
  <2> QED BY <1>1, <2>1, <2>2, LenProperties
<1>4. r = [q EXCEPT !.list = l]
  BY DEF CountTree
<1> HIDE DEF l
<1>5. r.list = l /\ r.selected = q.selected /\ r.top_file = q.top_file /\ r.items = q.items
  BY <1>1, <1>4 DEF Panels
<1>6. r \in Panels
  BY <1>1, <1>3, <1>4 DEF Panels
<1>7. FilesOK(l)
  BY <1>2, <1>3 DEF ListOK, FilesOK
<1> QED BY <1>3, <1>5, <1>6, <1>7 DEF ListOK

LEMMA SummaryKeeps ==
  ASSUME NEW q, ListOK(q), Shown(q), NEW r, r = recalculate_panel_summary(q)
  PROVE  PanelOK(r)
<1>1. /\ ListOK(r) /\ Tally(r) /\ Len(r.list) = Len(q.list)
      /\ r.selected = q.selected /\ r.top_file = q.top_file /\ r.items = q.items
  BY SummaryDoes DEF SameFiles
<1> QED BY <1>1 DEF PanelOK, Shown

LEMMA CountedKeeps ==
  ASSUME NEW q, PanelOK(q), NEW S, NEW r, r = Counted(q, S)
  PROVE  PanelOK(r)
<1> DEFINE c == CountTree(q, S)
<1>1. /\ ListOK(c) /\ Len(c.list) = Len(q.list)
      /\ c.selected = q.selected /\ c.top_file = q.top_file /\ c.items = q.items
  BY CountTreeDoes DEF PanelOK
<1>2. r = recalculate_panel_summary(c)
  BY DEF Counted
<1> HIDE DEF c
<1>3. Shown(c)
  BY <1>1 DEF PanelOK, Shown
<1> QED BY <1>1, <1>2, <1>3, SummaryKeeps

(* The list is put in order, or not, and the cursor goes to a name.         *)
LEMMA SelectKeeps ==
  ASSUME NEW q, ListOK(q), ~q.stale => Tally(q), NEW n \in Names \cup {DotDot, NoName},
         NEW r, r = try_to_select(q, n)
  PROVE  /\ PanelOK(r) /\ MarkedNames(r) = MarkedNames(q) /\ Listed(r) = Listed(q)
         /\ n \in Listed(q) => Cursor(r) = n
<1>1. OnlyCursor(q, r) /\ Shown(r) /\ (n \in Listed(q) => Cursor(r) = n)
  BY TrySelectDoes
<1>2. /\ ListOK(r) /\ (Tally(q) => Tally(r)) /\ r.stale = q.stale
      /\ MarkedNames(r) = MarkedNames(q) /\ Listed(r) = Listed(q)
  BY <1>1, OnlyCursorOK DEF OnlyCursor
<1> QED BY <1>1, <1>2 DEF PanelOK

LEMMA SortSelectKeeps ==
  ASSUME NEW q, ListOK(q), ~q.stale => Tally(q), NEW n \in Names \cup {DotDot, NoName},
         NEW r, r = try_to_select(dir_list_sort(q), n)
  PROVE  /\ PanelOK(r) /\ MarkedNames(r) = MarkedNames(q) /\ Listed(r) = Listed(q)
         /\ n \in Listed(q) => Cursor(r) = n
<1> DEFINE s == dir_list_sort(q)
<1>1. /\ ListOK(s) /\ (Tally(q) => Tally(s)) /\ s.stale = q.stale
      /\ MarkedNames(s) = MarkedNames(q) /\ Listed(s) = Listed(q)
  BY SortDoes
<1> HIDE DEF s
<1>2. r = try_to_select(s, n)
  BY DEF s
<1> QED BY <1>1, <1>2, SelectKeeps

LEMMA CursorIsListed ==
  ASSUME NEW q, ListOK(q), q.selected \in 0..(Len(q.list) - 1)
  PROVE  Cursor(q) \in Listed(q) /\ Cursor(q) \in Names \cup {DotDot}
<1>1. DOMAIN q.list = 1..Len(q.list) /\ Len(q.list) \in Nat /\ q \in Panels
  BY NotEmpty
<1>2. PICK i \in DOMAIN q.list : i = q.selected + 1
  BY <1>1
<1>3. q.list[i].name \in Names \cup {DotDot}
  BY <1>1, ListDomain DEF Entries
<1>4. q.list[i].name \in Listed(q)
  BY DEF Listed, Range
<1> QED BY <1>2, <1>3, <1>4 DEF Cursor

LEMMA ReversedKeeps ==
  ASSUME NEW q, PanelOK(q), NEW v, v = [q EXCEPT !.reverse = ~@]
  PROVE  PanelOK(v)
<1>1. q \in Panels
  BY DEF PanelOK, ListOK
<1>2. /\ v \in Panels /\ v.list = q.list /\ v.selected = q.selected /\ v.stale = q.stale
      /\ v.marked = q.marked /\ v.dirs_marked = q.dirs_marked /\ v.total = q.total
      /\ v.items = q.items /\ v.top_file = q.top_file
  BY <1>1 DEF Panels
<1>3. ListOK(v)
  BY <1>2 DEF PanelOK, ListOK
<1>4. MarkedAt(v) = MarkedAt(q) /\ \A w : Weighing(v, w) = Weighing(q, w)
  BY <1>2 DEF MarkedAt, Weighing
<1>5. Tally(q) => Tally(v)
  BY <1>2, <1>4 DEF Tally
<1> QED BY <1>2, <1>3, <1>5 DEF PanelOK, Shown

LEMMA ReSortKeeps ==
  ASSUME NEW q, PanelOK(q), NEW r, r = panel_re_sort(q)
  PROVE  PanelOK(r)
<1> DEFINE s == dir_list_sort(q)
           at == IndexOf(s, Cursor(q))
           half == q.items \div 2
<1>1. r = select_item([s EXCEPT !.selected = at, !.top_file = at - half])
  BY DEF panel_re_sort
<1>2. ListOK(q) /\ half \in Int
  BY CursorType, NotEmpty DEF PanelOK
<1>3. Cursor(q) \in Listed(q)
  BY CursorIsListed DEF PanelOK, Shown
<1>4. /\ ListOK(s) /\ (Tally(q) => Tally(s)) /\ s.stale = q.stale /\ Listed(s) = Listed(q)
  BY <1>2, SortDoes
<1> HIDE DEF s, half
<1>5. at \in 0..(Len(s.list) - 1)
  BY <1>3, <1>4, ListDomain, IndexIs DEF ListOK
<1> HIDE DEF at
<1> DEFINE b == at - half
<1>6. at \in Int /\ b \in Int
  BY <1>2, <1>5
<1> HIDE DEF b
<1>7. r = select_item([s EXCEPT !.selected = at, !.top_file = b])
  BY <1>1 DEF b
<1>8. OnlyCursor(s, r) /\ Shown(r)
  BY ZenonT(60), <1>4, <1>6, <1>7, PlaceDoes
<1>9. ListOK(r) /\ (Tally(s) => Tally(r)) /\ r.stale = s.stale
  BY <1>4, <1>8, OnlyCursorOK DEF OnlyCursor
<1> QED BY <1>4, <1>8, <1>9 DEF PanelOK

LEMMA UnmarkFilesKeeps ==
  ASSUME NEW q, PanelOK(q), NEW r, r = unmark_files(q)
  PROVE  PanelOK(r)
<1>1. CASE q.marked = 0
  BY <1>1 DEF unmark_files
<1>2. CASE q.marked # 0
  <2>1. OnlyMarks(q, r) /\ Tally(r)
    BY <1>2, UnmarkedDoes DEF unmark_files, PanelOK
  <2> QED BY <2>1, MarksKeep
<1> QED BY <1>1, <1>2

(* compare_dir                                                              *)
LEMMA CompareKeeps ==
  ASSUME NEW q, PanelOK(q), NEW S \in SUBSET DOMAIN q.list,
         NEW r, r = MarkAll([Unmarked(q) EXCEPT !.stale = FALSE], S, TRUE)
  PROVE  PanelOK(r)
<1> DEFINE u == Unmarked(q)
           f == [u EXCEPT !.stale = FALSE]
<1>1. OnlyMarks(q, u) /\ Tally(u)
  BY UnmarkedDoes DEF PanelOK
<1>2. PanelOK(u) /\ DOMAIN u.list = DOMAIN q.list
  BY <1>1, MarksKeep, OnlyMarksOK DEF PanelOK
<1> HIDE DEF u
<1>3. /\ ListOK(f) /\ f.list = u.list /\ Tally(f)
      /\ f.selected = u.selected /\ f.top_file = u.top_file /\ f.items = u.items
  BY <1>1, <1>2, FreshDoes DEF PanelOK
<1> HIDE DEF f
<1>4. PanelOK(f)
  BY <1>2, <1>3 DEF PanelOK, Shown
<1>5. r = MarkAll(f, S, TRUE) /\ S \in SUBSET DOMAIN f.list
  BY <1>2, <1>3 DEF f, u
<1>6. OnlyMarks(f, r) /\ (Tally(f) => Tally(r))
  BY <1>3, <1>5, MarkAllDoes
<1> QED BY <1>4, <1>6, MarksKeep

-----------------------------------------------------------------------------
(* Lists that are made.                                                     *)
LEMMA EntryIs ==
  ASSUME NEW n \in Names \cup {DotDot}, NEW alive \in BOOLEAN, NEW mark \in BOOLEAN
  PROVE  /\ FileEntry(n, alive) \in Entries
         /\ FileEntry(n, alive).name = n /\ FileEntry(n, alive).marked = FALSE
         /\ [FileEntry(n, alive) EXCEPT !.marked = mark] \in Entries
         /\ [FileEntry(n, alive) EXCEPT !.marked = mark].name = n
         /\ [FileEntry(n, alive) EXCEPT !.marked = mark].marked = mark
BY DEF FileEntry, Entries

LEMMA InitListIs ==
  /\ dir_list_init \in Seq(Entries) /\ Len(dir_list_init) = 1
  /\ dir_list_init[1].name = DotDot /\ ~dir_list_init[1].marked
  /\ FilesOK(dir_list_init) /\ \A i \in DOMAIN dir_list_init : ~dir_list_init[i].marked
  /\ DOMAIN dir_list_init = {1}
<1> DEFINE e == [FileEntry(DotDot, TRUE) EXCEPT !.dir = TRUE]
<1>1. e \in Entries /\ e.name = DotDot /\ e.marked = FALSE
  BY DEF FileEntry, Entries
<1>2. dir_list_init = <<e>>
  BY DEF dir_list_init
<1> HIDE DEF e
<1>3. <<e>> \in Seq(Entries) /\ Len(<<e>>) = 1 /\ <<e>>[1] = e /\ DOMAIN <<e>> = {1}
  BY <1>1
<1> QED BY <1>1, <1>2, <1>3 DEF FilesOK

LEMMA Joined ==
  ASSUME NEW S, NEW x \in Seq(S), NEW y \in Seq(S)
  PROVE  /\ (x \o y) \in Seq(S) /\ Len(x \o y) = Len(x) + Len(y)
         /\ \A k \in 1 .. Len(x) : (x \o y)[k] = x[k]
         /\ \A i \in 1 .. Len(y) : (x \o y)[Len(x) + i] = y[i]
OBVIOUS

LEMMA FoundIs ==
  ASSUME NEW S \in SUBSET Names, NEW files,
         files = dir_list_init \o SetToSeq({FileEntry(n, TRUE) : n \in S})
  PROVE  FilesOK(files) /\ \A i \in DOMAIN files : ~files[i].marked
<1> DEFINE E == {FileEntry(n, TRUE) : n \in S}
           tail == SetToSeq(E)
<1>1. ASSUME NEW e \in E
      PROVE  /\ e \in Entries /\ e.name \in S /\ ~e.marked /\ e.name # DotDot
             /\ \A f \in E : f.name = e.name => f = e
  <2>1. ASSUME NEW f \in E
        PROVE  f.name \in S /\ f = FileEntry(f.name, TRUE) /\ f \in Entries /\ f.marked = FALSE
    <3>1. PICK n \in S : f = FileEntry(n, TRUE)
      OBVIOUS
    <3>2. n \in Names \cup {DotDot} /\ TRUE \in BOOLEAN
      OBVIOUS
    <3> QED BY <3>1, <3>2, EntryIs
  <2>2. e.name # DotDot
    <3>1. e.name \in Names
      BY <2>1
    <3> QED BY <3>1, NamesAssumption DEF DotDot
  <2>3. \A f \in E : f.name = e.name => f = e
    BY <2>1
  <2> QED BY <2>1, <2>2, <2>3
<1>2. IsFiniteSet(E)
  <2>1. IsFiniteSet(S)
    BY NamesAssumption, FS_Subset
  <2> DEFINE f == [n \in S |-> FileEntry(n, TRUE)]
  <2>2. f \in Surjection(S, E)
    BY DEF Surjection
  <2> HIDE DEF f, E
  <2> QED BY <2>1, <2>2, FS_Surjection
<1> HIDE DEF E
<1>3. /\ Cardinality(E) \in Nat
      /\ tail \in [1..Cardinality(E) -> E] /\ \A i, j \in 1..Cardinality(E) : tail[i] = tail[j] => i = j
  <2> DEFINE c == Cardinality(E)
  <2>1. c \in Nat /\ ExistsBijection(1..c, E)
    BY <1>2, FS_CardinalityType
  <2>2. \E f \in [1..c -> E] : IsInjective(f)
    BY <2>1 DEF ExistsBijection, Bijection, Injection
  <2>3. tail \in [1..c -> E] /\ IsInjective(tail)
    BY <2>2 DEF SetToSeq
  <2> HIDE DEF c, tail
  <2>4. DOMAIN tail = 1..c
    BY <2>3
  <2> QED BY <2>1, <2>3, <2>4 DEF IsInjective, c
<1> HIDE DEF tail
<1>4. tail \in Seq(Entries) /\ Len(tail) = Cardinality(E)
  <2> DEFINE c == Cardinality(E)
  <2> HIDE DEF c
  <2>1. c \in Nat /\ tail \in [1..c -> Entries]
    <3>1. c \in Nat /\ tail \in [1..c -> E]
      BY <1>3 DEF c
    <3> QED BY <1>1, <3>1
  <2>2. tail \in Seq(Entries)
    BY <2>1, SeqDef
  <2> QED BY <2>1, <2>2, LenProperties DEF c
<1>5. files = dir_list_init \o tail
  BY DEF tail, E
<1>6. /\ files \in Seq(Entries) /\ Len(files) = 1 + Len(tail)
      /\ files[1] = dir_list_init[1]
      /\ \A i \in 1..Len(tail) : files[1 + i] = tail[i]
  <2>1. dir_list_init \in Seq(Entries) /\ Len(dir_list_init) = 1 /\ 1 \in 1..1
    BY InitListIs
  <2> DEFINE d == dir_list_init
  <2>2. d \in Seq(Entries) /\ Len(d) = 1
    BY <2>1
  <2> HIDE DEF d
  <2>3. /\ d \o tail \in Seq(Entries) /\ Len(d \o tail) = Len(d) + Len(tail)
        /\ \A i \in 1..Len(d) : (d \o tail)[i] = d[i]
        /\ \A i \in 1..Len(tail) : (d \o tail)[Len(d) + i] = tail[i]
    <3>1. d \in Seq(Entries) /\ tail \in Seq(Entries)
      BY <1>4, <2>2
    <3> QED BY <3>1, Joined
  <2>4. files = d \o tail
    BY <1>5 DEF d
  <2>5. files[1] = d[1]
    <3>1. 1 \in 1..Len(d)
      BY <2>2
    <3>2. (d \o tail)[1] = d[1]
      BY <2>3, <3>1
    <3> QED BY <2>4, <3>2
  <2> QED BY <2>2, <2>3, <2>4, <2>5 DEF d
<1>7. DOMAIN files = 1..(1 + Len(tail)) /\ Len(tail) \in Nat
  BY <1>4, <1>6, LenProperties
<1>8. \A i \in DOMAIN files : i = 1 \/ \E j \in 1..Len(tail) : i = 1 + j
  <2> SUFFICES ASSUME NEW i \in DOMAIN files, i # 1 PROVE \E j \in 1..Len(tail) : i = 1 + j
    OBVIOUS
  <2>1. i - 1 \in 1..Len(tail) /\ i = 1 + (i - 1)
    BY <1>7
  <2> QED BY <2>1
<1>9. \A j \in 1..Len(tail) : tail[j] \in E
  BY <1>3, <1>4
<1>10. ASSUME NEW i \in DOMAIN files
       PROVE  ~files[i].marked /\ (i # 1 => files[i].name # DotDot)
  <2>1. CASE i = 1
    BY <1>6, <2>1, InitListIs
  <2>2. CASE i # 1
    <3>1. PICK j \in 1..Len(tail) : i = 1 + j
      BY <1>8, <2>2
    <3>2. files[i] = tail[j] /\ tail[j] \in E
      BY <1>6, <1>9, <3>1
    <3> QED BY <1>1, <3>2
  <2> QED BY <2>1, <2>2
<1>11. ASSUME NEW i \in DOMAIN files, NEW k \in DOMAIN files, files[i].name = files[k].name
       PROVE  i = k
  <2>1. files[1].name = DotDot
    BY <1>6, InitListIs
  <2>2. CASE i = 1 \/ k = 1
    BY <1>10, <1>11, <2>1, <2>2
  <2>3. CASE i # 1 /\ k # 1
    <3>1. PICK j \in 1..Len(tail) : i = 1 + j
      BY <1>8, <2>3
    <3>2. PICK m \in 1..Len(tail) : k = 1 + m
      BY <1>8, <2>3
    <3>3. files[i] = tail[j] /\ tail[j] \in E /\ files[k] = tail[m] /\ tail[m] \in E
      BY <1>6, <1>9, <3>1, <3>2
    <3>4. tail[j] = tail[m]
      BY <1>1, <1>11, <3>3
    <3>5. j = m
      BY <1>3, <1>4, <3>4
    <3> QED BY <3>1, <3>2, <3>5
  <2> QED BY <2>2, <2>3
<1>12. \E i \in DOMAIN files : files[i].name = DotDot
  <2>1. 1 \in DOMAIN files
    BY <1>7
  <2> QED BY <1>6, <2>1, InitListIs
<1> QED BY <1>6, <1>10, <1>11, <1>12 DEF FilesOK

(* What is left of a list: some of its entries in their order, ".." with    *)
(* them.                                                                    *)
LEMMA KeptIs ==
  ASSUME NEW q, ListOK(q)
  PROVE  FilesOK(Kept(q))
<1> DEFINE n == Len(q.list)
           stays(i) == q.list[i].name \in disk[cwdir] \cup {DotDot}
           e(i) == [q.list[i] EXCEPT !.size = FileSize]
           D(v, i) == IF stays(i) THEN Append(v, e(i)) ELSE v
           R(f) == [i \in 0..n |-> IF i = 0 THEN << >> ELSE D(f[i - 1], i)]
           C == CHOOSE f : f = R(f)
           So(k, v) ==
             /\ v \in Seq(Entries)
             /\ \A i, j \in 1..Len(v) : v[i].name = v[j].name => i = j
             /\ \A i \in 1..Len(v) : \E j \in 1..k : v[i].name = q.list[j].name
             /\ \A j \in 1..k : q.list[j].name = DotDot =>
                  \E i \in 1..Len(v) : v[i].name = DotDot
             /\ \A i \in 1..Len(v) : v[i].marked => v[i].name # DotDot
           Place == [k \in 0..n |-> {v \in Seq(Entries) : So(k, v)}]
           st == [k \in 1..n |-> [v \in Seq(Entries) |-> D(v, k)]]
<1>1. n \in Nat /\ DOMAIN q.list = 1..n /\ q \in Panels
  BY NotEmpty
<1>2. Kept(q) = C[n]
  BY DEF Kept
<1>3. \A i \in 1..n : /\ e(i) \in Entries /\ e(i).name = q.list[i].name
                      /\ (e(i).marked => e(i).name # DotDot)
  <2> SUFFICES ASSUME NEW i \in 1..n
               PROVE  /\ e(i) \in Entries /\ e(i).name = q.list[i].name
                      /\ (e(i).marked => e(i).name # DotDot)
    OBVIOUS
  <2>1. q.list[i] \in Entries /\ (q.list[i].marked => q.list[i].name # DotDot)
    BY <1>1, ListDomain DEF ListOK, FilesOK
  <2> QED BY <2>1 DEF Entries
<1>4. \A i, j \in 1..n : q.list[i].name = q.list[j].name => i = j
  BY <1>1 DEF ListOK, FilesOK
<1>5. \A i \in 1..n : q.list[i].name = DotDot => stays(i)
  OBVIOUS
<1>6. \E i \in 1..n : q.list[i].name = DotDot
  BY <1>1 DEF ListOK, FilesOK
<1> HIDE DEF n, e, stays
<1>7. << >> \in Seq(Entries) /\ So(0, << >>)
  OBVIOUS
<1>8. ASSUME NEW k \in 1..n, NEW v, So(k - 1, v) PROVE So(k, D(v, k))
  <2>1. v \in Seq(Entries) /\ Len(v) \in Nat
    BY <1>8, LenProperties
  <2>2. CASE ~stays(k)
    <3>1. D(v, k) = v /\ q.list[k].name # DotDot
      BY <1>5, <2>2
    <3>2. \A j \in 1..k : j \in 1..(k - 1) \/ j = k
      OBVIOUS
    <3>3. \A j \in 1..(k - 1) : j \in 1..k
      OBVIOUS
    <3> QED BY <1>8, <3>1, <3>2, <3>3
  <2>3. CASE stays(k)
    <3> DEFINE x == e(k)
               w == Append(v, x)
    <3>1. x \in Entries /\ x.name = q.list[k].name /\ (x.marked => x.name # DotDot)
      BY <1>3
    <3>2. D(v, k) = w
      BY <2>3
    <3> HIDE DEF x
    <3>3. /\ w \in Seq(Entries) /\ Len(w) = Len(v) + 1
          /\ \A i \in 1..Len(v) : w[i] = v[i]
          /\ w[Len(v) + 1] = x
      <4>1. v \in Seq(Entries)
        BY <2>1
      <4> QED BY <3>1, <4>1, AppendProperties
    <3> HIDE DEF w
    <3>4. \A i \in 1..Len(w) : i \in 1..Len(v) \/ i = Len(v) + 1
      BY <2>1, <3>3
    <3>5. \A i \in 1..Len(v) : v[i].name # x.name
      <4> SUFFICES ASSUME NEW i \in 1..Len(v) PROVE v[i].name # x.name
        OBVIOUS
      <4>1. PICK j \in 1..(k - 1) : v[i].name = q.list[j].name
        BY <1>8
      <4>2. j \in 1..n /\ j # k
        BY <1>1
      <4> QED BY <1>4, <3>1, <4>1, <4>2
    <3>6. \A i, j \in 1..Len(w) : w[i].name = w[j].name => i = j
      <4> SUFFICES ASSUME NEW i \in 1..Len(w), NEW j \in 1..Len(w), w[i].name = w[j].name
                   PROVE  i = j
        OBVIOUS
      <4>1. CASE i \in 1..Len(v) /\ j \in 1..Len(v)
        BY <1>8, <3>3, <4>1
      <4>2. CASE i = Len(v) + 1 /\ j \in 1..Len(v)
        BY <3>3, <3>5, <4>2
      <4>3. CASE i \in 1..Len(v) /\ j = Len(v) + 1
        BY <3>3, <3>5, <4>3
      <4> QED BY <3>4, <4>1, <4>2, <4>3
    <3>7. \A i \in 1..Len(w) : \E j \in 1..k : w[i].name = q.list[j].name
      <4> SUFFICES ASSUME NEW i \in 1..Len(w) PROVE \E j \in 1..k : w[i].name = q.list[j].name
        OBVIOUS
      <4>1. CASE i \in 1..Len(v)
        <5>1. PICK j \in 1..(k - 1) : v[i].name = q.list[j].name
          BY <1>8, <4>1
        <5>2. j \in 1..k
          OBVIOUS
        <5> QED BY <3>3, <4>1, <5>1, <5>2
      <4>2. CASE i = Len(v) + 1
        <5>1. k \in 1..k
          OBVIOUS
        <5> QED BY <3>1, <3>3, <4>2, <5>1
      <4> QED BY <3>4, <4>1, <4>2
    <3>8. ASSUME NEW j \in 1..k, q.list[j].name = DotDot
          PROVE  \E i \in 1..Len(w) : w[i].name = DotDot
      <4>1. CASE j = k
        <5>1. Len(v) + 1 \in 1..Len(w)
          BY <2>1, <3>3
        <5> QED BY <3>1, <3>3, <3>8, <4>1, <5>1
      <4>2. CASE j # k
        <5>1. j \in 1..(k - 1)
          BY <4>2
        <5>2. PICK i \in 1..Len(v) : v[i].name = DotDot
          BY <1>8, <3>8, <5>1
        <5>3. i \in 1..Len(w)
          BY <2>1, <3>3
        <5> QED BY <3>3, <5>2, <5>3
      <4> QED BY <4>1, <4>2
    <3>9. \A i \in 1..Len(w) : w[i].marked => w[i].name # DotDot
      BY <1>8, <3>1, <3>3, <3>4
    <3>10. So(k, w)
      BY <3>3, <3>6, <3>7, <3>8, <3>9
    <3> QED BY ZenonT(60), <3>2, <3>10
  <2> QED BY <2>2, <2>3
<1>9. \A k : \A v : So(k, v) => v \in Seq(Entries)
  OBVIOUS
<1> DEFINE S == Seq(Entries)
<1> HIDE DEF So, D
<1>10. /\ Place \in [0..n -> SUBSET S]
       /\ \A k \in 0..n : \A v : v \in Place[k] <=> So(k, v)
       /\ \A k \in 1..n : k - 1 \in 0..n /\ k \in 0..n /\ \A v \in S : st[k][v] = D(v, k)
  BY <1>1, <1>9
<1> HIDE DEF Place, st
<1>11. Leads(n, Place, st)
  BY <1>8, <1>9, <1>10 DEF Leads
<1>12. << >> \in Place[0]
  BY <1>1, <1>7, <1>10
<1> HIDE DEF S
<1>13. C = R(C)
  <2>1. PICK F \in [0..n -> S] : F[0] = << >> /\ Steps(F, n, Place, st)
    <3>1. n \in Nat /\ Place \in [0..n -> SUBSET S]
      BY <1>1, <1>10
    <3> HIDE DEF C, R
    <3>2. Runs(n, S, Place, st, << >>)
      BY <1>11, <1>12, <3>1, LoopRuns
    <3> QED BY <3>2 DEF Runs
  <2>2. \A k \in 1..n : F[k] = D(F[k - 1], k)
    BY <1>9, <1>10, <2>1 DEF Steps, S
  <2>3. \A k \in 0..n : k = 0 \/ k \in 1..n
    BY <1>1
  <2>4. F = R(F)
    BY <2>1, <2>2, <2>3
  <2> HIDE DEF R
  <2> QED BY <2>4
<1>14. C[0] = << >> /\ \A k \in 1..n : C[k] = D(C[k - 1], k)
  <2> HIDE DEF C
  <2> QED BY <1>1, <1>13
<1> HIDE DEF C
<1>15. C[n] \in Place[n]
  <2>1. \A k \in 1..n : C[k - 1] \in Place[k - 1] => C[k] = st[k][C[k - 1]]
    BY <1>9, <1>10, <1>14 DEF S
  <2> QED BY <1>1, <1>11, <1>12, <1>14, <2>1, LoopStays
<1>16. So(n, Kept(q))
  BY <1>1, <1>2, <1>10, <1>15
<1> DEFINE l == Kept(q)
<1>17. DOMAIN l = 1..Len(l)
  <2>1. l \in Seq(Entries)
    BY <1>16 DEF So
  <2> QED BY <2>1, LenProperties
<1> QED BY <1>6, <1>16, <1>17 DEF So, FilesOK

LEMMA ListSet ==
  ASSUME NEW q \in Panels, NEW l, FilesOK(l), NEW r, r = [q EXCEPT !.list = l]
  PROVE  ListOK(r) /\ r.list = l /\ r.stale = q.stale
<1>1. l \in Seq(Entries)
  BY DEF FilesOK
<1> QED BY <1>1 DEF Panels, ListOK

LEMMA ReloadPanelizedKeeps ==
  ASSUME NEW q, ListOK(q), NEW want \in Names \cup {DotDot, NoName},
         NEW r, r = try_to_select(reload_panelized(q), want)
  PROVE  PanelOK(r)
<1> DEFINE k == [q EXCEPT !.list = Kept(q)]
           m == recalculate_panel_summary(k)
<1>1. ListOK(k)
  <2> DEFINE l == Kept(q)
  <2>1. FilesOK(l) /\ q \in Panels
    BY KeptIs DEF ListOK
  <2> HIDE DEF l
  <2>2. ListOK([q EXCEPT !.list = l])
    BY <2>1, ListSet
  <2> QED BY <2>2 DEF l
<1> HIDE DEF k
<1>2. ListOK(m) /\ Tally(m)
  BY <1>1, SummaryDoes
<1>3. r = try_to_select(m, want)
  BY DEF reload_panelized, k
<1> HIDE DEF m
<1> QED BY <1>2, <1>3, SelectKeeps

-----------------------------------------------------------------------------
(* Each action keeps the invariant.  A command is given with nothing being  *)
(* read and no loop on.                                                     *)
LEMMA IdleIs ==
  ASSUME PanelInv, ~load.on
  PROVE  load = NoLoad /\ PanelOK(p)
BY DEF PanelInv, NoLoad

LEMMA AtRestIs ==
  ASSUME PanelInv, AtRest
  PROVE  load = NoLoad /\ batch = NoBatch /\ PanelOK(p)
BY DEF PanelInv, AtRest, LoopOK, Batches, NoLoad

LEMMA CommandKeeps ==
  ASSUME PanelInv, AtRest, NEW q, PanelOK(q), Command(q)
  PROVE  PanelInv'
<1>1. load = NoLoad /\ batch = NoBatch
  BY AtRestIs
<1>2. /\ disk' = disk /\ cwdir' = cwdir /\ found' = found /\ load' = NoLoad
      /\ batch' = NoBatch /\ p' = q /\ load.on = FALSE
  BY <1>1 DEF Command, NoLoad
<1>3. ListOK(q)
  BY DEF PanelOK
<1> QED BY <1>1, <1>2, <1>3 DEF PanelInv

LEMMA OneMarkKeeps == PanelInv /\ do_mark_file => PanelInv'
<1> SUFFICES ASSUME PanelInv, do_mark_file PROVE PanelInv'
  OBVIOUS
<1>1. AtRest
  BY DEF do_mark_file
<1>2. PanelOK(p)
  BY <1>1, AtRestIs
<1> DEFINE m == ~p.list[p.selected + 1].marked
           marked == do_file_mark(p, p.selected + 1, m)
<1>3. PICK scroll \in Scrolls : Command(marked) \/ Command(move_down(marked, scroll))
                                \/ Command(move_up(marked, scroll))
  BY DEF do_mark_file
<1>4. (m) \in BOOLEAN
  OBVIOUS
<1>5. PanelOK(marked)
  <2> HIDE DEF m
  <2> QED BY <1>2, <1>4, HereKeeps
<1> HIDE DEF marked
<1>6. PanelOK(move_down(marked, scroll)) /\ PanelOK(move_up(marked, scroll))
  BY <1>5, MoveKeeps
<1> QED BY <1>1, <1>3, <1>5, <1>6, CommandKeeps

LEMMA ManyMarksKeep == PanelInv /\ mark_many => PanelInv'
<1> SUFFICES ASSUME PanelInv, mark_many PROVE PanelInv'
  OBVIOUS
<1>1. AtRest
  BY DEF mark_many
<1>2. PanelOK(p)
  BY <1>1, AtRestIs
<1>3. ListOK(p)
  BY <1>2 DEF PanelOK
<1>4. CASE \E scroll \in Scrolls, mark \in BOOLEAN :
              Command(mark_file_right(p, scroll, mark)) \/ Command(mark_file_left(p, scroll, mark))
  BY <1>1, <1>2, <1>4, ArrowsKeep, CommandKeeps
<1>5. CASE \E S \in SUBSET DOMAIN p.list, mark \in BOOLEAN : Command(MarkAll(p, S, mark))
  <2>1. PICK S \in SUBSET DOMAIN p.list, mark \in BOOLEAN : Command(MarkAll(p, S, mark))
    BY <1>5
  <2>2. PICK r : r = MarkAll(p, S, mark)
    OBVIOUS
  <2>3. OnlyMarks(p, r) /\ (Tally(p) => Tally(r))
    BY <1>3, <2>2, MarkAllDoes
  <2>4. PanelOK(r)
    BY <1>2, <2>3, MarksKeep
  <2> QED BY <1>1, <2>1, <2>2, <2>4, CommandKeeps
<1>6. CASE \E files_only \in BOOLEAN : Command(panel_select_invert_files(p, files_only))
  <2>1. PICK files_only \in BOOLEAN : Command(panel_select_invert_files(p, files_only))
    BY <1>6
  <2>2. PICK r : r = panel_select_invert_files(p, files_only)
    OBVIOUS
  <2>3. OnlyMarks(p, r) /\ (Tally(p) => Tally(r))
    BY <1>3, <2>2, InvertDoes
  <2>4. PanelOK(r)
    BY <1>2, <2>3, MarksKeep
  <2> QED BY <1>1, <2>1, <2>2, <2>4, CommandKeeps
<1> QED BY <1>4, <1>5, <1>6 DEF mark_many

LEMMA MovesKeep == PanelInv /\ move => PanelInv'
<1> SUFFICES ASSUME PanelInv, move PROVE PanelInv'
  OBVIOUS
<1>1. AtRest
  BY DEF move
<1>2. PanelOK(p)
  BY <1>1, AtRestIs
<1>3. \E scroll, r : /\ Command(r)
                     /\ \/ r = move_down(p, scroll) \/ r = move_up(p, scroll)
                        \/ r = prev_page(p) \/ r = next_page(p)
                        \/ \E i \in Targets(p) : r = go_to(p, i)
  BY DEF move
<1> QED BY <1>1, <1>2, <1>3, MoveKeeps, CommandKeeps

LEMMA SortKeeps == PanelInv /\ sort_reverse => PanelInv'
<1> SUFFICES ASSUME PanelInv, sort_reverse PROVE PanelInv'
  OBVIOUS
<1> DEFINE v == [p EXCEPT !.reverse = ~@]
<1>1. AtRest /\ Command(panel_re_sort(v))
  BY DEF sort_reverse
<1>2. PanelOK(p)
  BY <1>1, AtRestIs
<1>3. PICK w : w = v
  OBVIOUS
<1>4. PanelOK(w)
  BY <1>2, <1>3, ReversedKeeps
<1> HIDE DEF v
<1> QED BY <1>1, <1>3, <1>4, ReSortKeeps, CommandKeeps

LEMMA ComparingKeeps == PanelInv /\ compare_dir => PanelInv'
<1> SUFFICES ASSUME PanelInv, compare_dir PROVE PanelInv'
  OBVIOUS
<1>1. AtRest
  BY DEF compare_dir
<1>2. PICK S \in SUBSET {i \in DOMAIN p.list : ~p.list[i].dir} :
             Command(MarkAll([Unmarked(p) EXCEPT !.stale = FALSE], S, TRUE))
  BY DEF compare_dir
<1>3. S \in SUBSET DOMAIN p.list
  OBVIOUS
<1>4. PanelOK(p)
  BY <1>1, AtRestIs
<1>5. PanelOK(MarkAll([Unmarked(p) EXCEPT !.stale = FALSE], S, TRUE))
  BY <1>3, <1>4, CompareKeeps
<1> QED BY <1>1, <1>2, <1>5, CommandKeeps

LEMMA SizesKeep == PanelInv /\ smart_dirsize_cmd => PanelInv'
<1> SUFFICES ASSUME PanelInv, smart_dirsize_cmd PROVE PanelInv'
  OBVIOUS
<1>1. AtRest
  BY DEF smart_dirsize_cmd
<1>2. PanelOK(p)
  BY <1>1, AtRestIs
<1>3. \A scroll : PanelOK(move_down(p, scroll))
  BY <1>2, MoveKeeps
<1>4. \E q, S : PanelOK(q) /\ Command(Counted(q, S))
  BY <1>2, <1>3 DEF smart_dirsize_cmd, dirsizes_cmd, single_dirsize_cmd
<1> QED BY <1>1, <1>4, CountedKeeps, CommandKeeps

(* The list of files found, shown again, has no marks: nothing to count, if *)
(* nothing was counted before.                                              *)
LEMMA ShownAgainKeeps == PanelInv /\ do_panelize_cd => PanelInv'
<1> SUFFICES ASSUME PanelInv, do_panelize_cd PROVE PanelInv'
  OBVIOUS
<1>1. PICK l : l = IF found = << >> THEN dir_list_init ELSE found
  OBVIOUS
<1>2. PICK q : q = [p EXCEPT !.list = l, !.is_panelized = TRUE,
                             !.stale = p.stale \/ p.marked # 0]
  OBVIOUS
<1>3. AtRest /\ Command(try_to_select(q, NoName))
  BY <1>1, <1>2 DEF do_panelize_cd
<1>4. PanelOK(p) /\ ListOK(p) /\ p \in Panels
  BY <1>3, AtRestIs DEF PanelOK, ListOK
<1>5. FilesOK(l) /\ \A i \in DOMAIN l : ~l[i].marked
  BY <1>1, InitListIs DEF PanelInv
<1>6. ListOK(q)
  <2>1. l \in Seq(Entries)
    BY <1>5 DEF FilesOK
  <2>2. q \in Panels /\ q.list = l
    BY <1>2, <1>4, <2>1 DEF Panels
  <2> QED BY <1>5, <2>2 DEF ListOK
<1>7. ~q.stale => Tally(q)
  <2> SUFFICES ASSUME ~q.stale PROVE Tally(q)
    OBVIOUS
  <2>1. ~p.stale /\ p.marked = 0
    BY <1>2, <1>4 DEF Panels
  <2>2. Tally(p)
    BY <1>4, <2>1 DEF PanelOK
  <2>3. p.dirs_marked = 0 /\ p.total = 0
    BY <1>4, <2>1, <2>2, NothingMarked
  <2>4. q.marked = 0 /\ q.dirs_marked = 0 /\ q.total = 0 /\ q.list = l
    BY <1>2, <1>4, <2>1, <2>3 DEF Panels
  <2>5. MarkedAt(q) = {}
    BY <1>5, <2>4 DEF MarkedAt
  <2> QED BY <2>4, <2>5, NothingTallied
<1>8. PanelOK(try_to_select(q, NoName))
  BY <1>6, <1>7, SelectKeeps
<1> QED BY <1>3, <1>8, CommandKeeps

(* Files that are found, with the panel cleaned for them.                   *)
LEMMA FindKeeps == ASSUME NEW S \in SUBSET Names PROVE PanelInv /\ find_panelize(S) => PanelInv'
<1> SUFFICES ASSUME PanelInv, find_panelize(S) PROVE PanelInv'
  OBVIOUS
<1>1. PICK files : files = dir_list_init \o SetToSeq({FileEntry(n, TRUE) : n \in S})
  OBVIOUS
<1>2. PICK q : q = [panel_clean_dir(p) EXCEPT !.list = files, !.is_panelized = TRUE]
  OBVIOUS
<1>3. /\ AtRest /\ found' = files /\ p' = try_to_select(dir_list_sort(q), NoName)
      /\ disk' = disk /\ cwdir' = cwdir /\ load' = load /\ batch' = batch
  BY <1>1, <1>2 DEF find_panelize
<1>4. FilesOK(files) /\ \A i \in DOMAIN files : ~files[i].marked
  BY <1>1, FoundIs
<1>5. load = NoLoad /\ batch = NoBatch /\ p \in Panels
  BY <1>3, AtRestIs DEF PanelOK, ListOK
<1>6. /\ ListOK(q) /\ q.list = files /\ q.marked = 0 /\ q.dirs_marked = 0 /\ q.total = 0
  <2>1. files \in Seq(Entries)
    BY <1>4 DEF FilesOK
  <2>2. q \in Panels
    <3>1. PICK c : c = panel_clean_dir(p)
      OBVIOUS
    <3>2. c \in Panels
      <4>1. PICK e \in Seq(Entries) : e = << >>
        BY EmptySeq
      <4>2. PICK z \in Int : z = 0
        OBVIOUS
      <4>3. c = [p EXCEPT !.list = e, !.marked = z, !.dirs_marked = z, !.total = z,
                          !.selected = z, !.top_file = z, !.is_panelized = FALSE,
                          !.stale = FALSE]
        BY <3>1, <4>1, <4>2 DEF panel_clean_dir
      <4> QED BY <1>5, <4>3 DEF Panels
    <3> QED BY <1>2, <2>1, <3>1, <3>2 DEF Panels
  <2>3. q.list = files /\ q.marked = 0 /\ q.dirs_marked = 0 /\ q.total = 0
    BY <1>2, <1>5 DEF Panels, panel_clean_dir
  <2> QED BY <1>4, <2>2, <2>3 DEF ListOK
<1>7. Tally(q)
  <2>1. MarkedAt(q) = {}
    BY <1>4, <1>6 DEF MarkedAt
  <2> QED BY <1>6, <2>1, NothingTallied
<1>8. PanelOK(p')
  BY <1>3, <1>6, <1>7, SortSelectKeeps
<1>9. ListOK(p') /\ ~NoLoad.on
  BY <1>8 DEF PanelOK, NoLoad
<1> QED BY <1>3, <1>4, <1>5, <1>8, <1>9 DEF PanelInv

(* The panel is drawn anew in another size.                                 *)
LEMMA RedrawnKeeps ==
  ASSUME NEW q, ListOK(q), NEW h \in Heights, NEW r, r = Redrawn(q, h)
  PROVE  OnlyCursor(q, r) /\ Shown(r) /\ ListOK(r)
<1>1. PICK v : v = [q EXCEPT !.items = h]
  OBVIOUS
<1>2. h \in Nat \ {0}
  BY HeightsAssumption
<1>3. q \in Panels /\ Len(q.list) \in Nat /\ Len(q.list) >= 1
  BY NotEmpty
<1>4. v \in Panels /\ OnlyCursor(q, v) /\ v.list = q.list
  <2>1. v \in Panels
    BY <1>1, <1>2, <1>3 DEF Panels
  <2>2. /\ v.list = q.list /\ v.marked = q.marked /\ v.dirs_marked = q.dirs_marked
        /\ v.total = q.total /\ v.reverse = q.reverse
        /\ v.is_panelized = q.is_panelized /\ v.stale = q.stale
    BY <1>1, <1>3 DEF Panels
  <2> QED BY <2>1, <2>2 DEF OnlyCursor
<1>5. OnlyCursor(v, r) /\ Shown(r)
  <2>1. r = adjust_top_file(v)
    BY <1>1 DEF Redrawn
  <2> QED BY <1>3, <1>4, <2>1, SelectDoes
<1>6. OnlyCursor(q, r)
  BY <1>4, <1>5, OnlyCursorTransitive
<1> QED BY <1>5, <1>6, OnlyCursorOK

(* A loop over files looks at the list and the marks alone.                 *)
LEMMA LoopKeepsCursor ==
  ASSUME NEW q, NEW r, OnlyCursor(q, r), NEW b, LoopOK(q, b)
  PROVE  LoopOK(r, b)
<1>1. MarkedAt(r) = MarkedAt(q) /\ MarkedNames(r) = MarkedNames(q)
  BY OnlyCursorOK
<1>2. r.list = q.list /\ r.stale = q.stale
  BY DEF OnlyCursor
<1> QED BY <1>1, <1>2 DEF LoopOK, AtFirst

LEMMA ResizeKeeps == ASSUME NEW h \in Heights PROVE PanelInv /\ resize(h) => PanelInv'
<1> SUFFICES ASSUME PanelInv, resize(h) PROVE PanelInv'
  OBVIOUS
<1>1. PICK r : r = Redrawn(p, h)
  OBVIOUS
<1>2. /\ ~load.on /\ p' = r /\ disk' = disk /\ cwdir' = cwdir /\ found' = found
      /\ load' = load /\ batch' = batch
  BY <1>1 DEF resize
<1>3. load = NoLoad /\ PanelOK(p) /\ ListOK(p)
  BY <1>2 DEF PanelInv
<1>4. OnlyCursor(p, r) /\ Shown(r) /\ ListOK(r)
  BY <1>1, <1>3, RedrawnKeeps
<1>5. PanelOK(r)
  BY <1>3, <1>4, CursorKeeps
<1>6. batch = NoBatch \/ LoopOK(r, batch)
  BY <1>4, LoopKeepsCursor DEF PanelInv
<1> QED BY <1>2, <1>3, <1>4, <1>5, <1>6 DEF PanelInv

(* Meanwhile others change what is on the disk.                             *)
LEMMA OthersKeep ==
  ASSUME NEW d \in Directories, NEW n \in Names PROVE PanelInv /\ others_change(d, n) => PanelInv'
<1> SUFFICES ASSUME PanelInv, others_change(d, n) PROVE PanelInv'
  OBVIOUS
<1>1. cwdir' = cwdir /\ p' = p /\ found' = found /\ batch' = batch
  BY DEF others_change
<1>2. disk' \in [Directories -> SUBSET Names]
  BY DEF others_change, PanelInv
<1>3. IF load.on THEN ReadingOK' ELSE load' = NoLoad
  <2>1. CASE load' = load
    BY <1>1, <2>1 DEF PanelInv, ReadingOK
  <2>2. CASE load.on /\ n \notin Listed(p) /\ load' = [load EXCEPT !.todo = @ \cup {n}]
    <3>1. ReadingOK
      BY <2>2 DEF PanelInv
    <3>2. load' \in Loads
      BY <2>2, <3>1 DEF ReadingOK, Loads
    <3>3. /\ load'.todo = load.todo \cup {n} /\ load'.fresh = load.fresh /\ load'.keep = load.keep
          /\ load'.before = load.before /\ load'.want = load.want /\ load'.cnt = load.cnt
      BY <2>2, <3>1 DEF ReadingOK, Loads
    <3>4. load'.todo \cap Listed(p) = {}
      BY <2>2, <3>1, <3>3 DEF ReadingOK
    <3> QED BY <1>1, <2>2, <3>1, <3>2, <3>3, <3>4 DEF ReadingOK
  <2> QED BY <2>1, <2>2 DEF others_change
<1>4. load'.on = load.on
  BY <1>3 DEF PanelInv, ReadingOK, Loads, NoLoad
<1> QED BY <1>1, <1>2, <1>3, <1>4 DEF PanelInv

(* A directory is read: its names come one by one, in any order.            *)
LEMMA EmptiedIs ==
  ASSUME NEW q \in Panels, NEW r, r = [q EXCEPT !.list = dir_list_init]
  PROVE  /\ ListOK(r) /\ MarkedAt(r) = {} /\ MarkedNames(r) = {} /\ Listed(r) = {DotDot}
         /\ r.list = dir_list_init /\ r.stale = q.stale
         /\ r.marked = q.marked /\ r.dirs_marked = q.dirs_marked /\ r.total = q.total
<1>1. FilesOK(dir_list_init)
  BY InitListIs
<1>2. ListOK(r) /\ r.list = dir_list_init /\ r.stale = q.stale
  BY <1>1, ListSet
<1>3. DOMAIN r.list = {1} /\ r.list[1].name = DotDot /\ ~r.list[1].marked
  BY <1>2, InitListIs
<1>4. Range(r.list) = {r.list[1]}
  BY <1>3 DEF Range
<1>5. r.marked = q.marked /\ r.dirs_marked = q.dirs_marked /\ r.total = q.total
  BY DEF Panels
<1> QED BY <1>2, <1>3, <1>4, <1>5 DEF MarkedAt, MarkedNames, Listed

LEMMA MarkedNamesAre ==
  ASSUME NEW q, ListOK(q)
  PROVE  /\ MarkedNames(q) \in SUBSET Names
         /\ \A i \in DOMAIN q.list : q.list[i].marked <=> q.list[i].name \in MarkedNames(q)
         /\ MarkedNames(q) = {q.list[i].name : i \in MarkedAt(q)}
         /\ MarkedNames(q) \subseteq Listed(q)
<1>1. \A i \in DOMAIN q.list : q.list[i] \in Entries /\ q.list[i] \in Range(q.list)
  BY ListDomain DEF ListOK, Range
<1>2. \A e \in Range(q.list) : \E i \in DOMAIN q.list : e = q.list[i]
  BY DEF Range
<1>3. MarkedNames(q) = {q.list[i].name : i \in MarkedAt(q)}
  BY <1>1, <1>2 DEF MarkedNames, MarkedAt
<1>4. \A i, j \in DOMAIN q.list : q.list[i].name = q.list[j].name => i = j
  BY DEF ListOK, FilesOK
<1>5. \A i \in DOMAIN q.list : q.list[i].marked => q.list[i].name \in Names
  BY <1>1 DEF ListOK, FilesOK, Entries
<1>6. MarkedNames(q) \in SUBSET Names
  BY <1>3, <1>5 DEF MarkedAt
<1>7. \A i \in DOMAIN q.list : q.list[i].marked <=> q.list[i].name \in MarkedNames(q)
  BY <1>3, <1>4 DEF MarkedAt
<1> QED BY <1>3, <1>6, <1>7 DEF MarkedNames, Listed

(* The reading of a directory begins.                                       *)
LEMMA LoadingKeeps ==
  ASSUME PanelInv, ~load.on, NEW q \in Panels, NEW dir \in Directories, NEW fresh \in BOOLEAN,
         NEW want \in Names \cup {DotDot, NoName}, Loading(q, dir, want, fresh),
         disk' = disk, found' = found, batch' = NoBatch,
         fresh => ~q.stale /\ q.marked = 0 /\ q.dirs_marked = 0 /\ q.total = 0
                  /\ MarkedNames(q) = {},
         ~fresh => q = p /\ want = Cursor(p)
  PROVE  PanelInv'
<1>1. PanelOK(p) /\ ListOK(p) /\ load = NoLoad
  BY IdleIs DEF PanelOK
<1>2. MarkedNames(p) \in SUBSET Names
  BY <1>1, MarkedNamesAre
<1>3. MarkedNames(q) \in SUBSET Names
  BY <1>2
<1>4. PICK m : m = MarkedNames(q)
  OBVIOUS
<1>5. PICK b : b = [marked |-> MarkedNames(p), cursor |-> Cursor(p), dir |-> cwdir]
  OBVIOUS
<1>6. Cursor(p) \in Names \cup {DotDot}
  BY <1>1, CursorIsListed DEF PanelOK, Shown
<1>7. disk[dir] \in SUBSET Names /\ cwdir \in Directories
  BY DEF PanelInv
<1>8. Cardinality(m) \in Nat
  <2>1. IsFiniteSet(m)
    BY <1>3, <1>4, NamesAssumption, FS_Subset
  <2> QED BY <2>1, FS_CardinalityType
<1>9. load' = [on |-> TRUE, todo |-> disk[dir], count |-> 0, want |-> want, fresh |-> fresh,
               keep |-> m, cnt |-> Cardinality(m), before |-> b]
  BY <1>4, <1>5 DEF Loading
<1>10. b \in [marked : SUBSET Names, cursor : Names \cup {DotDot}, dir : Directories]
  BY <1>2, <1>5, <1>6, <1>7
<1>11. load' \in Loads
  <2>1. m \in SUBSET Names
    BY <1>3, <1>4
  <2>2. PICK c : c = Cardinality(m) /\ c \in Int
    BY <1>8
  <2>3. PICK t : t = disk[dir] /\ t \in SUBSET Names
    BY <1>7
  <2> QED BY <1>9, <1>10, <2>1, <2>2, <2>3 DEF Loads
<1>12. PICK r : r = [q EXCEPT !.list = dir_list_init]
  OBVIOUS
<1>13. p' = r /\ cwdir' = dir
  BY <1>12 DEF Loading
<1>14. /\ ListOK(r) /\ MarkedAt(r) = {} /\ Listed(r) = {DotDot}
       /\ r.list = dir_list_init /\ r.stale = q.stale
       /\ r.marked = q.marked /\ r.dirs_marked = q.dirs_marked /\ r.total = q.total
  BY <1>12, EmptiedIs
<1>15. /\ load'.todo = disk[dir] /\ load'.fresh = fresh /\ load'.keep = m /\ load'.want = want
       /\ load'.cnt = Cardinality(m) /\ load'.before.marked = MarkedNames(p)
       /\ load'.before.cursor = Cursor(p) /\ load'.on
  BY <1>5, <1>9
<1>16. DotDot \notin Names
  BY NamesAssumption DEF DotDot
<1>17. load'.todo \cap Listed(r) = {}
  BY <1>7, <1>14, <1>15, <1>16
<1>18. fresh => ~r.stale /\ Tally(r) /\ MarkedAt(r) = {}
  BY <1>14, NothingTallied
<1>19. ASSUME ~fresh
       PROVE  /\ m = MarkedNames(p) /\ want = Cursor(p)
              /\ \A i \in DOMAIN r.list : r.list[i].marked <=> r.list[i].name \in m
              /\ Cardinality(m) = Cardinality(m \ Listed(r))
  <2>1. m \ Listed(r) = m
    BY <1>3, <1>4, <1>14, <1>16
  <2>2. \A i \in DOMAIN r.list : ~r.list[i].marked /\ r.list[i].name = DotDot
    BY <1>14, InitListIs
  <2> QED BY <1>3, <1>4, <1>16, <1>19, <2>1, <2>2
<1>20. batch' = NoBatch /\ NoBatch.op = "none"
  BY DEF NoBatch
<1>21. ReadingOK'
  BY <1>11, <1>13, <1>14, <1>15, <1>17, <1>18, <1>19, <1>20 DEF ReadingOK
<1> QED BY <1>13, <1>14, <1>15, <1>20, <1>21 DEF PanelInv

(* A directory that cannot be opened, and the list of a find.               *)
LEMMA AtOnceKeeps ==
  ASSUME PanelInv, ~load.on, PanelOK(p'), disk' = disk, cwdir' \in Directories, found' = found,
         load' = load, batch' = NoBatch
  PROVE  PanelInv'
<1>1. load = NoLoad /\ ~NoLoad.on
  BY IdleIs DEF NoLoad
<1>2. ListOK(p')
  BY DEF PanelOK
<1> QED BY <1>1, <1>2 DEF PanelInv

LEMMA OpenFails ==
  ASSUME NEW q, ListOK(q), NEW want \in Names \cup {DotDot, NoName}, opendir_fails(q, want)
  PROVE  PanelOK(p')
<1>1. PICK r : r = [q EXCEPT !.list = dir_list_init]
  OBVIOUS
<1>2. ListOK(r)
  BY <1>1, EmptiedIs DEF ListOK
<1>3. PICK s : s = recalculate_panel_summary(r)
  OBVIOUS
<1>4. ListOK(s) /\ Tally(s)
  BY <1>2, <1>3, SummaryDoes
<1>5. p' = try_to_select(s, want)
  BY <1>1, <1>3 DEF opendir_fails
<1> QED BY <1>4, <1>5, SelectKeeps

LEMMA UpdateKeeps ==
  ASSUME PanelInv, ~load.on, disk' = disk, found' = found, batch' = NoBatch,
         update_one_panel_widget(p, Cursor(p))
  PROVE  PanelInv'
<1>1. PanelOK(p) /\ ListOK(p) /\ p \in Panels
  BY IdleIs DEF PanelOK, ListOK
<1>2. PICK want : want = Cursor(p)
  OBVIOUS
<1>3. want \in Names \cup {DotDot, NoName}
  BY <1>1, <1>2, CursorIsListed DEF PanelOK, Shown
<1>4. panel_recursive_cd_to_parent \in Directories
  BY DEF panel_recursive_cd_to_parent, PanelInv, Directories
<1>5. CASE /\ p' = try_to_select(reload_panelized(p), want)
           /\ UNCHANGED <<cwdir, load>>
  <2>1. PanelOK(p')
    BY <1>1, <1>3, <1>5, ReloadPanelizedKeeps
  <2>2. cwdir' \in Directories
    BY <1>5 DEF PanelInv
  <2> QED BY <1>5, <2>1, <2>2, AtOnceKeeps
<1>6. CASE opendir_fails(p, want)
  <2>1. PanelOK(p')
    BY <1>1, <1>3, <1>6, OpenFails
  <2>2. cwdir' \in Directories /\ load' = load
    BY <1>4, <1>6 DEF opendir_fails
  <2> QED BY <2>1, <2>2, AtOnceKeeps
<1>7. CASE Loading(p, panel_recursive_cd_to_parent, want, FALSE)
  BY <1>1, <1>2, <1>3, <1>4, <1>7, LoadingKeeps
<1> QED BY <1>2, <1>5, <1>6, <1>7 DEF update_one_panel_widget

LEMMA RereadKeeps == PanelInv /\ reread_cmd => PanelInv'
BY UpdateKeeps, AtRestIs DEF reread_cmd, AtRest

LEMMA CleanIs ==
  ASSUME NEW q \in Panels, NEW r, r = panel_clean_dir(q)
  PROVE  /\ r \in Panels /\ ~r.stale /\ r.marked = 0 /\ r.dirs_marked = 0 /\ r.total = 0
         /\ MarkedNames(r) = {}
<1>1. PICK e \in Seq(Entries) : e = << >>
  BY EmptySeq
<1>2. PICK z \in Int : z = 0
  OBVIOUS
<1>3. r = [q EXCEPT !.list = e, !.marked = z, !.dirs_marked = z, !.total = z,
                    !.selected = z, !.top_file = z, !.is_panelized = FALSE, !.stale = FALSE]
  BY <1>1, <1>2 DEF panel_clean_dir
<1>4. r \in Panels
  BY ZenonT(60), <1>3 DEF Panels
<1>5. r.list = << >> /\ ~r.stale /\ r.marked = 0 /\ r.dirs_marked = 0 /\ r.total = 0
  BY <1>1, <1>2, <1>3 DEF Panels
<1>6. Range(r.list) = {}
  BY <1>5 DEF Range
<1> QED BY <1>4, <1>5, <1>6 DEF MarkedNames

LEMMA ChangeDirKeeps ==
  ASSUME NEW dir \in Directories, NEW want \in Dirs \cup {NoName}
  PROVE  PanelInv /\ panel_do_cd(dir, want) => PanelInv'
<1> SUFFICES ASSUME PanelInv, panel_do_cd(dir, want) PROVE PanelInv'
  OBVIOUS
<1>1. AtRest /\ disk' = disk /\ found' = found /\ batch' = batch
  BY DEF panel_do_cd
<1>2. p \in Panels /\ batch = NoBatch
  BY <1>1, AtRestIs DEF PanelOK, ListOK
<1>3. PICK q : q = panel_clean_dir(p)
  OBVIOUS
<1>4. /\ q \in Panels /\ ~q.stale /\ q.marked = 0 /\ q.dirs_marked = 0 /\ q.total = 0
      /\ MarkedNames(q) = {}
  BY <1>2, <1>3, CleanIs
<1>5. Loading(q, dir, want, TRUE)
  BY <1>3 DEF panel_do_cd
<1>6. want \in Names \cup {DotDot, NoName}
  BY NamesAssumption
<1> QED BY <1>1, <1>2, <1>4, <1>5, <1>6, LoadingKeeps DEF AtRest

(* One more name is in the list: marked, if it is among those kept, which   *)
(* are then one less to come.                                               *)
LEMMA AppendIs ==
  ASSUME NEW l, FilesOK(l), NEW e \in Entries, e.name # DotDot,
         \A i \in DOMAIN l : l[i].name # e.name, NEW m, m = Append(l, e)
  PROVE  /\ FilesOK(m) /\ Len(m) = Len(l) + 1 /\ Len(l) \in Nat
         /\ DOMAIN l = 1..Len(l) /\ DOMAIN m = 1..Len(m) /\ m[Len(m)] = e
         /\ \A i \in DOMAIN l : i \in DOMAIN m /\ i # Len(m) /\ m[i] = l[i]
         /\ \A i \in DOMAIN m : i \in DOMAIN l \/ i = Len(m)
<1>1. l \in Seq(Entries)
  BY DEF FilesOK
<1>2. PICK n \in Nat : n = Len(l) /\ DOMAIN l = 1..n
  BY <1>1, LenProperties
<1>3. m \in Seq(Entries) /\ Len(m) = n + 1
  BY <1>1, <1>2, AppendProperties
<1>4. DOMAIN m = 1..(n + 1) /\ m[n + 1] = e /\ \A i \in 1..n : m[i] = l[i]
  BY <1>1, <1>2, <1>3, AppendProperties, LenProperties
<1>5. \A i \in 1..n : i \in 1..(n + 1) /\ i # n + 1
  BY <1>2
<1>6. \A i \in 1..(n + 1) : i \in 1..n \/ i = n + 1
  BY <1>2
<1>7. \A i, j \in DOMAIN m : m[i].name = m[j].name => i = j
  <2>1. \A i, j \in DOMAIN l : l[i].name = l[j].name => i = j
    BY DEF FilesOK
  <2> QED BY <1>2, <1>4, <1>5, <1>6, <2>1
<1>8. \E i \in DOMAIN m : m[i].name = DotDot
  BY <1>2, <1>4, <1>5 DEF FilesOK
<1>9. \A i \in DOMAIN m : m[i].marked => m[i].name # DotDot
  BY <1>2, <1>4, <1>6 DEF FilesOK
<1> QED BY <1>2, <1>3, <1>4, <1>5, <1>6, <1>7, <1>8, <1>9 DEF FilesOK

LEMMA EntryKeeps == ASSUME NEW n \in Names PROVE PanelInv /\ read_entry(n) => PanelInv'
<1> SUFFICES ASSUME PanelInv, read_entry(n) PROVE PanelInv'
  OBVIOUS
<1>1. /\ load.on /\ n \in load.todo /\ disk' = disk /\ cwdir' = cwdir /\ found' = found
      /\ batch' = batch
  BY DEF read_entry
<1>2. ReadingOK /\ ListOK(p) /\ p \in Panels /\ load \in Loads
  BY <1>1 DEF PanelInv, ReadingOK, ListOK
<1>3. PICK mark \in BOOLEAN : mark = (~load.fresh /\ MarkRead(n))
  OBVIOUS
<1>4. PICK alive \in BOOLEAN : alive = (n \in disk[cwdir])
  <2>1. (n \in disk[cwdir]) \in BOOLEAN
    OBVIOUS
  <2> QED BY <2>1, Zenon
<1>5. PICK e : e = [FileEntry(n, alive) EXCEPT !.marked = mark]
  OBVIOUS
<1>6. e \in Entries /\ e.name = n /\ e.marked = mark
  <2>1. n \in Names \cup {DotDot}
    OBVIOUS
  <2> QED BY ZenonT(60), <1>5, <2>1, EntryIs
<1>7. PICK left : left = [load EXCEPT !.todo = @ \ {n}]
  OBVIOUS
<1>8. /\ left \in Loads /\ left.on /\ left.todo = load.todo \ {n} /\ left.fresh = load.fresh
      /\ left.keep = load.keep /\ left.want = load.want /\ left.cnt = load.cnt
      /\ left.before = load.before /\ left.count = load.count
  BY <1>2, <1>7 DEF Loads
<1>9. CASE load' = left /\ p' = p
  <2>1. load'.todo \cap Listed(p) = {}
    BY <1>2, <1>8, <1>9 DEF ReadingOK
  <2>2. ReadingOK'
    BY <1>1, <1>2, <1>8, <1>9, <2>1 DEF ReadingOK
  <2> QED BY <1>1, <1>2, <1>8, <1>9, <2>2 DEF PanelInv
<1>10. CASE /\ p' = [p EXCEPT !.list = Append(@, e)]
            /\ load' = [left EXCEPT !.count = @ + 1, !.cnt = IF mark THEN @ - 1 ELSE @]
  <2>1. PICK c \in Int : c = IF mark THEN load.cnt - 1 ELSE load.cnt
    BY <1>2 DEF Loads
  <2>2. /\ load' \in Loads /\ load'.todo = load.todo \ {n} /\ load'.fresh = load.fresh
        /\ load'.keep = load.keep /\ load'.want = load.want /\ load'.before = load.before
        /\ load'.cnt = c /\ load'.on
    <3>1. PICK l : l = load'
      OBVIOUS
    <3>2. PICK k \in Nat : k = left.count + 1
      BY <1>8 DEF Loads
    <3>3. l = [left EXCEPT !.count = k, !.cnt = c]
      BY <1>8, <1>10, <2>1, <3>1, <3>2 DEF Loads
    <3>4. /\ l \in Loads /\ l.todo = left.todo /\ l.fresh = left.fresh
          /\ l.keep = left.keep /\ l.want = left.want /\ l.before = left.before
          /\ l.cnt = c /\ l.on
      BY <1>8, <3>3 DEF Loads
    <3> QED BY <1>8, <3>1, <3>4
  <2>3. n # DotDot
    BY NamesAssumption DEF DotDot
  <2>4. \A i \in DOMAIN p.list : p.list[i].name # n
    BY <1>1, <1>2 DEF ReadingOK, Listed, Range
  <2>5. PICK m : m = Append(p.list, e)
    OBVIOUS
  <2>6. /\ FilesOK(m) /\ Len(m) = Len(p.list) + 1 /\ Len(p.list) \in Nat
        /\ DOMAIN p.list = 1..Len(p.list) /\ DOMAIN m = 1..Len(m) /\ m[Len(m)] = e
        /\ \A i \in DOMAIN p.list : i \in DOMAIN m /\ i # Len(m) /\ m[i] = p.list[i]
        /\ \A i \in DOMAIN m : i \in DOMAIN p.list \/ i = Len(m)
    <3>1. FilesOK(p.list)
      BY <1>2 DEF ListOK
    <3>2. PICK l : l = p.list
      OBVIOUS
    <3>3. FilesOK(l) /\ e \in Entries /\ m = Append(l, e)
      BY <1>6, <2>5, <3>1, <3>2
    <3>4. e.name # DotDot /\ \A i \in DOMAIN l : l[i].name # e.name
      BY <1>6, <2>3, <2>4, <3>2
    <3>5. /\ FilesOK(m) /\ Len(m) = Len(l) + 1 /\ Len(l) \in Nat
          /\ DOMAIN l = 1..Len(l) /\ DOMAIN m = 1..Len(m) /\ m[Len(m)] = e
          /\ \A i \in DOMAIN l : i \in DOMAIN m /\ i # Len(m) /\ m[i] = l[i]
          /\ \A i \in DOMAIN m : i \in DOMAIN l \/ i = Len(m)
      <4>1. /\ FilesOK(l) /\ e \in Entries /\ e.name # DotDot
            /\ \A i \in DOMAIN l : l[i].name # e.name
        BY <3>3, <3>4
      <4>2. \A k : k = Append(l, e) =>
              /\ FilesOK(k) /\ Len(k) = Len(l) + 1 /\ Len(l) \in Nat
              /\ DOMAIN l = 1..Len(l) /\ DOMAIN k = 1..Len(k) /\ k[Len(k)] = e
              /\ \A i \in DOMAIN l : i \in DOMAIN k /\ i # Len(k) /\ k[i] = l[i]
              /\ \A i \in DOMAIN k : i \in DOMAIN l \/ i = Len(k)
        BY <4>1, AppendIs, ZenonT(30)
      <4> QED BY <3>3, <4>2
    <3> QED BY <3>2, <3>5
  <2>7. p' = [p EXCEPT !.list = m]
    BY <1>10, <2>5
  <2>8. ListOK(p') /\ p'.list = m /\ p'.stale = p.stale
    BY <1>2, <2>6, <2>7, ListSet
  <2>9. p'.marked = p.marked /\ p'.dirs_marked = p.dirs_marked /\ p'.total = p.total
    BY <1>2, <2>7 DEF Panels
  <2>10. Listed(p') = Listed(p) \cup {n}
    <3>1. Range(m) = Range(p.list) \cup {e}
      <4>1. Len(m) \in DOMAIN m
        BY <2>6
      <4> QED BY <2>6, <4>1 DEF Range
    <3>2. e.name = n
      BY <1>6
    <3> QED BY <2>8, <3>1, <3>2 DEF Listed
  <2>11. load'.todo \cap Listed(p') = {}
    BY <1>2, <2>2, <2>10 DEF ReadingOK
  <2>12. ASSUME load.fresh PROVE ~p'.stale /\ Tally(p') /\ MarkedAt(p') = {}
    <3>1. ~p.stale /\ Tally(p) /\ MarkedAt(p) = {} /\ ~mark
      BY <1>2, <1>3, <2>12 DEF ReadingOK
    <3>2. p.marked = 0 /\ p.dirs_marked = 0 /\ p.total = 0
      BY <1>2, <3>1, NothingMarked
    <3>3. MarkedAt(p') = {}
      BY <1>6, <2>6, <2>8, <3>1 DEF MarkedAt
    <3> QED BY <2>8, <2>9, <3>1, <3>2, <3>3, NothingTallied
  <2>13. ASSUME ~load.fresh
         PROVE  /\ load.keep = load.before.marked /\ load.want = load.before.cursor
                /\ \A i \in DOMAIN m : m[i].marked <=> m[i].name \in load.keep
                /\ c = Cardinality(load.keep \ Listed(p'))
    <3>1. /\ load.keep = load.before.marked /\ load.want = load.before.cursor
          /\ \A i \in DOMAIN p.list : p.list[i].marked <=> p.list[i].name \in load.keep
          /\ load.cnt = Cardinality(load.keep \ Listed(p))
      BY <1>2, <2>13 DEF ReadingOK
    <3>2. PICK A : A = load.keep \ Listed(p)
      OBVIOUS
    <3>3. IsFiniteSet(A)
      <4>1. A \in SUBSET Names
        BY <1>2, <3>2 DEF Loads
      <4> QED BY <4>1, NamesAssumption, FS_Subset
    <3>4. n \in A <=> n \in load.keep
      BY <1>1, <1>2, <3>2 DEF ReadingOK
    <3>5. n \in A => Cardinality(A) > 0 /\ Cardinality(A \ {n}) = Cardinality(A) - 1
      <4>1. SUFFICES ASSUME n \in A PROVE Cardinality(A) > 0 /\ Cardinality(A \ {n}) = Cardinality(A) - 1
        OBVIOUS
      <4>2. Cardinality(A) \in Nat /\ Cardinality(A) # 0
        BY <3>3, <4>1, FS_CardinalityType, FS_EmptySet
      <4>3. Cardinality(A \ {n}) = Cardinality(A) - 1
        BY <3>3, <4>1, FS_RemoveElement
      <4> QED BY <4>2, <4>3
    <3>6. mark <=> n \in A
      BY <1>3, <2>13, <3>1, <3>2, <3>4, <3>5 DEF MarkRead
    <3>7. load.keep \ Listed(p') = A \ {n}
      BY <2>10, <3>2
    <3>8. n \notin A => A \ {n} = A
      OBVIOUS
    <3>9. c = Cardinality(load.keep \ Listed(p'))
      BY <2>1, <3>1, <3>2, <3>5, <3>6, <3>7, <3>8
    <3>10. \A i \in DOMAIN m : m[i].marked <=> m[i].name \in load.keep
      BY <1>6, <2>6, <3>1, <3>4, <3>6
    <3> QED BY <3>1, <3>9, <3>10
  <2>14. ReadingOK'
    BY <1>1, <1>2, <2>2, <2>8, <2>11, <2>12, <2>13 DEF ReadingOK
  <2>15. batch' = NoBatch
    BY <1>1, <1>2 DEF PanelInv, ReadingOK, LoopOK, Batches
  <2> QED BY <1>1, <2>2, <2>8, <2>14, <2>15 DEF PanelInv
<1> QED BY <1>3, <1>4, <1>5, <1>7, <1>9, <1>10, <1>6 DEF read_entry

(* The list half read is drawn anew.                                        *)
LEMMA RefreshKeeps ==
  ASSUME NEW h \in Heights PROVE PanelInv /\ refresh_while_reading(h) => PanelInv'
<1> SUFFICES ASSUME PanelInv, refresh_while_reading(h) PROVE PanelInv'
  OBVIOUS
<1>1. PICK r : r = Redrawn(p, h)
  OBVIOUS
<1>2. /\ load.on /\ p' = r /\ disk' = disk /\ cwdir' = cwdir /\ found' = found
      /\ load' = load /\ batch' = batch
  BY <1>1 DEF refresh_while_reading
<1>3. ReadingOK /\ ListOK(p)
  BY <1>2 DEF PanelInv
<1>4. OnlyCursor(p, r) /\ ListOK(r)
  BY <1>1, <1>3, RedrawnKeeps
<1>5. /\ Tally(p) => Tally(r)
      /\ MarkedAt(r) = MarkedAt(p) /\ Listed(r) = Listed(p) /\ r.list = p.list /\ r.stale = p.stale
  BY <1>4, OnlyCursorOK DEF OnlyCursor
<1>6. ReadingOK'
  BY <1>2, <1>3, <1>5 DEF ReadingOK
<1>7. batch' = NoBatch \/ LoopOK(p', batch')
  BY <1>2, <1>4, LoopKeepsCursor DEF PanelInv
<1> QED BY <1>2, <1>4, <1>6, <1>7 DEF PanelInv

(* The end: the list is sorted, and the marks are counted.                  *)
LEMMA ReadAllDoes ==
  ASSUME PanelInv, read_all
  PROVE  /\ PanelOK(p') /\ MarkedNames(p') = MarkedNames(p) /\ Listed(p') = Listed(p)
         /\ load.want \in Listed(p') => Cursor(p') = load.want
<1>1. ReadingOK /\ ListOK(p) /\ load \in Loads
  BY DEF PanelInv, read_all, ReadingOK
<1>2. load.want \in Names \cup {DotDot, NoName}
  BY <1>1 DEF Loads
<1>3. CASE load.fresh
  <2>1. Tally(p) /\ p' = try_to_select(dir_list_sort(p), load.want)
    BY <1>1, <1>3 DEF read_all, ReadingOK
  <2>2. PICK n \in Names \cup {DotDot, NoName} : n = load.want
    BY <1>2
  <2> QED BY <1>1, <2>1, <2>2, SortSelectKeeps
<1>4. CASE ~load.fresh
  <2>1. PICK s : s = dir_list_sort(p)
    OBVIOUS
  <2>2. ListOK(s) /\ MarkedNames(s) = MarkedNames(p) /\ Listed(s) = Listed(p)
    BY <1>1, <2>1, SortDoes
  <2>3. PICK t : t = IF s.selected >= Len(s.list) THEN do_select(s, Len(s.list) - 1) ELSE s
    OBVIOUS
  <2>4. ListOK(t) /\ t.list = s.list
    <3>1. CASE t = s
      BY <2>2, <3>1
    <3>2. CASE t = do_select(s, Len(s.list) - 1) /\ t # s
      <4>1. /\ s \in Panels /\ Len(s.list) - 1 \in Int /\ s.items \in Int
        BY <2>2, NotEmpty, CursorType
      <4>2. PICK a \in Int : a = Len(s.list) - 1
        BY <4>1
      <4>3. PICK b \in Int : b = Greater(a - (s.items + 1) \div 2, 0)
        BY <4>1, <4>2 DEF Greater
      <4>4. t = [s EXCEPT !.selected = a, !.top_file = b]
        BY <3>2, <4>2, <4>3 DEF do_select
      <4>5. t \in Panels /\ t.list = s.list
        BY <4>1, <4>4 DEF Panels
      <4> QED BY <2>2, <4>5 DEF ListOK
    <3> QED BY <2>3, <3>1, <3>2
  <2>5. PICK u : u = recalculate_panel_summary(t)
    OBVIOUS
  <2>6. /\ ListOK(u) /\ Tally(u) /\ SameFiles(t.list, u.list) /\ DOMAIN u.list = DOMAIN t.list
        /\ \A i \in DOMAIN t.list : u.list[i].marked = t.list[i].marked
    BY <2>4, <2>5, SummaryDoes
  <2>7. \A i \in DOMAIN t.list : u.list[i].name = t.list[i].name
    BY <2>6 DEF SameFiles
  <2>8. MarkedNames(u) = MarkedNames(p) /\ Listed(u) = Listed(p)
    <3>1. Listed(u) = Listed(t)
      BY <2>6, <2>7 DEF Listed, Range
    <3>2. MarkedAt(u) = MarkedAt(t)
      BY <2>6 DEF MarkedAt
    <3>3. MarkedNames(u) = {u.list[i].name : i \in MarkedAt(u)}
      BY <2>6, MarkedNamesAre
    <3>4. MarkedNames(t) = {t.list[i].name : i \in MarkedAt(t)}
      BY <2>4, MarkedNamesAre
    <3>5. MarkedNames(u) = MarkedNames(t)
      BY <2>7, <3>2, <3>3, <3>4 DEF MarkedAt
    <3>6. MarkedNames(t) = MarkedNames(s) /\ Listed(t) = Listed(s)
      BY <2>4 DEF MarkedNames, Listed
    <3> QED BY <2>2, <3>1, <3>5, <3>6
  <2>9. p' = try_to_select(u, load.want)
    BY <1>4, <2>1, <2>3, <2>5 DEF read_all
  <2>10. PICK n \in Names \cup {DotDot, NoName} : n = load.want
    BY <1>2
  <2> QED BY <2>6, <2>8, <2>9, <2>10, SelectKeeps
<1> QED BY <1>3, <1>4

LEMMA ReadAllKeeps == PanelInv /\ read_all => PanelInv'
<1> SUFFICES ASSUME PanelInv, read_all PROVE PanelInv'
  OBVIOUS
<1>1. /\ disk' = disk /\ cwdir' = cwdir /\ found' = found /\ batch' = batch /\ load' = NoLoad
      /\ load.on
  BY DEF read_all
<1>2. PanelOK(p') /\ ListOK(p') /\ ~NoLoad.on
  BY ReadAllDoes DEF PanelOK, NoLoad
<1>3. batch' = NoBatch
  BY <1>1 DEF PanelInv, ReadingOK, LoopOK, Batches
<1> QED BY <1>1, <1>2, <1>3 DEF PanelInv

(* A loop over the marked files.                                            *)
LEMMA NameGoneIs ==
  ASSUME NEW q, ListOK(q), NEW at \in MarkedAt(q), NEW r, ListOK(r), SameFiles(q.list, r.list),
         MarkedAt(r) = MarkedAt(q) \ {at}
  PROVE  MarkedNames(r) = MarkedNames(q) \ {q.list[at].name}
<1>1. \A i \in DOMAIN q.list : r.list[i].name = q.list[i].name
  BY DEF SameFiles
<1>2. MarkedNames(r) = {r.list[i].name : i \in MarkedAt(r)}
  BY MarkedNamesAre
<1>3. MarkedNames(q) = {q.list[i].name : i \in MarkedAt(q)}
  BY MarkedNamesAre
<1>4. \A i, j \in DOMAIN q.list : q.list[i].name = q.list[j].name => i = j
  BY DEF ListOK, FilesOK
<1>5. MarkedAt(q) \subseteq DOMAIN q.list
  BY DEF MarkedAt
<1>6. {r.list[i].name : i \in MarkedAt(r)} = {q.list[i].name : i \in MarkedAt(r)}
  BY <1>1, <1>5
<1>7. \A i \in MarkedAt(q) : q.list[i].name = q.list[at].name => i = at
  BY <1>4, <1>5
<1>8. {q.list[i].name : i \in MarkedAt(q) \ {at}}
        = {q.list[i].name : i \in MarkedAt(q)} \ {q.list[at].name}
  BY <1>7
<1> QED BY <1>2, <1>3, <1>6, <1>8

(* The mark of one file is gone, and with it its name from the marked ones. *)
GoneFrom(q, at, r) ==
  /\ MarkedAt(r) = MarkedAt(q) \ {at}
  /\ MarkedNames(r) = MarkedNames(q) \ {q.list[at].name}
  /\ q.list[at].name \in MarkedNames(q)

LEMMA MarkGoneIs ==
  ASSUME NEW q, PanelOK(q), NEW at \in MarkedAt(q), NEW r, r = do_file_mark(q, at, FALSE)
  PROVE  PanelOK(r) /\ r.stale = q.stale /\ GoneFrom(q, at, r)
<1>1. ListOK(q) /\ at \in DOMAIN q.list /\ q.list[at].marked
  BY DEF PanelOK, MarkedAt
<1>2. q.list[at].name # DotDot
  BY <1>1 DEF ListOK, FilesOK
<1>3. /\ OnlyMarks(q, r)
      /\ \A i \in DOMAIN q.list :
           r.list[i].marked = IF i = at /\ q.list[i].name # DotDot THEN FALSE
                              ELSE q.list[i].marked
      /\ Tally(q) => Tally(r)
  BY ZenonT(60), <1>1, MarkDoes
<1>4. PanelOK(r) /\ ListOK(r)
  BY <1>3, MarksKeep DEF PanelOK
<1>5. DOMAIN r.list = DOMAIN q.list /\ r.stale = q.stale /\ SameFiles(q.list, r.list)
  BY ZenonT(60), <1>1, <1>3, OnlyMarksOK DEF OnlyMarks
<1>6. MarkedAt(r) = MarkedAt(q) \ {at}
  BY <1>2, <1>3, <1>5 DEF MarkedAt
<1>7. MarkedNames(r) = MarkedNames(q) \ {q.list[at].name}
  BY <1>1, <1>4, <1>5, <1>6, NameGoneIs
<1>8. MarkedNames(q) \in SUBSET Names /\ q.list[at].name \in MarkedNames(q)
  BY <1>1, MarkedNamesAre
<1> QED BY <1>4, <1>5, <1>6, <1>7, <1>8 DEF GoneFrom

LEMMA NextMarkedIs ==
  ASSUME NEW q, ListOK(q), NEW from \in Nat \ {0}
  PROVE  /\ NextMarked(q, from) \in SUBSET Nat
         /\ NextMarked(q, from) = {i \in MarkedAt(q) : from <= i}
         /\ NextMarked(q, from) # {} =>
              /\ Min(NextMarked(q, from)) \in MarkedAt(q)
              /\ Min(NextMarked(q, from)) \in Nat \ {0}
              /\ from <= Min(NextMarked(q, from))
              /\ \A i \in MarkedAt(q) : from <= i => Min(NextMarked(q, from)) <= i
<1>1. Len(q.list) \in Nat /\ DOMAIN q.list = 1..Len(q.list)
  BY NotEmpty
<1>2. PICK T : T = NextMarked(q, from)
  OBVIOUS
<1>3. T = {i \in MarkedAt(q) : from <= i} /\ T \in SUBSET Nat
  BY <1>1, <1>2 DEF NextMarked, MarkedAt
<1>4. T # {} => Min(T) \in T /\ \A i \in T : Min(T) <= i
  BY <1>3, MinIs
<1>5. MarkedAt(q) \subseteq Nat \ {0}
  BY <1>1 DEF MarkedAt
<1> QED BY <1>2, <1>3, <1>4, <1>5

LEMMA NextFileIs ==
  ASSUME NEW q, ListOK(q), NEW b \in Batches, NEW op \in {"ask", "apply"},
         NEW r, r = next_file(q, b, op)
  PROVE  /\ r \in Batches /\ r.chosen = b.chosen /\ r.done = b.done
         /\ r.op \in {op, "astray"}
         /\ r.op = op => r.file \in MarkedAt(q)
         /\ MarkedAt(q) # {} /\ (\A i \in MarkedAt(q) : b.file <= i) =>
              r.op = op /\ AtFirst(q, r)
<1>1. PICK f : f = b.file
  OBVIOUS
<1>2. f \in Nat \ {0}
  BY <1>1 DEF Batches
<1>3. PICK T : T = NextMarked(q, f)
  OBVIOUS
<1>4. PICK m : m = Min(T)
  OBVIOUS
<1>5. /\ T = {i \in MarkedAt(q) : f <= i}
      /\ T # {} => /\ m \in MarkedAt(q) /\ m \in Nat \ {0}
                   /\ \A i \in MarkedAt(q) : f <= i => m <= i
  BY <1>2, <1>3, <1>4, NextMarkedIs
<1>6. CASE T = {}
  <2>1. r = [b EXCEPT !.op = "astray"]
    BY <1>1, <1>3, <1>6 DEF next_file
  <2>2. r \in Batches /\ r.chosen = b.chosen /\ r.done = b.done /\ r.op = "astray"
    BY <2>1 DEF Batches
  <2>3. MarkedAt(q) # {} => ~\A i \in MarkedAt(q) : b.file <= i
    BY <1>1, <1>5, <1>6
  <2> QED BY <2>2, <2>3
<1>7. CASE T # {}
  <2>1. r = [b EXCEPT !.op = op, !.file = m]
    BY <1>1, <1>3, <1>4, <1>7 DEF next_file
  <2>2. /\ r \in Batches /\ r.chosen = b.chosen /\ r.done = b.done /\ r.op = op /\ r.file = m
    BY <1>5, <1>7, <2>1 DEF Batches
  <2>3. (\A i \in MarkedAt(q) : b.file <= i) => AtFirst(q, r)
    BY <1>1, <1>5, <1>7, <2>2 DEF AtFirst
  <2> QED BY <1>5, <1>7, <2>2, <2>3
<1> QED BY <1>6, <1>7

(* What is true of a loop between two files: at the head of it, chmod_cmd   *)
(* and the others look for the next one.                                    *)
Between(q, b) ==
  /\ b \in Batches
  /\ ~q.stale /\ b.chosen # {} =>
       /\ b.done \cap MarkedNames(q) = {} /\ b.done \cup MarkedNames(q) = b.chosen
       /\ \A i \in MarkedAt(q) : b.file <= i

LEMMA EndedKeeps ==
  ASSUME NEW q, NEW b, Between(q, b), NEW update \in BOOLEAN
  PROVE  LoopOK(q, Ended(b, update))
<1>1. PICK r : r = Ended(b, update)
  OBVIOUS
<1>2. r \in Batches /\ r.op = "done" /\ r.chosen = b.chosen /\ r.done = b.done
  BY <1>1 DEF Ended, Batches, Between
<1> QED BY <1>1, <1>2 DEF LoopOK, Between

LEMMA NextFileKeeps ==
  ASSUME NEW q, ListOK(q), NEW b, Between(q, b), NEW op \in {"ask", "apply"},
         ~q.stale /\ b.chosen # {} => MarkedAt(q) # {}
  PROVE  LoopOK(q, next_file(q, b, op)) /\ next_file(q, b, op).op \in {op, "astray"}
<1>1. PICK r : r = next_file(q, b, op)
  OBVIOUS
<1>2. b \in Batches
  BY DEF Between
<1>3. /\ r \in Batches /\ r.chosen = b.chosen /\ r.done = b.done
      /\ r.op \in {op, "astray"}
      /\ r.op = op => r.file \in MarkedAt(q)
      /\ MarkedAt(q) # {} /\ (\A i \in MarkedAt(q) : b.file <= i) =>
           r.op = op /\ AtFirst(q, r)
  BY <1>1, <1>2, NextFileIs
<1>4. r.op \in {"ask", "apply"} => r.file \in DOMAIN q.list
  BY <1>3 DEF MarkedAt
<1>5. ASSUME ~q.stale, r.chosen # {}
      PROVE  /\ r.op # "astray"
             /\ r.done \cap MarkedNames(q) = {} /\ r.done \cup MarkedNames(q) = r.chosen
             /\ AtFirst(q, r)
  BY <1>3, <1>5 DEF Between
<1>6. LoopOK(q, r)
  BY <1>3, <1>4, <1>5 DEF LoopOK
<1> QED BY <1>1, <1>3, <1>6

LEMMA LoopIsBetween ==
  ASSUME NEW q, NEW b, LoopOK(q, b), b.op \in {"ask", "apply"}
  PROVE  Between(q, b)
BY DEF LoopOK, Between, AtFirst

LEMMA AskKeeps ==
  ASSUME NEW q, PanelOK(q), NEW b, Between(q, b), b.file \in DOMAIN q.list,
         ~q.stale /\ b.chosen # {} => MarkedAt(q) # {}
  PROVE  LoopOK(q, ask(q, b))
<1> DEFINE at == IF q.marked # 0 THEN next_file(q, b, "ask") ELSE [b EXCEPT !.op = "ask"]
<1>1. ListOK(q) /\ q \in Panels /\ (~q.stale => Tally(q))
  BY DEF PanelOK, ListOK
<1>2. LoopOK(q, at)
  <2>1. CASE q.marked # 0
    BY <1>1, <2>1, NextFileKeeps
  <2>2. CASE q.marked = 0
    <3>1. ~q.stale => MarkedAt(q) = {}
      BY <1>1, <2>2, NothingMarked
    <3>2. ~(~q.stale /\ b.chosen # {})
      BY <3>1
    <3>3. PICK r : r = [b EXCEPT !.op = "ask"]
      OBVIOUS
    <3>4. r \in Batches /\ r.file = b.file /\ r.chosen = b.chosen
      BY <3>3 DEF Between, Batches
    <3>5. LoopOK(q, r)
      BY <3>2, <3>4 DEF LoopOK
    <3> QED BY <2>2, <3>3, <3>5
  <2> QED BY <2>1, <2>2
<1>3. PICK a : a = at
  OBVIOUS
<1>4. a.op = "ask" => LoopOK(q, Ended(a, FALSE))
  BY <1>2, <1>3, LoopIsBetween, EndedKeeps
<1>5. ask(q, b) = IF a.op = "ask" /\ ~OnDisk(FileOf(q, a)) THEN Ended(a, FALSE) ELSE a
  BY <1>3 DEF ask
<1> HIDE DEF at
<1> QED BY <1>2, <1>3, <1>4, <1>5

(* The file at hand is taken care of: its mark is gone.                     *)
LEMMA TakenKeeps ==
  ASSUME PanelOK(p), LoopOK(p, batch), batch.op \in {"ask", "apply"}, NEW c, c = TakenCareOf(batch),
         NEW r, r = do_file_mark(p, batch.file, FALSE) \/ (r = p /\ p.marked = 0)
  PROVE  /\ PanelOK(r) /\ Between(r, c) /\ r.stale = p.stale /\ DOMAIN r.list = DOMAIN p.list
         /\ c.file = batch.file /\ c.chosen = batch.chosen
         /\ ~p.stale /\ batch.chosen # {} => MarkedAt(r) = MarkedAt(p) \ {batch.file}
                                               /\ batch.file \in MarkedAt(p)
<1>1. PICK n : n = FileOf(p, batch)
  OBVIOUS
<1>2. PICK at : at = batch.file
  OBVIOUS
<1>3. batch \in Batches /\ at \in DOMAIN p.list
  BY <1>2 DEF LoopOK
<1>4. c = [batch EXCEPT !.done = @ \cup ({n} \cap batch.chosen)]
  BY <1>1 DEF TakenCareOf
<1>5. /\ c \in Batches /\ c.file = batch.file /\ c.chosen = batch.chosen
      /\ c.done = batch.done \cup ({n} \cap batch.chosen)
  BY <1>3, <1>4 DEF Batches
<1>6. ListOK(p) /\ p \in Panels
  BY DEF PanelOK, ListOK
<1>7. PanelOK(r) /\ r.stale = p.stale /\ DOMAIN r.list = DOMAIN p.list
  <2>1. CASE r = do_file_mark(p, at, FALSE)
    <3>1. OnlyMarks(p, r) /\ (Tally(p) => Tally(r))
      BY <1>3, <1>6, <2>1, MarkDoes
    <3> QED BY <1>6, <3>1, MarksKeep, OnlyMarksOK DEF OnlyMarks
  <2> QED BY <1>2, <2>1
<1>8. ASSUME ~p.stale, batch.chosen # {}
      PROVE  /\ c.done \cap MarkedNames(r) = {} /\ c.done \cup MarkedNames(r) = c.chosen
             /\ \A i \in MarkedAt(r) : c.file <= i
             /\ MarkedAt(r) = MarkedAt(p) \ {at} /\ at \in MarkedAt(p)
  <2>1. /\ batch.done \cap MarkedNames(p) = {} /\ batch.done \cup MarkedNames(p) = batch.chosen
        /\ at \in MarkedAt(p) /\ \A i \in MarkedAt(p) : at <= i
    BY <1>2, <1>8 DEF LoopOK, AtFirst
  <2>2. p.marked # 0
    BY <1>6, <1>8, <2>1, NothingMarked DEF PanelOK
  <2>3. r = do_file_mark(p, at, FALSE)
    BY <1>2, <2>2
  <2>4. PICK m : m = p.list[at].name
    OBVIOUS
  <2>5. /\ MarkedAt(r) = MarkedAt(p) \ {at} /\ MarkedNames(r) = MarkedNames(p) \ {m}
        /\ m \in MarkedNames(p)
    BY <2>1, <2>3, <2>4, MarkGoneIs DEF GoneFrom
  <2>6. n = m
    BY <1>1, <1>2, <1>8, <2>4 DEF FileOf
  <2> QED BY <1>2, <1>5, <2>1, <2>5, <2>6
<1> QED BY <1>2, <1>5, <1>7, <1>8 DEF Between

LEMMA LoopBegins ==
  ASSUME PanelInv, AtRest, NEW b, b.op \in {"ask", "operate"}, b \in Batches, b.file = 1,
         b.chosen = MarkedNames(p), b.done = {}
  PROVE  /\ Between(p, b) /\ b.file \in DOMAIN p.list /\ PanelOK(p)
         /\ ~p.stale /\ b.chosen # {} => MarkedAt(p) # {}
<1>1. PanelOK(p) /\ ListOK(p)
  BY AtRestIs DEF PanelOK
<1>2. Len(p.list) \in Nat /\ Len(p.list) >= 1 /\ DOMAIN p.list = 1..Len(p.list)
  BY <1>1, NotEmpty
<1>3. MarkedNames(p) = {p.list[i].name : i \in MarkedAt(p)}
  BY <1>1, MarkedNamesAre
<1>4. \A i \in MarkedAt(p) : 1 <= i
  BY <1>2 DEF MarkedAt
<1> QED BY <1>1, <1>2, <1>3, <1>4 DEF Between

LEMMA ChmodKeeps == PanelInv /\ chmod_cmd => PanelInv'
<1> SUFFICES ASSUME PanelInv, chmod_cmd PROVE PanelInv'
  OBVIOUS
<1>1. /\ AtRest /\ disk' = disk /\ cwdir' = cwdir /\ p' = p /\ found' = found /\ load' = load
  BY DEF chmod_cmd
<1>2. PICK b : b = [op |-> "ask", file |-> 1, chosen |-> MarkedNames(p), done |-> {},
                    update |-> FALSE]
  OBVIOUS
<1>3. load = NoLoad /\ ListOK(p) /\ ~NoLoad.on
  BY <1>1, AtRestIs DEF PanelOK, NoLoad
<1>4. MarkedNames(p) \in SUBSET Names
  BY <1>3, MarkedNamesAre
<1>5. /\ b \in Batches /\ b.op = "ask" /\ b.file = 1 /\ b.chosen = MarkedNames(p)
      /\ b.done = {}
  BY <1>2, <1>4 DEF Batches
<1>6. /\ Between(p, b) /\ b.file \in DOMAIN p.list /\ PanelOK(p)
      /\ ~p.stale /\ b.chosen # {} => MarkedAt(p) # {}
  BY <1>1, <1>5, LoopBegins
<1>7. LoopOK(p, ask(p, b))
  BY <1>6, AskKeeps
<1>8. batch' = ask(p, b)
  BY <1>2 DEF chmod_cmd
<1> QED BY <1>1, <1>3, <1>6, <1>7, <1>8 DEF PanelInv

(* A loop is on: a file at hand, and nothing is being read.                 *)
LEMMA LoopIsOn ==
  ASSUME PanelInv, batch.op # "none"
  PROVE  load = NoLoad /\ PanelOK(p) /\ ListOK(p) /\ LoopOK(p, batch) /\ batch \in Batches
<1>1. ~load.on
  BY DEF PanelInv, ReadingOK
<1>2. batch # NoBatch
  BY DEF NoBatch
<1> QED BY <1>1, <1>2, IdleIs DEF PanelInv, PanelOK, LoopOK

(* A step of a loop changes the panel, the disk and where the loop is.      *)
LEMMA LoopStepKeeps ==
  ASSUME PanelInv, batch.op # "none", PanelOK(p'), LoopOK(p', batch'),
         disk' \in [Directories -> SUBSET Names], cwdir' = cwdir, found' = found, load' = load
  PROVE  PanelInv'
<1>1. load = NoLoad /\ ~NoLoad.on /\ ListOK(p')
  BY LoopIsOn DEF NoLoad, PanelOK
<1> QED BY <1>1 DEF PanelInv

LEMMA DialogKeeps == PanelInv /\ chmod_dialog => PanelInv'
<1> SUFFICES ASSUME PanelInv, chmod_dialog PROVE PanelInv'
  OBVIOUS
<1>1. /\ batch.op = "ask" /\ disk' = disk /\ cwdir' = cwdir /\ found' = found /\ load' = load
  BY DEF chmod_dialog
<1>2. PanelOK(p) /\ ListOK(p) /\ LoopOK(p, batch) /\ batch \in Batches
  BY <1>1, LoopIsOn
<1>3. disk' \in [Directories -> SUBSET Names]
  BY <1>1 DEF PanelInv
<1>4. CASE dialog_ends
  <2>1. PICK c : c = TakenCareOf(batch)
    OBVIOUS
  <2>2. PICK r : r = MarkGone(batch)
    OBVIOUS
  <2>3. p' = r /\ batch' = IF r.marked = 0 THEN Ended(c, TRUE) ELSE ask(r, c)
    BY <1>4, <2>1, <2>2 DEF dialog_ends
  <2>4. r = do_file_mark(p, batch.file, FALSE) \/ (r = p /\ p.marked = 0)
    BY <2>2 DEF MarkGone
  <2>5. /\ PanelOK(r) /\ Between(r, c) /\ r.stale = p.stale /\ DOMAIN r.list = DOMAIN p.list
        /\ c.file = batch.file
    BY <1>1, <1>2, <2>1, <2>4, TakenKeeps
  <2>6. LoopOK(r, Ended(c, TRUE))
    BY <2>5, EndedKeeps
  <2>7. ASSUME r.marked # 0 PROVE LoopOK(r, ask(r, c))
    <3>1. ~r.stale => MarkedAt(r) # {}
      BY <2>5, <2>7, NothingMarked DEF PanelOK, ListOK
    <3>2. c.file \in DOMAIN r.list
      BY <1>1, <1>2, <2>5 DEF LoopOK
    <3> QED BY <2>5, <3>1, <3>2, AskKeeps
  <2>8. LoopOK(r, batch')
    BY <2>3, <2>6, <2>7
  <2> QED BY <1>1, <1>3, <2>3, <2>5, <2>8, LoopStepKeeps
<1>5. CASE \E update \in BOOLEAN : batch' = Ended(batch, update) /\ UNCHANGED p
  <2>1. Between(p, batch)
    BY <1>1, <1>2, LoopIsBetween
  <2>2. LoopOK(p, batch') /\ p' = p
    BY <1>5, <2>1, EndedKeeps
  <2> QED BY <1>1, <1>2, <1>3, <2>2, LoopStepKeeps
<1> QED BY <1>4, <1>5 DEF chmod_dialog

LEMMA ApplyKeeps == PanelInv /\ apply_mask => PanelInv'
<1> SUFFICES ASSUME PanelInv, apply_mask PROVE PanelInv'
  OBVIOUS
<1>1. PICK first \in BOOLEAN : /\ do_chmod(first) /\ batch.op = IF first THEN "ask" ELSE "apply"
                               /\ first => CanSetAll
  BY DEF apply_mask
<1>2. disk' = disk /\ cwdir' = cwdir /\ found' = found /\ load' = load
  BY DEF apply_mask
<1>3. batch.op \in {"ask", "apply"} /\ batch.op # "none"
  BY <1>1
<1>4. PanelOK(p) /\ ListOK(p) /\ LoopOK(p, batch) /\ batch \in Batches
  BY <1>3, LoopIsOn
<1>5. disk' \in [Directories -> SUBSET Names]
  BY <1>2 DEF PanelInv
<1>6. PICK c : c = TakenCareOf(batch)
  OBVIOUS
<1>7. PICK r : r = do_file_mark(p, batch.file, FALSE)
  OBVIOUS
<1>8. /\ p' = r
      /\ batch' \in {Ended(c, TRUE), IF r.marked = 0 /\ ~first THEN Ended(c, TRUE)
                                     ELSE next_file(r, c, "apply")}
  BY <1>1, <1>6, <1>7 DEF do_chmod
<1>9. /\ PanelOK(r) /\ Between(r, c) /\ r.stale = p.stale /\ c.chosen = batch.chosen
      /\ ~p.stale /\ batch.chosen # {} => MarkedAt(r) = MarkedAt(p) \ {batch.file}
                                            /\ batch.file \in MarkedAt(p)
  BY <1>3, <1>4, <1>6, <1>7, TakenKeeps
<1>10. LoopOK(r, Ended(c, TRUE))
  BY <1>9, EndedKeeps
<1>11. ASSUME ~(r.marked = 0 /\ ~first) PROVE LoopOK(r, next_file(r, c, "apply"))
  <2>1. ASSUME ~r.stale, c.chosen # {}, MarkedAt(r) = {} PROVE FALSE
    <3>1. r.marked = 0
      BY <1>9, <2>1, NothingMarked DEF PanelOK, ListOK
    <3>2. p.marked >= 2
      BY <1>1, <1>11, <3>1 DEF CanSetAll
    <3>3. MarkedAt(p) = {batch.file}
      BY <1>9, <2>1
    <3>4. Tally(p)
      BY <1>4, <1>9, <2>1 DEF PanelOK
    <3>5. p.marked = Cardinality({batch.file})
      BY <3>3, <3>4 DEF Tally
    <3>6. Cardinality({batch.file}) = 1
      BY FS_Singleton
    <3> QED BY <3>2, <3>5, <3>6
  <2>2. ListOK(r)
    BY <1>9 DEF PanelOK
  <2>3. ~r.stale /\ c.chosen # {} => MarkedAt(r) # {}
    BY <2>1
  <2> QED BY <1>9, <2>2, <2>3, NextFileKeeps
<1>12. LoopOK(r, batch')
  BY <1>8, <1>10, <1>11
<1> QED BY <1>2, <1>3, <1>5, <1>8, <1>9, <1>12, LoopStepKeeps

(* panel_operate.                                                           *)
LEMMA RemovedIs ==
  ASSUME PanelInv, NEW n PROVE Removed(n) \in [Directories -> SUBSET Names]
BY DEF PanelInv, Removed

LEMMA OperateSingleKeeps == PanelInv /\ operate_single => PanelInv'
<1> SUFFICES ASSUME PanelInv, operate_single PROVE PanelInv'
  OBVIOUS
<1>1. PICK n : n = panel_get_file
  OBVIOUS
<1>2. PICK b : b = [op |-> "done", file |-> 1, chosen |-> {}, done |-> {}, update |-> TRUE]
  OBVIOUS
<1>3. AtRest /\ cwdir' = cwdir /\ found' = found /\ load' = load /\ batch' = b
  BY <1>2 DEF operate_single
<1>4. (disk' = disk /\ p' = p) \/ (p' = unmark_files(p) /\ disk' \in {disk, Removed(n)})
  BY <1>1 DEF operate_single
<1>5. PanelOK(p) /\ load = NoLoad
  BY <1>3, AtRestIs
<1>6. PanelOK(p')
  BY <1>4, <1>5, UnmarkFilesKeeps
<1>7. disk' \in [Directories -> SUBSET Names]
  BY <1>4, RemovedIs DEF PanelInv
<1>8. b \in Batches /\ b.op = "done" /\ b.chosen = {}
  BY <1>2 DEF Batches
<1>9. LoopOK(p', b)
  BY <1>8 DEF LoopOK
<1>10. ListOK(p') /\ ~NoLoad.on
  BY <1>6 DEF PanelOK, NoLoad
<1> QED BY <1>3, <1>5, <1>6, <1>7, <1>9, <1>10 DEF PanelInv

LEMMA OperateManyKeeps == PanelInv /\ operate_many => PanelInv'
<1> SUFFICES ASSUME PanelInv, operate_many PROVE PanelInv'
  OBVIOUS
<1>1. /\ AtRest /\ disk' = disk /\ cwdir' = cwdir /\ p' = p /\ found' = found /\ load' = load
  BY DEF operate_many
<1>2. PICK b : b = [op |-> "operate", file |-> 1, chosen |-> MarkedNames(p), done |-> {},
                    update |-> TRUE]
  OBVIOUS
<1>3. load = NoLoad /\ ListOK(p) /\ ~NoLoad.on /\ PanelOK(p)
  BY <1>1, AtRestIs DEF PanelOK, NoLoad
<1>4. MarkedNames(p) \in SUBSET Names
  BY <1>3, MarkedNamesAre
<1>5. /\ b \in Batches /\ b.op = "operate" /\ b.file = 1 /\ b.chosen = MarkedNames(p)
      /\ b.done = {}
  BY <1>2, <1>4 DEF Batches
<1>6. LoopOK(p, b)
  BY <1>5 DEF LoopOK
<1>7. batch' = b
  BY <1>2 DEF operate_many
<1> QED BY <1>1, <1>3, <1>6, <1>7 DEF PanelInv

LEMMA OperateOneKeeps == PanelInv /\ operate_one_file => PanelInv'
<1> SUFFICES ASSUME PanelInv, operate_one_file PROVE PanelInv'
  OBVIOUS
<1>1. /\ batch.op = "operate" /\ cwdir' = cwdir /\ found' = found /\ load' = load
  BY DEF operate_one_file
<1>2. PanelOK(p) /\ ListOK(p) /\ LoopOK(p, batch) /\ batch \in Batches
  BY <1>1, LoopIsOn
<1>3. disk \in [Directories -> SUBSET Names]
  BY DEF PanelInv
<1>4. PICK f : f = batch.file
  OBVIOUS
<1>5. f \in Nat \ {0}
  BY <1>2, <1>4 DEF Batches
<1>6. PICK T : T = NextMarked(p, f)
  OBVIOUS
<1>7. PICK m : m = Min(T)
  OBVIOUS
<1>8. PICK b : b = [batch EXCEPT !.file = m]
  OBVIOUS
<1>9. CASE T = {}
  <2>1. PICK c : c = Ended(batch, TRUE)
    OBVIOUS
  <2>2. batch' = c /\ p' = p /\ disk' = disk
    BY <1>4, <1>6, <1>9, <2>1 DEF operate_one_file
  <2>3. c \in Batches /\ c.op = "done" /\ c.chosen = batch.chosen /\ c.done = batch.done
    BY <1>2, <2>1 DEF Batches, Ended
  <2>4. LoopOK(p, c)
    BY <1>2, <2>3 DEF LoopOK
  <2> QED BY <1>1, <1>2, <1>3, <2>2, <2>4, LoopStepKeeps
<1>10. CASE T # {}
  <2>1. m \in MarkedAt(p) /\ m \in Nat \ {0}
    BY <1>2, <1>5, <1>6, <1>7, <1>10, NextMarkedIs
  <2>2. /\ b \in Batches /\ b.op = "operate" /\ b.chosen = batch.chosen /\ b.done = batch.done
        /\ b.file = m
    BY <1>1, <1>2, <1>8, <2>1 DEF Batches
  <2>3. LoopOK(p, b)
    BY <1>2, <2>2 DEF LoopOK
  <2>4. PICK n : n = p.list[m].name
    OBVIOUS
  <2>5. CASE /\ p' = do_file_mark(p, m, FALSE) /\ batch' = [b EXCEPT !.done = @ \cup {n}]
             /\ disk' \in {disk, Removed(n)}
    <3>1. PICK r : r = do_file_mark(p, m, FALSE)
      OBVIOUS
    <3>2. /\ PanelOK(r) /\ r.stale = p.stale /\ MarkedNames(r) = MarkedNames(p) \ {n}
          /\ n \in MarkedNames(p) /\ n \in Names
      <4>1. PanelOK(p) /\ m \in MarkedAt(p)
        BY <1>2, <2>1
      <4>2. MarkedNames(p) \in SUBSET Names
        BY <1>2, MarkedNamesAre
      <4>3. PanelOK(r) /\ r.stale = p.stale /\ GoneFrom(p, m, r)
        BY <3>1, <4>1, MarkGoneIs
      <4> QED BY <2>4, <4>2, <4>3 DEF GoneFrom
    <3>3. PICK c : c = [b EXCEPT !.done = @ \cup {n}]
      OBVIOUS
    <3>4. /\ c \in Batches /\ c.op = "operate" /\ c.chosen = batch.chosen
          /\ c.done = batch.done \cup {n}
      BY <2>2, <3>2, <3>3 DEF Batches
    <3>5. ASSUME ~r.stale, c.chosen # {}
          PROVE  c.done \cap MarkedNames(r) = {} /\ c.done \cup MarkedNames(r) = c.chosen
      BY <1>2, <3>2, <3>4, <3>5 DEF LoopOK
    <3>6. LoopOK(r, c)
      BY <3>4, <3>5 DEF LoopOK
    <3>7. disk' \in [Directories -> SUBSET Names]
      BY <1>3, <2>5, RemovedIs
    <3> QED BY <1>1, <2>5, <3>1, <3>2, <3>3, <3>6, <3>7, LoopStepKeeps
  <2>6. CASE /\ batch' \in {[b EXCEPT !.file = @ + 1], Ended(b, TRUE)}
             /\ p' = p /\ disk' = disk
    <3>1. PICK c : c = batch'
      OBVIOUS
    <3>2. PICK g \in Nat \ {0} : g = m + 1
      BY <2>1
    <3>3. c = [b EXCEPT !.file = g] \/ c = Ended(b, TRUE)
      BY <2>2, <2>6, <3>1, <3>2
    <3>4. /\ c \in Batches /\ c.op \in {"operate", "done"} /\ c.chosen = b.chosen
          /\ c.done = b.done
      <4>1. CASE c = [b EXCEPT !.file = g]
        BY <2>2, <3>2, <4>1 DEF Batches
      <4>2. CASE c = Ended(b, TRUE)
        BY <2>2, <4>2 DEF Batches, Ended
      <4> QED BY <3>3, <4>1, <4>2
    <3>5. LoopOK(p, c)
      BY <2>3, <3>4 DEF LoopOK
    <3> QED BY <1>1, <1>2, <1>3, <2>6, <3>1, <3>5, LoopStepKeeps
  <2> QED BY <1>4, <1>6, <1>7, <1>8, <1>10, <2>2, <2>4, <2>5, <2>6 DEF operate_one_file
<1> QED BY <1>9, <1>10

LEMMA BatchDoneKeeps == PanelInv /\ batch_done => PanelInv'
<1> SUFFICES ASSUME PanelInv, batch_done PROVE PanelInv'
  OBVIOUS
<1>1. batch.op = "done" /\ batch' = NoBatch /\ disk' = disk /\ found' = found
  BY DEF batch_done
<1>2. load = NoLoad /\ PanelOK(p) /\ ~load.on
  BY <1>1, LoopIsOn DEF NoLoad
<1>3. CASE update_one_panel_widget(p, Cursor(p))
  BY <1>1, <1>2, <1>3, UpdateKeeps
<1>4. CASE UNCHANGED <<cwdir, p, load>>
  <2>1. cwdir' \in Directories /\ PanelOK(p') /\ load' = load
    BY <1>2, <1>4 DEF PanelInv
  <2> QED BY <1>1, <1>2, <2>1, AtOnceKeeps
<1> QED BY <1>3, <1>4 DEF batch_done

-----------------------------------------------------------------------------
(* The panel at first: what is on the disk, sorted, with nothing marked and *)
(* the cursor on "..".                                                      *)
LEMMA InitKeeps == PanelInit => PanelInv
<1> SUFFICES ASSUME PanelInit PROVE PanelInv
  OBVIOUS
<1>1. PICK files : files = dir_list_init \o SetToSeq({FileEntry(n, TRUE) : n \in Names})
  OBVIOUS
<1>2. PICK h \in Heights :
        p = dir_list_sort([list |-> files, marked |-> 0, dirs_marked |-> 0, total |-> 0,
                           selected |-> 0, top_file |-> 0, items |-> h, reverse |-> FALSE,
                           is_panelized |-> FALSE, stale |-> FALSE])
  BY <1>1 DEF PanelInit
<1>3. PICK q : q = [list |-> files, marked |-> 0, dirs_marked |-> 0, total |-> 0,
                    selected |-> 0, top_file |-> 0, items |-> h, reverse |-> FALSE,
                    is_panelized |-> FALSE, stale |-> FALSE]
  OBVIOUS
<1>4. FilesOK(files) /\ \A i \in DOMAIN files : ~files[i].marked
  <2>1. Names \in SUBSET Names
    OBVIOUS
  <2> QED BY <1>1, <2>1, FoundIs
<1>5. h \in Nat \ {0}
  BY HeightsAssumption
<1>6. ListOK(q) /\ Tally(q) /\ q.selected = 0 /\ q.top_file = 0 /\ q.items = h
  <2>1. files \in Seq(Entries)
    BY <1>4 DEF FilesOK
  <2>2. PICK z \in Int : z = 0
    OBVIOUS
  <2>3. q = [list |-> files, marked |-> z, dirs_marked |-> z, total |-> z,
             selected |-> z, top_file |-> z, items |-> h, reverse |-> FALSE,
             is_panelized |-> FALSE, stale |-> FALSE]
    BY <1>3, <2>2
  <2>4. q \in Panels
    BY <1>5, <2>1, <2>3 DEF Panels
  <2>5. /\ q.list = files /\ q.marked = 0 /\ q.dirs_marked = 0 /\ q.total = 0
        /\ q.selected = 0 /\ q.top_file = 0 /\ q.items = h
    BY <1>3
  <2>6. MarkedAt(q) = {}
    BY <1>4, <2>5 DEF MarkedAt
  <2> QED BY <1>4, <2>4, <2>5, <2>6, NothingTallied DEF ListOK
<1>7. /\ ListOK(p) /\ Tally(p) /\ p.selected = 0 /\ p.top_file = 0 /\ p.items = h
  BY <1>2, <1>3, <1>6, SortDoes
<1>8. PICK len \in Nat : len = Len(p.list) /\ len >= 1
  BY <1>7, NotEmpty
<1>9. Shown(p)
  BY <1>5, <1>7, <1>8 DEF Shown, Greater
<1>10. PanelOK(p)
  BY <1>7, <1>9 DEF PanelOK
<1>11. load = NoLoad /\ batch = NoBatch /\ found = << >> /\ ~NoLoad.on
  BY DEF PanelInit, NoLoad
<1>12. disk \in [Directories -> SUBSET Names] /\ cwdir \in Directories
  BY DEF PanelInit, Directories
<1> QED BY <1>7, <1>10, <1>11, <1>12 DEF PanelInv

LEMMA StepKeeps == PanelInv /\ [PanelNext]_panel_vars => PanelInv'
<1> SUFFICES ASSUME PanelInv, [PanelNext]_panel_vars PROVE PanelInv'
  OBVIOUS
<1>1. CASE \E n \in Names : read_entry(n)
  BY <1>1, EntryKeeps
<1>2. CASE \E h \in Heights : refresh_while_reading(h) \/ resize(h)
  BY <1>2, RefreshKeeps, ResizeKeeps
<1>3. CASE read_all
  BY <1>3, ReadAllKeeps
<1>4. CASE reread_cmd
  BY <1>4, RereadKeeps
<1>5. CASE \E d \in Directories, want \in Dirs \cup {NoName} : panel_do_cd(d, want)
  BY <1>5, ChangeDirKeeps
<1>6. CASE do_mark_file
  BY <1>6, OneMarkKeeps
<1>7. CASE mark_many
  BY <1>7, ManyMarksKeep
<1>8. CASE move
  BY <1>8, MovesKeep
<1>9. CASE sort_reverse
  BY <1>9, SortKeeps
<1>10. CASE compare_dir
  BY <1>10, ComparingKeeps
<1>11. CASE smart_dirsize_cmd
  BY <1>11, SizesKeep
<1>12. CASE \E S \in SUBSET Names : find_panelize(S)
  BY <1>12, FindKeeps
<1>13. CASE do_panelize_cd
  BY <1>13, ShownAgainKeeps
<1>14. CASE chmod_cmd
  BY <1>14, ChmodKeeps
<1>15. CASE chmod_dialog
  BY <1>15, DialogKeeps
<1>16. CASE apply_mask
  BY <1>16, ApplyKeeps
<1>17. CASE operate_single
  BY <1>17, OperateSingleKeeps
<1>18. CASE operate_many
  BY <1>18, OperateManyKeeps
<1>19. CASE operate_one_file
  BY <1>19, OperateOneKeeps
<1>20. CASE batch_done
  BY <1>20, BatchDoneKeeps
<1>21. CASE \E d \in Directories, n \in Names : others_change(d, n)
  BY <1>21, OthersKeep
<1>22. CASE UNCHANGED panel_vars
  <2>1. /\ disk' = disk /\ cwdir' = cwdir /\ p' = p /\ found' = found /\ load' = load
        /\ batch' = batch
    BY <1>22 DEF panel_vars
  <2>2. ReadingOK => ReadingOK'
    BY <2>1 DEF ReadingOK
  <2> QED BY <2>1, <2>2 DEF PanelInv
<1> QED BY <1>1, <1>2, <1>3, <1>4, <1>5, <1>6, <1>7, <1>8, <1>9, <1>10, <1>11, <1>12, <1>13,
           <1>14, <1>15, <1>16, <1>17, <1>18, <1>19, <1>20, <1>21, <1>22 DEF PanelNext

(* The invariant: what the panel shows, what a reading has still to bring   *)
(* and where a loop over files has got to agree, at every step.             *)
THEOREM PanelHolds == PanelSpec => []PanelInv
<1>1. PanelInit => PanelInv
  BY InitKeeps
<1>2. PanelInv /\ [PanelNext]_panel_vars => PanelInv'
  BY StepKeeps
<1> QED BY <1>1, <1>2, PTL DEF PanelSpec

(* The counts in the mini status and the total are those of the marked      *)
(* files, whatever was marked, counted, read again, sorted, moved or        *)
(* removed: recalculate_panel_summary and do_file_mark miss none.           *)
THEOREM SummaryHolds == PanelSpec => []SummaryTrue
<1>1. PanelInv => SummaryTrue
  <2> SUFFICES ASSUME PanelInv, ~load.on, ~p.stale PROVE Tally(p) /\ DotDot \notin MarkedNames(p)
    BY DEF SummaryTrue
  <2>1. PanelOK(p) /\ ListOK(p)
    BY IdleIs DEF PanelOK
  <2>2. MarkedNames(p) \in SUBSET Names
    BY <2>1, MarkedNamesAre
  <2> QED BY <2>1, <2>2, NamesAssumption DEF PanelOK, DotDot
<1> QED BY <1>1, PanelHolds, PTL

(* The cursor is on an entry that is shown, and no line is wasted, whatever *)
(* the option for scrolling and the size of the terminal.                   *)
THEOREM CursorHolds == PanelSpec => []CursorShown
<1>1. PanelInv => CursorShown
  BY IdleIs DEF CursorShown, PanelOK, Shown
<1> QED BY <1>1, PanelHolds, PTL

(* A loop of chmod_cmd and its like, or of panel_operate, takes each of the *)
(* files marked at first once, and no other, whatever is answered.          *)
THEOREM EachOnceHolds == PanelSpec => []EachOnce
<1>1. PanelInv => EachOnce
  <2> SUFFICES ASSUME PanelInv, ~p.stale, batch.op # "none", batch.chosen # {}
               PROVE  /\ batch.op # "astray" /\ batch.done \cap MarkedNames(p) = {}
                      /\ batch.done \cup MarkedNames(p) = batch.chosen
    BY DEF EachOnce
  <2>1. LoopOK(p, batch)
    BY LoopIsOn
  <2> QED BY <2>1 DEF LoopOK
<1> QED BY <1>1, PanelHolds, PTL

(* A directory that is read again shows the marks and the cursor on the     *)
(* files that had them, whatever came and went while it was read.           *)
THEOREM MarksHold == PanelSpec => MarksKept
<1> DEFINE Shows == Reloaded /\ ~load.fresh /\ load.before.dir = cwdir =>
             /\ MarkedNames(p') = load.before.marked \cap Listed(p')
             /\ (load.before.cursor \in Listed(p') => Cursor(p') = load.before.cursor)
<1>1. PanelInv /\ [PanelNext]_panel_vars => [Shows]_panel_vars
  <2> SUFFICES ASSUME PanelInv, PanelNext, load.on, ~load'.on, ~load.fresh
               PROVE  /\ MarkedNames(p') = load.before.marked \cap Listed(p')
                      /\ (load.before.cursor \in Listed(p') => Cursor(p') = load.before.cursor)
    BY DEF Reloaded
  <2>1. ReadingOK /\ ListOK(p) /\ load \in Loads /\ batch.op = "none"
    BY DEF PanelInv, ReadingOK
  <2>2. ~AtRest
    BY DEF AtRest
  <2>3. \A n \in Names : ~read_entry(n)
    BY <2>1 DEF read_entry, Loads
  <2>4. \A d \in Directories, n \in Names : ~others_change(d, n)
    BY <2>1 DEF others_change, Loads
  <2>5. read_all
    <3>1. ~reread_cmd /\ (\A d, want : ~panel_do_cd(d, want)) /\ ~do_mark_file /\ ~mark_many
          /\ ~move /\ ~sort_reverse /\ ~compare_dir /\ ~smart_dirsize_cmd
          /\ (\A S : ~find_panelize(S)) /\ ~do_panelize_cd /\ ~chmod_cmd /\ ~operate_single
          /\ ~operate_many
      BY <2>2 DEF reread_cmd, panel_do_cd, do_mark_file, mark_many, move, sort_reverse,
                  compare_dir, smart_dirsize_cmd, find_panelize, do_panelize_cd, chmod_cmd,
                  operate_single, operate_many
    <3>2. ~chmod_dialog /\ ~apply_mask /\ ~operate_one_file /\ ~batch_done
      BY <2>1 DEF chmod_dialog, apply_mask, operate_one_file, batch_done
    <3>3. \A h \in Heights : ~refresh_while_reading(h) /\ ~resize(h)
      BY DEF refresh_while_reading, resize
    <3> QED BY <2>3, <2>4, <3>1, <3>2, <3>3 DEF PanelNext
  <2>6. /\ MarkedNames(p') = MarkedNames(p) /\ Listed(p') = Listed(p)
        /\ load.want \in Listed(p') => Cursor(p') = load.want
    BY <2>5, ReadAllDoes
  <2>7. /\ load.keep = load.before.marked /\ load.want = load.before.cursor
        /\ \A i \in DOMAIN p.list : p.list[i].marked <=> p.list[i].name \in load.keep
    BY <2>1 DEF ReadingOK
  <2>8. MarkedNames(p) = load.keep \cap Listed(p)
    <3>1. \A e \in Range(p.list) : e.marked <=> e.name \in load.keep
      BY <2>7 DEF Range
    <3> QED BY <3>1 DEF MarkedNames, Listed
  <2> QED BY <2>6, <2>7, <2>8
<1>2. PanelSpec => [][Shows]_panel_vars
  BY <1>1, PanelHolds, PTL DEF PanelSpec
<1> QED BY <1>2 DEF MarksKept

=============================================================================
