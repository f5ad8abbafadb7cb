------------------------- MODULE EditorViewerProofs -------------------------
(***************************************************************************)
(* The text of the editor, its loading and saving, the bookmarks, and the  *)
(* changes and the coordinates of the viewer, proved of each by itself.    *)
(***************************************************************************)
EXTENDS EditBuffer, HexEdit, LineBreaks, Bookmarks, CoordCache,
        SequenceTheorems, WellFoundedInduction, TLAPS

-----------------------------------------------------------------------------
(***************************************************************************)
(* The gap buffer implements the text with a cursor, for every block size  *)
(* and every bound on the text.                                            *)
(***************************************************************************)

-----------------------------------------------------------------------------
(* Block index and offset of a byte.                                        *)

LEMMA DivMod ==
  ASSUME NEW p \in Nat
  PROVE  /\ Quot(p) \in Nat /\ Rem(p) \in 0 .. EDIT_BUF_SIZE - 1
         /\ p = EDIT_BUF_SIZE * Quot(p) + Rem(p)
BY BlockSizeAssumption DEF Quot, Rem

LEMMA DivModSucc ==
  ASSUME NEW p \in Nat
  PROVE  IF Rem(p) = EDIT_BUF_SIZE - 1
         THEN Quot(p + 1) = Quot(p) + 1 /\ Rem(p + 1) = 0
         ELSE Quot(p + 1) = Quot(p) /\ Rem(p + 1) = Rem(p) + 1
BY BlockSizeAssumption DEF Quot, Rem

LEMMA DivModMono ==
  ASSUME NEW p \in Nat, NEW q \in Nat, p < q
  PROVE  Quot(p) <= Quot(q) /\ (Quot(p) = Quot(q) => Rem(p) < Rem(q))
BY BlockSizeAssumption DEF Quot, Rem

-----------------------------------------------------------------------------
(* One side of the gap, on which n bytes are in use.                        *)

Side(blocks, n) == blocks \in Seq(Block) /\ BlocksCover(blocks, n)

LEMMA ByteInBlock ==
  ASSUME NEW n \in Nat, NEW blocks, Side(blocks, n), NEW p \in 0 .. n - 1
  PROVE  /\ Quot(p) + 1 \in 1 .. Len(blocks)
         /\ B1Byte(blocks, p) \in Byte
         /\ B2Byte(blocks, p) \in Byte
<1>1. Quot(p) \in Nat /\ Quot(n) \in Nat /\ Rem(p) \in 0 .. EDIT_BUF_SIZE - 1
      /\ Rem(n) \in 0 .. EDIT_BUF_SIZE - 1
  BY DivMod
<1>2. Quot(p) <= Quot(n) /\ (Quot(p) = Quot(n) => Rem(p) < Rem(n))
  BY DivModMono
<1>3. Quot(p) + 1 \in 1 .. Len(blocks)
  BY <1>1, <1>2 DEF Side, BlocksCover
<1>4. blocks[Quot(p) + 1] \in Block
  BY <1>3 DEF Side
<1>5. Rem(p) \in 0 .. EDIT_BUF_SIZE - 1 /\ EDIT_BUF_SIZE - 1 - Rem(p) \in 0 .. EDIT_BUF_SIZE - 1
  BY <1>1, BlockSizeAssumption
<1>. QED
  BY <1>3, <1>4, <1>5 DEF B1Byte, B2Byte, Block

LEMMA GrownSide ==
  ASSUME NEW n \in Nat, NEW blocks, Side(blocks, n)
  PROVE  /\ Grown(blocks, n) \in Seq(Block)
         /\ Len(Grown(blocks, n)) = Quot(n) + 1
         /\ \A k \in 1 .. Len(blocks) : Grown(blocks, n)[k] = blocks[k]
<1>1. Quot(n) \in Nat
  BY DivMod
<1>2. Zeroed \in Block
  BY ByteAssumption DEF Zeroed, Block
<1>3. CASE Rem(n) = 0
  BY <1>1, <1>2, <1>3 DEF Grown, Side, BlocksCover
<1>4. CASE Rem(n) # 0
  BY <1>1, <1>4 DEF Grown, Side, BlocksCover
<1>. QED
  BY <1>3, <1>4

(* A byte written at the n-th place of a side leaves the others alone: the  *)
(* slot of a byte determines its offset.                                    *)
LEMMA PutSide ==
  ASSUME NEW n \in Nat, NEW blocks, Side(blocks, n), NEW c \in Byte,
         NEW slot \in 0 .. EDIT_BUF_SIZE - 1
  PROVE  /\ Side(Put(blocks, n, slot, c), n + 1)
         /\ Put(blocks, n, slot, c)[Quot(n) + 1][slot] = c
         /\ \A k \in 1 .. Len(blocks) : \A o \in 0 .. EDIT_BUF_SIZE - 1 :
              k # Quot(n) + 1 \/ o # slot
                => Put(blocks, n, slot, c)[k][o] = blocks[k][o]
<1> DEFINE G == Grown(blocks, n)
           put == Put(blocks, n, slot, c)
<1>1. /\ G \in Seq(Block) /\ Len(G) = Quot(n) + 1 /\ Quot(n) \in Nat
      /\ \A k \in 1 .. Len(blocks) : G[k] = blocks[k]
  BY GrownSide, DivMod
<1>2. /\ Len(put) = Quot(n) + 1 /\ DOMAIN put = 1 .. Quot(n) + 1
      /\ \A k \in 1 .. Quot(n) + 1 :
           put[k] = IF k = Quot(n) + 1 THEN [G[k] EXCEPT ![slot] = c] ELSE G[k]
  BY <1>1 DEF Put
<1>3. ASSUME NEW k \in 1 .. Quot(n) + 1 PROVE put[k] \in Block
  <2>1. G[k] \in Block /\ [G[k] EXCEPT ![slot] = c] \in Block
    BY <1>1 DEF Block
  <2>. QED
    BY <2>1, <1>2
<1>4. put \in Seq(Block)
  <2>1. put = [G EXCEPT ![Quot(n) + 1] = [G[Quot(n) + 1] EXCEPT ![slot] = c]]
    BY <1>1 DEF Put
  <2>2. [G[Quot(n) + 1] EXCEPT ![slot] = c] \in Block
    BY <1>1, <1>2, <1>3
  <2>. QED
    BY <2>1, <2>2, <1>1, ExceptSeq
<1>5. BlocksCover(put, n + 1)
  <2>1. CASE Rem(n) = EDIT_BUF_SIZE - 1
    BY <2>1, <1>2, DivModSucc DEF BlocksCover
  <2>2. CASE Rem(n) # EDIT_BUF_SIZE - 1
    <3>1. Quot(n + 1) = Quot(n) /\ Rem(n + 1) = Rem(n) + 1 /\ Rem(n) \in Nat
      BY <2>2, DivModSucc, DivMod
    <3>. QED
      BY <3>1, <1>2 DEF BlocksCover
  <2>. QED
    BY <2>1, <2>2
<1>6. Len(blocks) <= Quot(n) + 1
  BY <1>1 DEF Side, BlocksCover
<1>7. put[Quot(n) + 1][slot] = c
  <2>1. G[Quot(n) + 1] \in Block
    BY <1>1
  <2>2. put[Quot(n) + 1] = [G[Quot(n) + 1] EXCEPT ![slot] = c]
    BY <1>1, <1>2
  <2>. QED
    BY <2>1, <2>2 DEF Block
<1>8. ASSUME NEW k \in 1 .. Len(blocks), NEW o \in 0 .. EDIT_BUF_SIZE - 1,
             k # Quot(n) + 1 \/ o # slot
      PROVE  put[k][o] = blocks[k][o]
  <2>1. k \in 1 .. Quot(n) + 1 /\ G[k] = blocks[k] /\ G[k] \in Block
    BY <1>1, <1>6 DEF Side
  <2>. QED
    BY <2>1, <1>2, <1>8 DEF Block
<1>. QED
  BY <1>4, <1>5, <1>7, <1>8 DEF Side

LEMMA B1PutSide ==
  ASSUME NEW n \in Nat, NEW blocks, Side(blocks, n), NEW c \in Byte
  PROVE  /\ Side(B1Put(blocks, n, c), n + 1)
         /\ B1Byte(B1Put(blocks, n, c), n) = c
         /\ \A p \in 0 .. n - 1 : B1Byte(B1Put(blocks, n, c), p) = B1Byte(blocks, p)
<1> DEFINE put == B1Put(blocks, n, c)
<1>1. Rem(n) \in 0 .. EDIT_BUF_SIZE - 1 /\ Quot(n) \in Nat
  BY DivMod
<1>2. /\ Side(put, n + 1)
      /\ put[Quot(n) + 1][Rem(n)] = c
      /\ \A k \in 1 .. Len(blocks) : \A o \in 0 .. EDIT_BUF_SIZE - 1 :
           k # Quot(n) + 1 \/ o # Rem(n) => put[k][o] = blocks[k][o]
  BY <1>1, PutSide DEF B1Put
<1>3. ASSUME NEW p \in 0 .. n - 1 PROVE B1Byte(put, p) = B1Byte(blocks, p)
  <2>1. Quot(p) + 1 \in 1 .. Len(blocks)
    BY ByteInBlock
  <2>a. Rem(p) \in 0 .. EDIT_BUF_SIZE - 1 /\ Quot(p) \in Nat
    BY DivMod
  <2>2. Quot(p) + 1 # Quot(n) + 1 \/ Rem(p) # Rem(n)
    BY <2>a, <1>1, DivModMono
  <2>. QED
    BY <2>1, <2>a, <2>2, <1>2 DEF B1Byte
<1>. QED
  BY <1>2, <1>3 DEF B1Byte

LEMMA B2PutSide ==
  ASSUME NEW n \in Nat, NEW blocks, Side(blocks, n), NEW c \in Byte
  PROVE  /\ Side(B2Put(blocks, n, c), n + 1)
         /\ B2Byte(B2Put(blocks, n, c), n) = c
         /\ \A p \in 0 .. n - 1 : B2Byte(B2Put(blocks, n, c), p) = B2Byte(blocks, p)
<1> DEFINE put == B2Put(blocks, n, c)
           slot(p) == EDIT_BUF_SIZE - 1 - Rem(p)
<1>1. Rem(n) \in 0 .. EDIT_BUF_SIZE - 1 /\ Quot(n) \in Nat
      /\ slot(n) \in 0 .. EDIT_BUF_SIZE - 1
  BY DivMod, BlockSizeAssumption
<1>2. /\ Side(put, n + 1)
      /\ put[Quot(n) + 1][slot(n)] = c
      /\ \A k \in 1 .. Len(blocks) : \A o \in 0 .. EDIT_BUF_SIZE - 1 :
           k # Quot(n) + 1 \/ o # slot(n) => put[k][o] = blocks[k][o]
  BY <1>1, PutSide DEF B2Put
<1>3. ASSUME NEW p \in 0 .. n - 1 PROVE B2Byte(put, p) = B2Byte(blocks, p)
  <2>1. Quot(p) + 1 \in 1 .. Len(blocks)
    BY ByteInBlock
  <2>a. Rem(p) \in 0 .. EDIT_BUF_SIZE - 1 /\ Quot(p) \in Nat
    BY DivMod
  <2>2. slot(p) \in 0 .. EDIT_BUF_SIZE - 1
    BY <2>a, BlockSizeAssumption
  <2>3. Quot(p) + 1 # Quot(n) + 1 \/ slot(p) # slot(n)
    BY <2>a, <1>1, DivModMono, BlockSizeAssumption
  <2>. QED
    BY <2>1, <2>2, <2>3, <1>2 DEF B2Byte
<1>. QED
  BY <1>2, <1>3 DEF B2Byte

LEMMA ShrunkSide ==
  ASSUME NEW n \in Nat \ {0}, NEW blocks, Side(blocks, n)
  PROVE  /\ Side(Shrunk(blocks, n), n - 1)
         /\ \A p \in 0 .. n - 2 : /\ B1Byte(Shrunk(blocks, n), p) = B1Byte(blocks, p)
                                  /\ B2Byte(Shrunk(blocks, n), p) = B2Byte(blocks, p)
<1> DEFINE S == Shrunk(blocks, n)
<1>1. /\ n - 1 \in Nat /\ Quot(n - 1) \in Nat /\ Rem(n - 1) \in 0 .. EDIT_BUF_SIZE - 1
      /\ Quot(n) \in Nat /\ Rem(n) \in 0 .. EDIT_BUF_SIZE - 1
  BY DivMod
<1>2. Len(blocks) = Quot(n - 1) + 1
  <2>1. (n - 1) + 1 = n
    BY <1>1
  <2>2. CASE Rem(n - 1) = EDIT_BUF_SIZE - 1
    BY <2>1, <2>2, <1>1, DivModSucc DEF Side, BlocksCover
  <2>3. CASE Rem(n - 1) # EDIT_BUF_SIZE - 1
    BY <2>1, <2>3, <1>1, DivModSucc DEF Side, BlocksCover
  <2>. QED
    BY <2>2, <2>3
<1>3. CASE Rem(n - 1) = 0
  <2>1. S = SubSeq(blocks, 1, Len(blocks) - 1)
    BY <1>3 DEF Shrunk
  <2>2. /\ S \in Seq(Block) /\ Len(S) = Quot(n - 1)
        /\ \A k \in 1 .. Quot(n - 1) : S[k] = blocks[k]
    BY <2>1, <1>1, <1>2 DEF Side
  <2>3. Side(S, n - 1)
    BY <2>2, <1>3 DEF Side, BlocksCover
  <2>4. \A p \in 0 .. (n - 1) - 1 : Quot(p) + 1 \in 1 .. Quot(n - 1)
    BY <2>2, <2>3, <1>1, ByteInBlock
  <2>. QED
    BY <2>2, <2>3, <2>4, <1>1 DEF B1Byte, B2Byte
<1>4. CASE Rem(n - 1) # 0
  BY <1>1, <1>2, <1>4 DEF Shrunk, Side, BlocksCover
<1>. QED
  BY <1>3, <1>4

-----------------------------------------------------------------------------
(* The visible text, and what the alterations of the sides make of it.      *)

TextFrom(x1, x2, n1, n2) ==
  [i \in 0 .. n1 + n2 - 1 |->
     IF i < n1 THEN B1Byte(x1, i) ELSE B2Byte(x2, n1 + n2 - i - 1)]

LEMMA TextOfIsTextFrom ==
  curs1 \in Nat /\ curs2 \in Nat => TextOf = TextFrom(b1, b2, curs1, curs2)
BY DEF TextOf, TextFrom, edit_buffer_get_byte

LEMMA TextOfIsTextFromNext ==
  curs1' \in Nat /\ curs2' \in Nat => TextOf' = TextFrom(b1', b2', curs1', curs2')
<1>1. (curs1 \in Nat /\ curs2 \in Nat => TextOf = TextFrom(b1, b2, curs1, curs2))'
  BY TextOfIsTextFrom, PTL
<1>. QED
  BY <1>1

LEMMA TextFromType ==
  ASSUME NEW n1 \in Nat, NEW n2 \in Nat, NEW x1, NEW x2, Side(x1, n1), Side(x2, n2)
  PROVE  TextFrom(x1, x2, n1, n2) \in Text!TextsOfSize(n1 + n2)
<1>1. ASSUME NEW i \in 0 .. n1 + n2 - 1
      PROVE  TextFrom(x1, x2, n1, n2)[i] \in Byte
  <2>1. CASE i < n1
    <3>1. B1Byte(x1, i) \in Byte
      BY <2>1, ByteInBlock
    <3>. QED
      BY <2>1, <3>1 DEF TextFrom
  <2>2. CASE ~(i < n1)
    <3>1. n1 + n2 - i - 1 \in 0 .. n2 - 1
      BY <2>2
    <3>2. B2Byte(x2, n1 + n2 - i - 1) \in Byte
      BY <3>1, ByteInBlock
    <3>. QED
      BY <2>2, <3>2 DEF TextFrom
  <2>. QED
    BY <2>1, <2>2
<1>. QED
  BY <1>1 DEF TextFrom, Text!TextsOfSize

LEMMA InsertText ==
  ASSUME NEW n1 \in Nat, NEW n2 \in Nat, NEW x1, NEW x2, NEW c \in Byte,
         Side(x1, n1), Side(x2, n2)
  PROVE  TextFrom(B1Put(x1, n1, c), x2, n1 + 1, n2)
           = Text!WithByteAt(TextFrom(x1, x2, n1, n2), n1 + n2, n1, c)
<1>1. /\ B1Byte(B1Put(x1, n1, c), n1) = c
      /\ \A p \in 0 .. n1 - 1 : B1Byte(B1Put(x1, n1, c), p) = B1Byte(x1, p)
  BY B1PutSide
<1>. QED
  BY <1>1 DEF TextFrom, Text!WithByteAt

LEMMA InsertAheadText ==
  ASSUME NEW n1 \in Nat, NEW n2 \in Nat, NEW x1, NEW x2, NEW c \in Byte,
         Side(x1, n1), Side(x2, n2)
  PROVE  TextFrom(x1, B2Put(x2, n2, c), n1, n2 + 1)
           = Text!WithByteAt(TextFrom(x1, x2, n1, n2), n1 + n2, n1, c)
<1>1. /\ B2Byte(B2Put(x2, n2, c), n2) = c
      /\ \A p \in 0 .. n2 - 1 : B2Byte(B2Put(x2, n2, c), p) = B2Byte(x2, p)
  BY B2PutSide
<1>. QED
  BY <1>1 DEF TextFrom, Text!WithByteAt

LEMMA DeleteText ==
  ASSUME NEW n1 \in Nat, NEW n2 \in Nat \ {0}, NEW x1, NEW x2,
         Side(x1, n1), Side(x2, n2)
  PROVE  TextFrom(x1, Shrunk(x2, n2), n1, n2 - 1)
           = Text!WithoutByteAt(TextFrom(x1, x2, n1, n2), n1 + n2, n1)
<1>1. \A p \in 0 .. n2 - 2 : B2Byte(Shrunk(x2, n2), p) = B2Byte(x2, p)
  BY ShrunkSide
<1>. QED
  BY <1>1 DEF TextFrom, Text!WithoutByteAt

LEMMA BackspaceText ==
  ASSUME NEW n1 \in Nat \ {0}, NEW n2 \in Nat, NEW x1, NEW x2,
         Side(x1, n1), Side(x2, n2)
  PROVE  TextFrom(Shrunk(x1, n1), x2, n1 - 1, n2)
           = Text!WithoutByteAt(TextFrom(x1, x2, n1, n2), n1 + n2, n1 - 1)
<1>1. \A p \in 0 .. n1 - 2 : B1Byte(Shrunk(x1, n1), p) = B1Byte(x1, p)
  BY ShrunkSide
<1>. QED
  BY <1>1 DEF TextFrom, Text!WithoutByteAt

LEMMA MoveLeftText ==
  ASSUME NEW n1 \in Nat \ {0}, NEW n2 \in Nat, NEW x1, NEW x2,
         Side(x1, n1), Side(x2, n2)
  PROVE  TextFrom(Shrunk(x1, n1), B2Put(x2, n2, B1Byte(x1, n1 - 1)), n1 - 1, n2 + 1)
           = TextFrom(x1, x2, n1, n2)
<1>1. B1Byte(x1, n1 - 1) \in Byte
  BY ByteInBlock
<1>2. \A p \in 0 .. n1 - 2 : B1Byte(Shrunk(x1, n1), p) = B1Byte(x1, p)
  BY ShrunkSide
<1>3. /\ B2Byte(B2Put(x2, n2, B1Byte(x1, n1 - 1)), n2) = B1Byte(x1, n1 - 1)
      /\ \A p \in 0 .. n2 - 1 :
           B2Byte(B2Put(x2, n2, B1Byte(x1, n1 - 1)), p) = B2Byte(x2, p)
  BY <1>1, B2PutSide
<1>. QED
  BY <1>2, <1>3 DEF TextFrom

LEMMA MoveRightText ==
  ASSUME NEW n1 \in Nat, NEW n2 \in Nat \ {0}, NEW x1, NEW x2,
         Side(x1, n1), Side(x2, n2)
  PROVE  TextFrom(B1Put(x1, n1, B2Byte(x2, n2 - 1)), Shrunk(x2, n2), n1 + 1, n2 - 1)
           = TextFrom(x1, x2, n1, n2)
<1>1. B2Byte(x2, n2 - 1) \in Byte
  BY ByteInBlock
<1>2. \A p \in 0 .. n2 - 2 : B2Byte(Shrunk(x2, n2), p) = B2Byte(x2, p)
  BY ShrunkSide
<1>3. /\ B1Byte(B1Put(x1, n1, B2Byte(x2, n2 - 1)), n1) = B2Byte(x2, n2 - 1)
      /\ \A p \in 0 .. n1 - 1 :
           B1Byte(B1Put(x1, n1, B2Byte(x2, n2 - 1)), p) = B1Byte(x1, p)
  BY <1>1, B1PutSide
<1>. QED
  BY <1>2, <1>3 DEF TextFrom

-----------------------------------------------------------------------------
(* Loading.                                                                 *)

LEMMA FunctionIsSeq ==
  ASSUME NEW S, NEW n \in Nat, NEW f \in [1 .. n -> S]
  PROVE  f \in Seq(S) /\ Len(f) = n
<1>1. f \in Seq(S)
  BY SeqDef
<1>. QED
  BY <1>1, LenProperties

LEMMA LoadedSide ==
  ASSUME NEW n \in Nat, NEW data \in [0 .. n - 1 -> Byte], NEW blocks,
         blocks = Reverse(PartialBlock(data, n) \o WholeBlocks(data, n))
  PROVE  /\ Side(blocks, n)
         /\ \A i \in 0 .. n - 1 : B2Byte(blocks, n - i - 1) = data[i]
<1> DEFINE part == PartialBlock(data, n)
           whole == WholeBlocks(data, n)
           count == Quot(n) + (IF Rem(n) = 0 THEN 0 ELSE 1)
<1>1. /\ Quot(n) \in Nat /\ Rem(n) \in 0 .. EDIT_BUF_SIZE - 1
      /\ n = EDIT_BUF_SIZE * Quot(n) + Rem(n)
      /\ EDIT_BUF_SIZE \in Nat \ {0}
  BY DivMod, BlockSizeAssumption
<1>2. part \in Seq(Block) /\ Len(part) = (IF Rem(n) = 0 THEN 0 ELSE 1)
      /\ (Rem(n) # 0 => \A o \in 0 .. EDIT_BUF_SIZE - 1 :
            o >= EDIT_BUF_SIZE - Rem(n)
              => part[1][o] = data[o - (EDIT_BUF_SIZE - Rem(n))])
  <2>1. CASE Rem(n) = 0
    BY <2>1 DEF PartialBlock
  <2>2. CASE Rem(n) # 0
    <3> DEFINE block == [o \in 0 .. EDIT_BUF_SIZE - 1 |->
                           IF o < EDIT_BUF_SIZE - Rem(n) THEN NUL
                           ELSE data[o - (EDIT_BUF_SIZE - Rem(n))]]
    <3>1. ASSUME NEW o \in 0 .. EDIT_BUF_SIZE - 1, o >= EDIT_BUF_SIZE - Rem(n)
          PROVE  o - (EDIT_BUF_SIZE - Rem(n)) \in 0 .. n - 1
      <4>1. EDIT_BUF_SIZE * Quot(n) >= 0
        BY <1>1
      <4>. QED
        BY <1>1, <3>1, <4>1
    <3>2. block \in Block
      BY <1>1, <3>1, ByteAssumption DEF Block
    <3>3. part = << block >>
      BY <2>2 DEF PartialBlock
    <3>4. /\ \A o \in 0 .. EDIT_BUF_SIZE - 1 :
               o >= EDIT_BUF_SIZE - Rem(n)
                 => block[o] = data[o - (EDIT_BUF_SIZE - Rem(n))]
      BY <1>1
    <3> HIDE DEF block
    <3>5. << block >> \in Seq(Block) /\ Len(<< block >>) = 1 /\ << block >>[1] = block
      BY <3>2
    <3> HIDE DEF part
    <3>. QED
      BY <2>2, <3>3, <3>4, <3>5
  <2>. QED
    BY <2>1, <2>2
<1>3. /\ whole \in Seq(Block) /\ Len(whole) = Quot(n)
      /\ \A k \in 1 .. Quot(n) : \A o \in 0 .. EDIT_BUF_SIZE - 1 :
           whole[k][o] = data[Rem(n) + (k - 1) * EDIT_BUF_SIZE + o]
  <2>1. ASSUME NEW k \in 1 .. Quot(n), NEW o \in 0 .. EDIT_BUF_SIZE - 1
        PROVE  Rem(n) + (k - 1) * EDIT_BUF_SIZE + o \in 0 .. n - 1
    <3>1. k * EDIT_BUF_SIZE <= Quot(n) * EDIT_BUF_SIZE
      BY <1>1
    <3>2. (k - 1) * EDIT_BUF_SIZE = k * EDIT_BUF_SIZE - EDIT_BUF_SIZE
      BY <1>1
    <3>3. (k - 1) * EDIT_BUF_SIZE >= 0
      BY <1>1
    <3>. QED
      BY SMTT(60), <1>1, <3>1, <3>2, <3>3
  <2>2. ASSUME NEW k \in 1 .. Quot(n)
        PROVE  [o \in 0 .. EDIT_BUF_SIZE - 1 |->
                  data[Rem(n) + (k - 1) * EDIT_BUF_SIZE + o]] \in Block
    BY <2>1 DEF Block
  <2>4. /\ DOMAIN whole = 1 .. Quot(n)
        /\ \A k \in 1 .. Quot(n) : \A o \in 0 .. EDIT_BUF_SIZE - 1 :
             whole[k][o] = data[Rem(n) + (k - 1) * EDIT_BUF_SIZE + o]
    BY DEF WholeBlocks
  <2>5. whole \in [1 .. Quot(n) -> Block]
    BY <2>2 DEF WholeBlocks
  <2> HIDE DEF whole
  <2>6. whole \in Seq(Block) /\ Len(whole) = Quot(n)
    BY <2>5, <1>1, FunctionIsSeq
  <2>. QED
    BY <2>4, <2>6
<1> HIDE DEF part, whole
<1>4. /\ part \o whole \in Seq(Block) /\ Len(part \o whole) = count /\ count \in Nat
      /\ \A k \in 1 .. count :
           (part \o whole)[k] = IF k <= Len(part) THEN part[k] ELSE whole[k - Len(part)]
  <2>1. part \in Seq(Block) /\ whole \in Seq(Block) /\ Len(part) + Len(whole) = count
        /\ count \in Nat
    BY <1>1, <1>2, <1>3
  <2> HIDE DEF count
  <2>. QED
    BY <2>1, ConcatProperties
<1> DEFINE all == part \o whole
<1>a. all \in Seq(Block) /\ Len(all) = count /\ blocks = Reverse(all)
  BY <1>4 DEF part, whole
<1> HIDE DEF all, count
<1>5. /\ blocks \in Seq(Block) /\ Len(blocks) = count
      /\ \A k \in 1 .. count : blocks[k] = (part \o whole)[count + 1 - k]
  <2>1. count \in Nat /\ DOMAIN all = 1 .. count
    BY <1>a, <1>4
  <2>2. Reverse(all) = [i \in 1 .. count |-> all[count + 1 - i]]
    BY <1>a, <2>1 DEF Reverse
  <2>3. \A i \in 1 .. count : all[count + 1 - i] \in Block
    BY <1>a, <2>1
  <2>4. Reverse(all) \in Seq(Block) /\ Len(Reverse(all)) = count
    BY <2>1, <2>2, <2>3, FunctionIsSeq
  <2>. QED
    BY <1>a, <2>2, <2>4 DEF all
<1>6. Side(blocks, n)
  BY <1>5 DEF Side, BlocksCover, count
<1>7. ASSUME NEW i \in 0 .. n - 1 PROVE B2Byte(blocks, n - i - 1) = data[i]
  <2> DEFINE p == n - i - 1
             q == Quot(p)
             r == Rem(p)
             o == EDIT_BUF_SIZE - 1 - r
             Q == Quot(n)
             R == Rem(n)
  <2>1. p \in Nat /\ p < n /\ i \in Nat
    BY <1>1
  <2>2. q \in Nat /\ r \in 0 .. EDIT_BUF_SIZE - 1 /\ Q \in Nat /\ R \in 0 .. EDIT_BUF_SIZE - 1
    BY <2>1, DivMod
  <2>3. p = EDIT_BUF_SIZE * q + r /\ n = EDIT_BUF_SIZE * Q + R
    BY <2>1, DivMod
  <2>4. q <= Q /\ (q = Q => r < R)
    BY <2>1, DivModMono
  <2>5. o \in 0 .. EDIT_BUF_SIZE - 1
    BY <1>1, <2>2
  <2>6. count = Q + Len(part) /\ Len(part) = (IF R = 0 THEN 0 ELSE 1)
    BY <1>2, <2>2 DEF count
  <2> HIDE DEF q, r, Q, R
  <2>7. count \in Nat /\ count - q \in 1 .. count /\ q + 1 \in 1 .. count
        /\ count + 1 - (q + 1) = count - q
    BY <2>2, <2>4, <2>6
  <2>8. B2Byte(blocks, p) = all[count - q][o]
    BY <2>2, <2>5, <2>7, <1>5 DEF B2Byte, all, q, r
  <2>9. CASE q = Q
    <3>1. R # 0 /\ count - q = 1 /\ Len(part) = 1 /\ o >= EDIT_BUF_SIZE - R
      BY <1>1, <2>2, <2>4, <2>6, <2>9
    <3>2. o - (EDIT_BUF_SIZE - R) = i
      <4>1. EDIT_BUF_SIZE * q \in Nat
        BY <1>1, <2>2
      <4>. QED
        BY <1>1, <2>1, <2>2, <2>3, <2>9, <4>1
    <3>3. all[count - q] = part[1]
      <4>1. 1 \in 1 .. count
        BY <3>1, <2>7
      <4>2. all[1] = part[1]
        BY <4>1, <3>1, <1>4 DEF all
      <4>. QED
        BY <4>2, <3>1
    <3>. QED
      BY <2>5, <2>8, <3>1, <3>2, <3>3, <1>2 DEF R
  <2>10. CASE q < Q
    <3> DEFINE w == Q - q
    <3>1. w \in 1 .. Q
      BY <2>2, <2>10
    <3>2. all[count - q] = whole[w]
      <4>1. count - q > Len(part) /\ count - q - Len(part) = w /\ Len(part) \in Nat
        BY <2>2, <2>6, <2>10
      <4>. QED
        BY <4>1, <2>7, <1>4 DEF all
    <3>3. R + (w - 1) * EDIT_BUF_SIZE + o = i
      <4>1. (w - 1) * EDIT_BUF_SIZE
              = EDIT_BUF_SIZE * Q - EDIT_BUF_SIZE * q - EDIT_BUF_SIZE
        BY <1>1, <2>2
      <4>2. EDIT_BUF_SIZE * Q \in Nat /\ EDIT_BUF_SIZE * q \in Nat
        BY <1>1, <2>2
      <4>. QED
        BY <4>1, <4>2, <1>1, <2>1, <2>2, <2>3
    <3>. QED
      BY <2>5, <2>8, <3>1, <3>2, <3>3, <1>3 DEF Q, R
  <2>. QED
    BY <2>2, <2>4, <2>9, <2>10
<1>. QED
  BY <1>6, <1>7

-----------------------------------------------------------------------------
(* The theorems.                                                            *)

LEMMA InitTypeOK == Init => TypeOK
<1> SUFFICES ASSUME Init PROVE TypeOK
  OBVIOUS
<1>1. Quot(0) = 0 /\ Rem(0) = 0
  BY BlockSizeAssumption DEF Quot, Rem
<1>2. << >> \in Seq(Block) /\ Len(<< >>) = 0
  OBVIOUS
<1>3. loaded \in BOOLEAN
  BY DEF Init
<1>4. b1 = << >> /\ b2 = << >> /\ curs1 = 0 /\ curs2 = 0 /\ size = 0
  BY DEF Init
<1>. QED
  BY <1>1, <1>2, <1>3, <1>4, MaxSizeAssumption DEF TypeOK, BlocksCover

(* The bytes cursor_move_left and cursor_move_right pass over.              *)
LEMMA ByteAtCursor ==
  ASSUME TypeOK
  PROVE  /\ curs1 # 0 => /\ edit_buffer_get_byte(curs1 - 1) = B1Byte(b1, curs1 - 1)
                         /\ B1Byte(b1, curs1 - 1) \in Byte
         /\ curs2 # 0 => /\ edit_buffer_get_byte(curs1) = B2Byte(b2, curs2 - 1)
                         /\ B2Byte(b2, curs2 - 1) \in Byte
<1>1. Side(b1, curs1) /\ Side(b2, curs2) /\ curs1 \in Nat /\ curs2 \in Nat
  BY DEF TypeOK, Side
<1>2. ASSUME curs1 # 0
      PROVE  /\ edit_buffer_get_byte(curs1 - 1) = B1Byte(b1, curs1 - 1)
             /\ B1Byte(b1, curs1 - 1) \in Byte
  <2>1. curs1 - 1 \in 0 .. curs1 - 1
    BY <1>1, <1>2
  <2>. QED
    BY <2>1, <1>1, <1>2, ByteInBlock DEF edit_buffer_get_byte
<1>3. ASSUME curs2 # 0
      PROVE  /\ edit_buffer_get_byte(curs1) = B2Byte(b2, curs2 - 1)
             /\ B2Byte(b2, curs2 - 1) \in Byte
  <2>1. curs2 - 1 \in 0 .. curs2 - 1 /\ curs1 + curs2 - curs1 - 1 = curs2 - 1
        /\ ~(curs1 >= curs1 + curs2) /\ ~(curs1 < 0)
    BY <1>1, <1>3
  <2>. QED
    BY <2>1, <1>1, <1>3, ByteInBlock DEF edit_buffer_get_byte
<1>. QED
  BY <1>2, <1>3

(* Each alteration keeps the type and has its effect on the text.           *)
LEMMA InsertStep ==
  ASSUME TypeOK, NEW c \in Byte, edit_buffer_insert(c)
  PROVE  TypeOK' /\ Text!Insert(c)
<1>1. Side(b1, curs1) /\ Side(b2, curs2) /\ curs1 \in Nat /\ curs2 \in Nat
      /\ size = curs1 + curs2
  BY DEF TypeOK, Side
<1>2. Side(b1', curs1') /\ Side(b2', curs2')
  BY <1>1, B1PutSide DEF edit_buffer_insert
<1>3. TypeOK'
  <2>1. curs1' = curs1 + 1 /\ curs2' = curs2 /\ size' = size + 1 /\ curs1 + curs2 < MaxSize
    BY DEF edit_buffer_insert
  <2>2. loaded' = loaded
    BY DEF edit_buffer_insert
  <2>. QED
    BY <1>1, <1>2, <2>1, <2>2, MaxSizeAssumption DEF TypeOK, Side
<1>4. TextOf = TextFrom(b1, b2, curs1, curs2)
      /\ TextOf' = TextFrom(b1', b2', curs1', curs2')
  <2>1. curs1' \in Nat /\ curs2' \in Nat
    BY <1>3 DEF TypeOK
  <2>. QED
    BY <1>1, <2>1, TextOfIsTextFrom, TextOfIsTextFromNext
<1>5. TextOf' = Text!WithByteAt(TextOf, size, curs1, c)
  BY <1>1, <1>4, InsertText DEF edit_buffer_insert
<1>. QED
  BY <1>1, <1>3, <1>5 DEF Text!Insert, edit_buffer_insert

LEMMA InsertAheadStep ==
  ASSUME TypeOK, NEW c \in Byte, edit_buffer_insert_ahead(c)
  PROVE  TypeOK' /\ Text!InsertAhead(c)
<1>1. Side(b1, curs1) /\ Side(b2, curs2) /\ curs1 \in Nat /\ curs2 \in Nat
      /\ size = curs1 + curs2
  BY DEF TypeOK, Side
<1>2. Side(b1', curs1') /\ Side(b2', curs2')
  BY <1>1, B2PutSide DEF edit_buffer_insert_ahead
<1>3. TypeOK'
  <2>1. curs1' = curs1 /\ curs2' = curs2 + 1 /\ size' = size + 1 /\ curs1 + curs2 < MaxSize
    BY DEF edit_buffer_insert_ahead
  <2>2. loaded' = loaded
    BY DEF edit_buffer_insert_ahead
  <2>. QED
    BY <1>1, <1>2, <2>1, <2>2, MaxSizeAssumption DEF TypeOK, Side
<1>4. TextOf = TextFrom(b1, b2, curs1, curs2)
      /\ TextOf' = TextFrom(b1', b2', curs1', curs2')
  <2>1. curs1' \in Nat /\ curs2' \in Nat
    BY <1>3 DEF TypeOK
  <2>. QED
    BY <1>1, <2>1, TextOfIsTextFrom, TextOfIsTextFromNext
<1>5. TextOf' = Text!WithByteAt(TextOf, size, curs1, c)
  BY <1>1, <1>4, InsertAheadText DEF edit_buffer_insert_ahead
<1>. QED
  BY <1>1, <1>3, <1>5 DEF Text!InsertAhead, edit_buffer_insert_ahead

LEMMA DeleteStep ==
  ASSUME TypeOK, edit_buffer_delete
  PROVE  TypeOK' /\ Text!Delete
<1>1. Side(b1, curs1) /\ Side(b2, curs2) /\ curs1 \in Nat /\ curs2 \in Nat \ {0}
      /\ size = curs1 + curs2
  BY DEF TypeOK, Side, edit_buffer_delete
<1>2. Side(b1', curs1') /\ Side(b2', curs2')
  BY <1>1, ShrunkSide DEF edit_buffer_delete
<1>3. TypeOK'
  <2>1. curs1' = curs1 /\ curs2' = curs2 - 1 /\ size' = size - 1
    BY DEF edit_buffer_delete
  <2>2. loaded' = loaded
    BY DEF edit_buffer_delete
  <2>. QED
    BY <1>1, <1>2, <2>1, <2>2, MaxSizeAssumption DEF TypeOK, Side
<1>4. TextOf = TextFrom(b1, b2, curs1, curs2)
      /\ TextOf' = TextFrom(b1', b2', curs1', curs2')
  <2>1. curs1' \in Nat /\ curs2' \in Nat
    BY <1>3 DEF TypeOK
  <2>. QED
    BY <1>1, <2>1, TextOfIsTextFrom, TextOfIsTextFromNext
<1>5. TextOf' = Text!WithoutByteAt(TextOf, size, curs1)
  BY <1>1, <1>4, DeleteText DEF edit_buffer_delete
<1>. QED
  BY <1>1, <1>3, <1>5 DEF Text!Delete, edit_buffer_delete

LEMMA BackspaceStep ==
  ASSUME TypeOK, edit_buffer_backspace
  PROVE  TypeOK' /\ Text!Backspace
<1>1. Side(b1, curs1) /\ Side(b2, curs2) /\ curs1 \in Nat \ {0} /\ curs2 \in Nat
      /\ size = curs1 + curs2
  BY DEF TypeOK, Side, edit_buffer_backspace
<1>2. Side(b1', curs1') /\ Side(b2', curs2')
  BY <1>1, ShrunkSide DEF edit_buffer_backspace
<1>3. TypeOK'
  <2>1. curs1' = curs1 - 1 /\ curs2' = curs2 /\ size' = size - 1
    BY DEF edit_buffer_backspace
  <2>2. loaded' = loaded
    BY DEF edit_buffer_backspace
  <2>. QED
    BY <1>1, <1>2, <2>1, <2>2, MaxSizeAssumption DEF TypeOK, Side
<1>4. TextOf = TextFrom(b1, b2, curs1, curs2)
      /\ TextOf' = TextFrom(b1', b2', curs1', curs2')
  <2>1. curs1' \in Nat /\ curs2' \in Nat
    BY <1>3 DEF TypeOK
  <2>. QED
    BY <1>1, <2>1, TextOfIsTextFrom, TextOfIsTextFromNext
<1>5. TextOf' = Text!WithoutByteAt(TextOf, size, curs1 - 1)
  BY <1>1, <1>4, BackspaceText DEF edit_buffer_backspace
<1>. QED
  BY <1>1, <1>3, <1>5 DEF Text!Backspace, edit_buffer_backspace

LEMMA MoveLeftStep ==
  ASSUME TypeOK, cursor_move_left
  PROVE  TypeOK' /\ Text!CursorLeft
<1>1. Side(b1, curs1) /\ Side(b2, curs2) /\ curs1 \in Nat \ {0} /\ curs2 \in Nat
      /\ size = curs1 + curs2
  BY DEF TypeOK, Side, cursor_move_left
<1>2. /\ edit_buffer_get_byte(curs1 - 1) = B1Byte(b1, curs1 - 1)
      /\ B1Byte(b1, curs1 - 1) \in Byte
  BY <1>1, ByteAtCursor
<1>3. b1' = Shrunk(b1, curs1) /\ b2' = B2Put(b2, curs2, B1Byte(b1, curs1 - 1))
      /\ curs1' = curs1 - 1 /\ curs2' = curs2 + 1 /\ size' = size /\ loaded' = loaded
  BY <1>2 DEF cursor_move_left
<1>4. Side(b1', curs1') /\ Side(b2', curs2')
  BY <1>1, <1>2, <1>3, ShrunkSide, B2PutSide
<1>5. TypeOK'
  BY <1>1, <1>3, <1>4 DEF TypeOK, Side
<1>6. TextOf = TextFrom(b1, b2, curs1, curs2)
      /\ TextOf' = TextFrom(b1', b2', curs1', curs2')
  <2>1. curs1' \in Nat /\ curs2' \in Nat
    BY <1>5 DEF TypeOK
  <2>. QED
    BY <1>1, <2>1, TextOfIsTextFrom, TextOfIsTextFromNext
<1>7. TextOf' = TextOf
  BY <1>1, <1>3, <1>6, MoveLeftText
<1>. QED
  BY <1>1, <1>3, <1>5, <1>7 DEF Text!CursorLeft

LEMMA MoveRightStep ==
  ASSUME TypeOK, cursor_move_right
  PROVE  TypeOK' /\ Text!CursorRight
<1>1. Side(b1, curs1) /\ Side(b2, curs2) /\ curs1 \in Nat /\ curs2 \in Nat \ {0}
      /\ size = curs1 + curs2
  BY DEF TypeOK, Side, cursor_move_right
<1>2. /\ edit_buffer_get_byte(curs1) = B2Byte(b2, curs2 - 1)
      /\ B2Byte(b2, curs2 - 1) \in Byte
  BY <1>1, ByteAtCursor
<1>3. b2' = Shrunk(b2, curs2) /\ b1' = B1Put(b1, curs1, B2Byte(b2, curs2 - 1))
      /\ curs1' = curs1 + 1 /\ curs2' = curs2 - 1 /\ size' = size /\ loaded' = loaded
  BY <1>2 DEF cursor_move_right
<1>4. Side(b1', curs1') /\ Side(b2', curs2')
  BY <1>1, <1>2, <1>3, ShrunkSide, B1PutSide
<1>5. TypeOK'
  BY <1>1, <1>3, <1>4 DEF TypeOK, Side
<1>6. TextOf = TextFrom(b1, b2, curs1, curs2)
      /\ TextOf' = TextFrom(b1', b2', curs1', curs2')
  <2>1. curs1' \in Nat /\ curs2' \in Nat
    BY <1>5 DEF TypeOK
  <2>. QED
    BY <1>1, <2>1, TextOfIsTextFrom, TextOfIsTextFromNext
<1>7. TextOf' = TextOf
  BY <1>1, <1>3, <1>6, MoveRightText
<1>. QED
  BY <1>1, <1>3, <1>5, <1>7 DEF Text!CursorRight

(* A file loaded whole becomes the text.                                    *)
LEMMA LoadStep ==
  ASSUME TypeOK, NEW n \in 0 .. MaxSize, NEW data \in [0 .. n - 1 -> Byte],
         edit_load_file(data, n, n)
  PROVE  TypeOK' /\ Text!Load /\ TextOf' = data
<1>1. n \in Nat /\ n <= MaxSize /\ MaxSize \in Nat
  BY MaxSizeAssumption
<1>2. /\ b1' = << >> /\ curs1' = 0 /\ curs2' = n /\ size' = n
      /\ b2' = Reverse(PartialBlock(data, n) \o WholeBlocks(data, n))
  BY DEF edit_load_file
<1>3. loaded' \in BOOLEAN
  BY DEF edit_load_file
<1>4. /\ Side(b2', n)
      /\ \A i \in 0 .. n - 1 : B2Byte(b2', n - i - 1) = data[i]
  BY <1>1, <1>2, LoadedSide
<1>5. Side(b1', 0)
  <2>1. Quot(0) = 0 /\ Rem(0) = 0
    BY BlockSizeAssumption DEF Quot, Rem
  <2>2. << >> \in Seq(Block) /\ Len(<< >>) = 0
    OBVIOUS
  <2>. QED
    BY <1>2, <2>1, <2>2 DEF Side, BlocksCover
<1>6. TypeOK'
  BY <1>1, <1>2, <1>3, <1>4, <1>5 DEF TypeOK, Side
<1>7. TextOf' = TextFrom(b1', b2', 0, n)
  BY <1>1, <1>2, TextOfIsTextFromNext
<1>8. TextOf' = [i \in 0 .. n - 1 |-> data[i]]
  BY <1>1, <1>4, <1>7 DEF TextFrom
<1>9. TextOf' = data
  BY <1>8
<1>10. data \in Text!TextsOfSize(n)
  BY DEF Text!TextsOfSize
<1>. QED
  BY <1>2, <1>6, <1>9, <1>10 DEF Text!Load

(* Every step keeps the type, and is a step of the text or leaves it alone. *)
LEMMA StepSimulation ==
  ASSUME TypeOK, [Next]_vars
  PROVE  TypeOK' /\ [Text!Next]_(Text!textVars)
<1>1. CASE Load
  <2>1. CASE \E n \in 0 .. MaxSize : \E data \in [0 .. n - 1 -> Byte] :
               edit_load_file(data, n, n)
    BY <2>1, LoadStep DEF Text!Next
  <2>2. CASE \E n \in 0 .. MaxSize : \E got \in 0 .. n : edit_load_file_short(n, got)
    <3>1. UNCHANGED vars
      BY <2>2 DEF edit_load_file_short
    <3>. QED
      BY <3>1 DEF vars, TypeOK, Text!textVars, TextOf, edit_buffer_get_byte
  <2>. QED
    BY <1>1, <2>1, <2>2 DEF Load
<1>2. CASE Alter
  <2>1. CASE \E c \in Byte : edit_buffer_insert(c) \/ edit_buffer_insert_ahead(c)
    BY <2>1, InsertStep, InsertAheadStep DEF Text!Next
  <2>2. CASE edit_buffer_delete
    BY <2>2, DeleteStep DEF Text!Next
  <2>3. CASE edit_buffer_backspace
    BY <2>3, BackspaceStep DEF Text!Next
  <2>4. CASE cursor_move_left
    BY <2>4, MoveLeftStep DEF Text!Next
  <2>5. CASE cursor_move_right
    BY <2>5, MoveRightStep DEF Text!Next
  <2>. QED
    BY <1>2, <2>1, <2>2, <2>3, <2>4, <2>5 DEF Alter
<1>3. CASE Write
  <2>1. UNCHANGED <<b1, b2, curs1, curs2, size, loaded>>
    BY <1>3 DEF Write, edit_buffer_write_file, edit_buffer_write_file_short
  <2>. QED
    BY <2>1 DEF TypeOK, Text!textVars, TextOf, edit_buffer_get_byte
<1>4. CASE UNCHANGED vars
  BY <1>4 DEF vars, TypeOK, Text!textVars, TextOf, edit_buffer_get_byte
<1>. QED
  BY <1>1, <1>2, <1>3, <1>4 DEF Next

(* The number of blocks of each side is always the one its byte count       *)
(* calls for, whatever order the alterations and cursor moves came in.      *)
THEOREM TypeCorrect == Spec => []TypeOK
<1>1. Init => TypeOK
  BY InitTypeOK
<1>2. TypeOK /\ [Next]_vars => TypeOK'
  BY StepSimulation
<1>. QED
  BY <1>1, <1>2, PTL DEF Spec

(* The gap buffer, for every block size, is a text with a cursor: what      *)
(* edit_buffer_get_byte yields changes at each operation the way the        *)
(* operation says.                                                          *)
THEOREM Refinement == Spec => ImplementsText
<1>1. Init => Text!Init
  <2> SUFFICES ASSUME Init PROVE Text!Init
    OBVIOUS
  <2>1. curs1 = 0 /\ curs2 = 0 /\ size = 0
    BY DEF Init
  <2>2. TextOf \in [0 .. 0 - 1 -> Byte]
    BY <2>1 DEF TextOf
  <2>. QED
    BY <2>1, <2>2 DEF Text!Init, Text!TextsOfSize
<1>2. TypeOK /\ [Next]_vars => [Text!Next]_(Text!textVars)
  BY StepSimulation
<1>. QED
  BY <1>1, <1>2, TypeCorrect, PTL DEF Spec, ImplementsText, Text!Spec

(* Whatever its size, a file that is read whole is the text, byte for byte: *)
(* the partial chunk first and the reversal of the array cancel out.        *)
THEOREM LoadCorrect == Spec => LoadedIsFile
<1> DEFINE Loaded ==
      loaded' # loaded =>
        \A n \in 0 .. MaxSize : \A data \in [0 .. n - 1 -> Byte] :
          edit_load_file(data, n, n) => TextOf' = data
<1>1. TypeOK /\ [Next]_vars => [Loaded]_vars
  BY LoadStep
<1>. QED
  BY <1>1, TypeCorrect, PTL DEF Spec, LoadedIsFile

-----------------------------------------------------------------------------
(***************************************************************************)
(* That the hex mode of the viewer loses no change but those it says it    *)
(* loses, for any file and any number of keys (ChangesKept of HexEdit).    *)
(*                                                                         *)
(* ChangesKept says nothing of the moments between two bytes of a save,    *)
(* when a byte that has left the list of changes may be in the file being  *)
(* written only; ChangesWritten says what holds then, and is what an error *)
(* half way leaves to ChangesKept.                                         *)
(***************************************************************************)

(* What the variables hold.                                                 *)
HexTypeOK ==
  /\ remote \in BOOLEAN /\ locked \in BOOLEAN /\ lock_link \in BOOLEAN
  /\ stored \in [Offsets -> Values] /\ fp \in [Offsets -> Values]
  /\ typed \in [Offsets -> Values] /\ change_list \in [Offsets -> Values \cup {Unchanged}]
  /\ saving \in {"no", "save", "quit", "gone"} /\ dropped \subseteq Offsets

(* While a save goes on, every byte is, in the file as written so far or in *)
(* the list of changes, what was typed last; and the file written is the    *)
(* file on disk, but on a file system that stores it when it is closed.     *)
ChangesWritten ==
  saving \in {"save", "quit"} =>
    /\ \A o \in Offsets \ dropped : typed[o] = IF o \in Pending THEN change_list[o] ELSE fp[o]
    /\ ~remote => stored = fp

HexInv == HexTypeOK /\ ChangesWritten /\ ChangesKept

(* A set of natural numbers has a least element.                            *)
LEMMA LeastNat == ASSUME NEW T \in SUBSET Nat, T # {} PROVE \E x \in T : \A y \in T : x <= y
<1>1. \E x \in T : \A y \in T : <<y, x>> \notin OpToRel(<, Nat)
  BY NatLessThanWellFounded, WFMin
<1>2. \A x, y \in Nat : <<y, x>> \notin OpToRel(<, Nat) => x <= y
  BY DEF OpToRel
<1> QED BY <1>1, <1>2

(* The change save_byte takes up is one of the list.                        *)
LEMMA FirstIsPending == Pending # {} => FirstChange \in Pending
<1> SUFFICES ASSUME Pending # {} PROVE FirstChange \in Pending
  OBVIOUS
<1>1. Pending \in SUBSET Nat
  BY OffsetsAssumption DEF Pending
<1> QED BY <1>1, LeastNat DEF FirstChange, Min

(* A file just opened.                                                      *)
LEMMA HexInitInv == HexInit => HexInv
BY OffsetsAssumption
   DEF HexInit, HexInv, HexTypeOK, ChangesWritten, ChangesKept, NoChanges, Pending

(* Closing the file stores what was written, or drops what is not stored.   *)
LEMMA CloseDoes ==
  ASSUME HexInv, mc_close, fp' = fp
  PROVE  /\ stored' \in [Offsets -> Values] /\ dropped \subseteq dropped' /\ dropped' \subseteq Offsets
         /\ \A o \in Offsets \ dropped' : stored'[o] = fp[o]
BY DEF HexInv, HexTypeOK, mc_close, Unstored

(* Every step keeps the invariant.                                          *)
LEMMA HexStep ==
  ASSUME HexInv, [HexNext]_hex_vars PROVE HexInv'
<1> USE OffsetsAssumption
<1>1. ASSUME NEW o \in Offsets, NEW v \in Values, mcview_handle_editkey(o, v) PROVE HexInv'
  <2>1. Pending' = Pending \cup {o} /\ change_list'[o] = v /\ typed'[o] = v
    BY <1>1 DEF mcview_handle_editkey, HexInv, HexTypeOK, Pending
  <2>2. HexTypeOK' /\ ChangesWritten'
    BY <1>1 DEF mcview_handle_editkey, HexInv, HexTypeOK, ChangesWritten
  <2>3. ChangesKept'
    BY <1>1, <2>1 DEF mcview_handle_editkey, HexInv, HexTypeOK, ChangesKept
  <2> QED BY <2>2, <2>3 DEF HexInv
<1>2. ASSUME NEW why \in {"save", "quit"}, save_begins(why) PROVE HexInv'
  BY <1>2 DEF save_begins, HexInv, HexTypeOK, ChangesWritten, ChangesKept, Pending
<1>3. CASE save_byte
  <2> DEFINE f == FirstChange
  <2>1. f \in Pending /\ f \in Offsets /\ change_list[f] \in Values
    BY <1>3, FirstIsPending DEF save_byte, Pending, HexInv, HexTypeOK
  <2>2. fp' = [fp EXCEPT ![f] = change_list[f]] /\ change_list' = [change_list EXCEPT ![f] = Unchanged]
        /\ stored' = (IF remote THEN stored ELSE fp') /\ saving \in {"save", "quit"}
        /\ UNCHANGED <<remote, locked, lock_link, saving, typed, dropped, keys>>
    BY <1>3 DEF save_byte, Left
  <2> HIDE DEF f
  <2>3. Pending' = Pending \ {f}
    BY <2>1, <2>2 DEF Pending, HexInv, HexTypeOK
  <2>4. HexTypeOK'
    BY <2>1, <2>2 DEF HexInv, HexTypeOK
  <2>5. ChangesWritten'
    BY <2>1, <2>2, <2>3 DEF HexInv, HexTypeOK, ChangesWritten
  <2>6. ChangesKept'
    BY <2>2 DEF HexInv, ChangesKept
  <2> QED BY <2>4, <2>5, <2>6 DEF HexInv
<1>4. CASE save_error
  <2>1. Pending' = Pending
    BY <1>4 DEF save_error, KeptOnError, Pending
  <2>2. HexTypeOK' /\ ChangesWritten'
    BY <1>4, CloseDoes DEF save_error, KeptOnError, HexInv, HexTypeOK, ChangesWritten
  <2>3. ChangesKept'
    BY <1>4, <2>1, CloseDoes DEF save_error, KeptOnError, HexInv, ChangesKept, ChangesWritten
  <2> QED BY <2>2, <2>3 DEF HexInv
<1>5. CASE save_ends
  <2>1. Pending = {} /\ Pending' = {}
    BY <1>5 DEF save_ends, Pending
  <2>2. HexTypeOK' /\ ChangesWritten'
    BY <1>5, CloseDoes DEF save_ends, mcview_unlock_file, HexInv, HexTypeOK, ChangesWritten
  <2>3. ChangesKept'
    BY <1>5, <2>1, CloseDoes DEF save_ends, mcview_unlock_file, HexInv, ChangesKept, ChangesWritten
  <2> QED BY <2>2, <2>3 DEF HexInv
<1>6. CASE quit_unsaved \/ mcview_done
  <2>1. /\ saving = "no" /\ saving' = "gone" /\ change_list' = NoChanges /\ dropped' = dropped \cup Pending
        /\ locked' = FALSE /\ lock_link' \in BOOLEAN /\ UNCHANGED <<remote, stored, fp, typed>>
    BY <1>6 DEF quit_unsaved, mcview_done, mcview_unlock_file, HexInv, HexTypeOK
  <2>2. Pending' = {} /\ Pending \subseteq Offsets
    BY <2>1 DEF Pending, NoChanges
  <2>3. HexTypeOK' /\ ChangesWritten'
    BY <2>1, <2>2 DEF HexInv, HexTypeOK, ChangesWritten, NoChanges
  <2>4. ChangesKept'
    BY <2>1, <2>2 DEF HexInv, ChangesKept
  <2> QED BY <2>3, <2>4 DEF HexInv
<1>7. CASE save_not_opened \/ UNCHANGED hex_vars
  <2>1. UNCHANGED hex_vars
    BY <1>7 DEF save_not_opened
  <2>2. Pending' = Pending
    BY <2>1 DEF hex_vars, Pending
  <2>3. HexTypeOK' /\ ChangesWritten' /\ ChangesKept'
    BY <2>1, <2>2 DEF hex_vars, HexInv, HexTypeOK, ChangesWritten, ChangesKept
  <2> QED BY <2>3 DEF HexInv
<1> QED BY <1>1, <1>2, <1>3, <1>4, <1>5, <1>6, <1>7 DEF HexNext

(* However often a save fails half way and is tried again, with keys typed  *)
(* in between, every byte is what was typed last, in the file or in the     *)
(* list of changes, but for those given up on the way out or by a close     *)
(* that fails (mcview_hexedit_save_changes, mcview_hexedit_free_change_list *)
(* of src/viewer/view-hex.c, hex.c).                                  *)
THEOREM NoChangeLost == HexSpec => []ChangesKept
<1>1. HexInv => ChangesKept
  BY DEF HexInv
<1> QED BY <1>1, HexInitInv, HexStep, PTL DEF HexSpec

-----------------------------------------------------------------------------
(* A set of numbers with 0 and every successor has all numbers.             *)
LEMMA NatInduct ==
  ASSUME NEW T, 0 \in T, \A n \in Nat : n \in T => n + 1 \in T
  PROVE  Nat \subseteq T
<1> DEFINE U == {n \in Nat : n \notin T}
<1> SUFFICES ASSUME U # {} PROVE FALSE
  OBVIOUS
<1>1. PICK x \in U : \A y \in U : x <= y
  <2>1. U \in SUBSET Nat
    OBVIOUS
  <2> HIDE DEF U
  <2> QED BY <2>1, LeastNat
<1>2. x # 0 /\ x - 1 \in Nat /\ x - 1 \notin U
  BY <1>1
<1> QED BY <1>1, <1>2

(* What FlattenSeq yields, sequence by sequence.                            *)
LEMMA FlattenDoes ==
  ASSUME NEW S, NEW ss \in Seq(Seq(S))
  PROVE  \E F \in [0 .. Len(ss) -> Seq(S)] :
           /\ F[0] = << >>
           /\ \A k \in 1 .. Len(ss) : F[k] = F[k - 1] \o ss[k]
           /\ F[Len(ss)] = FlattenSeq(ss)
<1> DEFINE n == Len(ss)
           Flat(F, k) == /\ F \in [0 .. k -> Seq(S)] /\ F[0] = << >>
                         /\ \A i \in 1 .. k : F[i] = F[i - 1] \o ss[i]
           T == {k \in Nat : k > n \/ \E F : Flat(F, k)}
<1>1. n \in Nat /\ \A i \in 1 .. n : ss[i] \in Seq(S)
  OBVIOUS
<1> HIDE DEF n, Flat
<1>2. 0 \in T
  <2>1. Flat([i \in 0 .. 0 |-> << >>], 0)
    BY DEF Flat
  <2> QED BY <2>1
<1>3. ASSUME NEW k \in Nat, k \in T PROVE k + 1 \in T
  <2> SUFFICES ASSUME k + 1 <= n PROVE \E F : Flat(F, k + 1)
    BY <1>1
  <2>1. PICK F : Flat(F, k)
    BY <1>1, <1>3
  <2>1a. PICK j \in 1 .. n : j = k + 1
    BY <1>1
  <2> HIDE DEF T
  <2> DEFINE G == [i \in 0 .. j |-> IF i = j THEN F[k] \o ss[j] ELSE F[i]]
  <2>1b. j \in Nat /\ k = j - 1 /\ k \in Nat /\ k # j /\ 1 .. k \subseteq 1 .. j
    BY <1>1, <2>1a
  <2>2. F[k] \o ss[j] \in Seq(S)
    BY <1>1, <2>1, <2>1b, ConcatProperties DEF Flat
  <2>3. G \in [0 .. j -> Seq(S)] /\ G[0] = << >>
    BY <2>1, <2>2, <2>1a DEF Flat
  <2>4. ASSUME NEW i \in 1 .. j PROVE G[i] = G[i - 1] \o ss[i]
    <3>1. i \in 0 .. j /\ i - 1 \in 0 .. j /\ i - 1 # j /\ (i # j => i \in 1 .. k) /\ (i = j => i - 1 = k)
      BY <2>1b
    <3>2. G[i - 1] = F[i - 1] /\ G[i] = IF i = j THEN F[k] \o ss[j] ELSE F[i]
      BY <3>1
    <3>2a. i # j => F[i] = F[i - 1] \o ss[i]
      BY <3>1, <2>1 DEF Flat
    <3> HIDE DEF G
    <3>3. CASE i = j
      <4>1. G[i] = F[k] \o ss[j]
        BY <3>2, <3>3
      <4>2. G[i - 1] = F[k]
        BY <3>1, <3>2, <3>3
      <4> QED BY <3>3, <4>1, <4>2, Zenon
    <3>4. CASE i # j
      BY <3>2, <3>2a, <3>4
    <3> QED BY <3>3, <3>4
  <2> HIDE DEF G
  <2>5. Flat(G, j)
    BY <2>3, <2>4 DEF Flat
  <2> QED BY <2>5, <2>1a
<1>4. n \in T
  <2> HIDE DEF T
  <2> QED BY <1>1, <1>2, <1>3, NatInduct
<1>5. PICK F : Flat(F, n)
  BY <1>1, <1>4
<1>6. FlattenSeq(ss) = F[n]
  <2>1. CASE n = 0
    BY <1>5, <2>1 DEF FlattenSeq, Flat, n
  <2>2. CASE n # 0
    <3> DEFINE D(g) == [i \in 1 .. n |-> IF i = 1 THEN ss[i] ELSE g[i - 1] \o ss[i]]
               C == CHOOSE g : g = D(g)
               H == [i \in 1 .. n |-> F[i]]
    <3>1. FlattenSeq(ss) = C[n]
      BY <2>2 DEF FlattenSeq, n
    <3>2. H = D(H)
      <4>1. \A i \in 1 .. n : i = 1 => F[i] = ss[i]
        <5>1. ss[1] \in Seq(S) /\ F[1] = << >> \o ss[1]
          <6>1. 1 \in 1 .. n /\ 1 - 1 = 0
            BY <1>1, <2>2
          <6> QED BY <1>1, <1>5, <6>1 DEF Flat
        <5> QED BY <5>1, ConcatEmptySeq
      <4>2. \A i \in 1 .. n : i # 1 => F[i] = H[i - 1] \o ss[i]
        <5>1. \A i \in 1 .. n : i # 1 => i - 1 \in 1 .. n
          BY <1>1
        <5> QED BY <1>5, <5>1 DEF Flat
      <4> QED BY <4>1, <4>2
    <3> HIDE DEF H
    <3>3. C = D(C)
      <4>1. \E g : g = D(g)
        BY <3>2
      <4> HIDE DEF D
      <4> QED BY <4>1
    <3> HIDE DEF C
    <3>3a. \A i \in 1 .. n : C[i] = IF i = 1 THEN ss[i] ELSE C[i - 1] \o ss[i]
      <4> DEFINE d == D(C)
      <4>1. \A i \in 1 .. n : d[i] = IF i = 1 THEN ss[i] ELSE C[i - 1] \o ss[i]
        OBVIOUS
      <4> HIDE DEF d
      <4>2. C = d
        BY <3>3 DEF d
      <4> QED BY <4>1, <4>2
    <3> HIDE DEF D
    <3> DEFINE U == {k \in Nat : k \in 1 .. n => C[k] = F[k]}
    <3>4. 0 \in U
      OBVIOUS
    <3>5. ASSUME NEW k \in Nat, k \in U PROVE k + 1 \in U
      <4> SUFFICES ASSUME k + 1 \in 1 .. n PROVE C[k + 1] = F[k + 1]
        OBVIOUS
      <4>1. C[k + 1] = IF k + 1 = 1 THEN ss[k + 1] ELSE C[k + 1 - 1] \o ss[k + 1]
        <5> HIDE DEF U
        <5> QED BY <3>3a
      <4>2. CASE k = 0
        <5>1. ss[1] \in Seq(S) /\ F[1] = << >> \o ss[1]
          <6>1. 1 \in 1 .. n /\ 1 - 1 = 0
            BY <1>1, <2>2
          <6> QED BY <1>1, <1>5, <6>1 DEF Flat
        <5> QED BY <4>1, <4>2, <5>1, ConcatEmptySeq
      <4>3. CASE k # 0
        <5>1. k \in 1 .. n /\ k + 1 - 1 = k
          BY <1>1, <4>3
        <5>2. PICK j \in 1 .. n : j = k + 1 /\ j - 1 = k /\ j # 1
          BY <4>3, <5>1
        <5>3. F[j] = F[k] \o ss[j]
          BY <1>5, <5>2 DEF Flat
        <5>4. C[k] = F[k]
          BY <3>5, <5>1
        <5> HIDE DEF U
        <5>5. C[j] = C[j - 1] \o ss[j]
          BY <3>3a, <5>2
        <5> QED BY <5>2, <5>3, <5>4, <5>5
      <4> QED BY <4>2, <4>3
    <3>6. n \in U
      <4> HIDE DEF U
      <4> QED BY <1>1, <3>4, <3>5, NatInduct
    <3> QED BY <1>1, <2>2, <3>1, <3>6
  <2> QED BY <2>1, <2>2
<1> QED BY <1>5, <1>6 DEF Flat, n

-----------------------------------------------------------------------------
(* edit_write_stream                                                        *)
Bytes == {LF, CR} \cup Other

(* What is due for a byte of the text, as Replaced has it.                  *)
Piece(k) ==
  IF lb_text[k] = LF /\ k > 1 /\ lb_text[k - 1] = CR THEN << >>
  ELSE IF IsBreak(lb_text[k]) THEN LineBreak
  ELSE <<lb_text[k]>>

(* F[k] is what is due for the first k bytes.                               *)
DueUpTo(F) ==
  /\ F \in [0 .. Len(lb_text) -> Seq(Bytes)]
  /\ F[0] = << >>
  /\ \A k \in 1 .. Len(lb_text) : F[k] = F[k - 1] \o Piece(k)

Sure == lb \in {"LB_ASIS", "LB_WIN"} \/ Plain
Going == lb_count \in {-1, Len(lb_text)}
Upto == IF lb_at > Len(lb_text) THEN Len(lb_text) ELSE lb_at

LbTypes ==
  /\ lb \in {"LB_ASIS", "LB_UNIX", "LB_WIN", "LB_MAC"}
  /\ lb_text \in Seq(Bytes)
  /\ lb_at \in Nat /\ lb_count \in Int

(* A pair "\r\n" is never split, and what is due was written.               *)
LbInv ==
  /\ LbTypes
  /\ (Sure /\ lb_count = Len(lb_text)) => lb_at >= Len(lb_text)
  /\ (lb = "LB_ASIS" /\ Going) => lb_at <= Len(lb_text) /\ lb_file = SubSeq(lb_text, 1, lb_at)
  /\ (lb # "LB_ASIS" /\ Sure /\ Going) =>
       /\ lb_at > 0 /\ lb_at < Len(lb_text) => ~(lb_text[lb_at] = CR /\ lb_text[lb_at + 1] = LF)
       /\ \A F : DueUpTo(F) => lb_file = F[Upto]

(* The pieces put together are the converted text.                          *)
LEMMA DueIsReplaced ==
  ASSUME LbTypes
  PROVE  \E F : DueUpTo(F) /\ F[Len(lb_text)] = Replaced
<1> DEFINE R == [k \in 1 .. Len(lb_text) |-> Piece(k)]
<1>1. Len(lb_text) \in Nat /\ \A k \in 1 .. Len(lb_text) : lb_text[k] \in Bytes
  BY DEF LbTypes
<1>2. \A k \in 1 .. Len(lb_text) : Piece(k) \in Seq(Bytes)
  <2>1. LF \in Bytes /\ CR \in Bytes
    BY DEF Bytes
  <2>2. LineBreak \in Seq(Bytes)
    BY <2>1 DEF LineBreak
  <2>3. \A k \in 1 .. Len(lb_text) : <<lb_text[k]>> \in Seq(Bytes)
    BY <1>1
  <2>4. << >> \in Seq(Bytes)
    OBVIOUS
  <2> HIDE DEF Bytes
  <2> QED BY <2>2, <2>3, <2>4 DEF Piece
<1> HIDE DEF Bytes
<1>3. R \in Seq(Seq(Bytes)) /\ Len(R) = Len(lb_text) /\ \A k \in 1 .. Len(lb_text) : R[k] = Piece(k)
  BY <1>1, <1>2
<1>4. Replaced = FlattenSeq(R)
  BY DEF Replaced, Piece
<1> HIDE DEF R
<1>5. PICK F \in [0 .. Len(R) -> Seq(Bytes)] :
         /\ F[0] = << >>
         /\ \A k \in 1 .. Len(R) : F[k] = F[k - 1] \o R[k]
         /\ F[Len(R)] = FlattenSeq(R)
  BY <1>3, FlattenDoes
<1>6. DueUpTo(F)
  BY <1>3, <1>5 DEF DueUpTo
<1> QED BY <1>3, <1>4, <1>5, <1>6

(* The text and the line breaks asked for stay what they are.               *)
LEMMA TextStays ==
  ASSUME UNCHANGED <<lb, lb_text>>
  PROVE  /\ Sure' = Sure
         /\ \A F : DueUpTo(F)' <=> DueUpTo(F)
<1>1. Sure' = Sure
  BY DEF Sure, Plain, Last
<1>2. \A F : DueUpTo(F)' <=> DueUpTo(F)
  BY DEF DueUpTo, Piece, LineBreak, IsBreak
<1> QED BY <1>1, <1>2

(* Not mid pair, every break is due a line break.                           *)
LEMMA BreakIsDue ==
  ASSUME LbTypes, lb_at < Len(lb_text),
         lb_at > 0 => ~(lb_text[lb_at] = CR /\ lb_text[lb_at + 1] = LF)
  PROVE  /\ GetByte(lb_at) = lb_text[lb_at + 1] /\ GetByte(lb_at) \in Bytes
         /\ Piece(lb_at + 1) = IF IsBreak(GetByte(lb_at)) THEN LineBreak ELSE <<GetByte(lb_at)>>
<1>1. lb_at + 1 \in 1 .. Len(lb_text) /\ lb_at + 1 - 1 = lb_at /\ (lb_at + 1 > 1 <=> lb_at > 0)
  BY DEF LbTypes
<1>2. GetByte(lb_at) = lb_text[lb_at + 1] /\ GetByte(lb_at) \in Bytes
  BY <1>1 DEF GetByte, LbTypes
<1>3. PICK k \in 1 .. Len(lb_text) : k = lb_at + 1
  BY <1>1
<1>4. k - 1 = lb_at /\ (k > 1 => lb_at > 0)
  BY <1>3 DEF LbTypes
<1>5. Piece(k) = IF IsBreak(lb_text[k]) THEN LineBreak ELSE <<lb_text[k]>>
  BY <1>3, <1>4 DEF Piece
<1> QED BY <1>2, <1>3, <1>5

(* What is due for a byte more.                                             *)
LEMMA DueNext ==
  ASSUME LbTypes, NEW F, DueUpTo(F), NEW k \in 1 .. Len(lb_text)
  PROVE  /\ F[k - 1] \in Seq(Bytes) /\ Piece(k) \in Seq(Bytes)
         /\ F[k] = F[k - 1] \o Piece(k)
<1>1. k \in 1 .. Len(lb_text) /\ k - 1 \in 0 .. Len(lb_text) /\ Len(lb_text) \in Nat
  BY DEF LbTypes
<1>2. LineBreak \in Seq(Bytes) /\ <<lb_text[k]>> \in Seq(Bytes)
  <2>1. LF \in Bytes /\ CR \in Bytes
    BY DEF Bytes
  <2>2. lb_text[k] \in Bytes
    BY DEF LbTypes
  <2> QED BY <2>1, <2>2 DEF LineBreak
<1>3. << >> \in Seq(Bytes)
  OBVIOUS
<1>4. Piece(k) \in Seq(Bytes)
  BY <1>2, <1>3 DEF Piece
<1> QED BY <1>1, <1>4 DEF DueUpTo

(* A turn that puts a byte as it is.                                        *)
LEMMA ByteIsDue ==
  ASSUME LbInv, put_byte
  PROVE  LbInv'
<1> DEFINE n == Len(lb_text)
           b == <<GetByte(lb_at)>>
<1>1. LbTypes /\ lb_count = -1 /\ lb_at < n /\ lb' = lb /\ lb_text' = lb_text /\ n \in Nat /\ lb_at \in Nat
  BY DEF LbInv, LbTypes, put_byte, More
<1>2. /\ Sure' = Sure
      /\ \A F : DueUpTo(F)' <=> DueUpTo(F)
  BY <1>1, TextStays
<1>3. \/ lb_file' = lb_file \o b /\ lb_at' = lb_at + 1 /\ lb_count' = lb_count
      \/ lb_count' = lb_at /\ lb_at' = lb_at
  <2>1. Len(b) = 1 /\ 0 .. Len(b) - 1 = {0}
    OBVIOUS
  <2>2. Puts(b, lb_at + 1)
    BY DEF put_byte
  <2> HIDE DEF b
  <2> QED BY <2>1, <2>2 DEF Puts
<1> HIDE DEF b, n
<1>4. CASE lb_count' = lb_at /\ lb_at' = lb_at
  BY <1>1, <1>4 DEF LbInv, LbTypes, Going, n
<1>5. CASE lb_file' = lb_file \o b /\ lb_at' = lb_at + 1 /\ lb_count' = lb_count
  <2>1. LbTypes' /\ lb_count' # n /\ Going /\ Going'
    BY <1>1, <1>5 DEF LbTypes, Going, n
  <2>2. lb = "LB_ASIS" => lb_at' <= n /\ lb_file' = SubSeq(lb_text, 1, lb_at')
    <3> SUFFICES ASSUME lb = "LB_ASIS" PROVE lb_at' <= n /\ lb_file' = SubSeq(lb_text, 1, lb_at')
      OBVIOUS
    <3>1. lb_file = SubSeq(lb_text, 1, lb_at)
      BY <2>1 DEF LbInv
    <3>2. b = <<lb_text[lb_at + 1]>>
      BY <1>1 DEF b, GetByte, n
    <3>3. SubSeq(lb_text, 1, lb_at) \o <<lb_text[lb_at + 1]>> = SubSeq(lb_text, 1, lb_at + 1)
      BY <1>1 DEF LbTypes, n
    <3> QED BY <1>1, <1>5, <3>1, <3>2, <3>3
  <2>3. ASSUME lb # "LB_ASIS", Sure
        PROVE  /\ lb_at' > 0 /\ lb_at' < n => ~(lb_text[lb_at'] = CR /\ lb_text[lb_at' + 1] = LF)
               /\ \A F : DueUpTo(F) => lb_file' = F[Upto']
    <3>1. /\ lb_at > 0 => ~(lb_text[lb_at] = CR /\ lb_text[lb_at + 1] = LF)
          /\ \A F : DueUpTo(F) => lb_file = F[lb_at]
      BY <1>1, <2>1, <2>3 DEF LbInv, Upto, n
    <3>2. ~IsBreak(GetByte(lb_at))
      BY <2>3 DEF put_byte
    <3>3. GetByte(lb_at) = lb_text[lb_at + 1] /\ Piece(lb_at + 1) = b
      BY <1>1, <3>1, <3>2, BreakIsDue DEF n, b
    <3>4. lb_text[lb_at'] # CR
      BY <1>5, <3>2, <3>3 DEF IsBreak
    <3>5. ASSUME NEW F, DueUpTo(F) PROVE lb_file' = F[Upto']
      <4>1. PICK k \in 1 .. n : k = lb_at + 1 /\ k - 1 = lb_at
        BY <1>1
      <4>2. F[k] = F[k - 1] \o Piece(k)
        BY <1>1, <3>5, DueNext DEF n
      <4>3. Upto' = k
        BY <1>1, <1>5, <4>1 DEF Upto, n
      <4> QED BY <1>5, <3>1, <3>3, <3>5, <4>1, <4>2, <4>3
    <3> QED BY <3>4, <3>5
  <2> QED BY <1>1, <1>2, <2>1, <2>2, <2>3 DEF LbInv, n
<1> QED BY <1>3, <1>4, <1>5

(* A turn at a line break: what it puts, and what is due for the bytes it   *)
(* takes.                                                                   *)
LEMMA BreakPuts ==
  ASSUME LbInv, put_break
  PROVE  \E put, next :
           /\ Puts(put, next) /\ put \in Seq(Bytes) /\ Len(put) \in Nat
           /\ next \in {lb_at + 1, lb_at + 2}
           /\ lb_at < Len(lb_text) /\ lb_count = -1 /\ lb # "LB_ASIS" /\ lb' = lb /\ lb_text' = lb_text
           /\ Sure =>
                /\ next < Len(lb_text) => ~(lb_text[next] = CR /\ lb_text[next + 1] = LF)
                /\ lb # "LB_WIN" /\ Len(put) > 1 => lb_at + 1 < Len(lb_text)
                /\ \A F : DueUpTo(F) =>
                     F[IF next > Len(lb_text) THEN Len(lb_text) ELSE next] = F[lb_at] \o put
<1> DEFINE n == Len(lb_text)
           c == GetByte(lb_at)
           c1 == GetByte(lb_at + 1)
<1>1. /\ LbTypes /\ lb_count = -1 /\ lb_at < n /\ lb' = lb /\ lb_text' = lb_text /\ n \in Nat /\ lb_at \in Nat
      /\ lb # "LB_ASIS" /\ IsBreak(c)
  BY DEF LbInv, LbTypes, put_break, More
<1>2. c = lb_text[lb_at + 1] /\ c \in {LF, CR} /\ c1 = IF lb_at + 1 < n THEN lb_text[lb_at + 2] ELSE LF
  <2>1. (lb_at + 1) + 1 = lb_at + 2
    BY <1>1
  <2> QED BY <1>1, <2>1 DEF GetByte, IsBreak
<1>3. LF \in Bytes /\ CR \in Bytes /\ c \in Bytes /\ c1 \in Bytes
  BY <1>1, <1>2 DEF Bytes, LbTypes
<1>4. LineBreak \in Seq(Bytes) /\ Second(c, c1) \in Seq(Bytes)
  <2>1. LineBreak \in Seq(Bytes)
    BY <1>3 DEF LineBreak
  <2>2. <<c1>> \in Seq(Bytes) /\ << >> \in Seq(Bytes)
    BY <1>3
  <2> QED BY <2>1, <2>2 DEF Second
<1>5. Sure => (lb_at > 0 => ~(lb_text[lb_at] = CR /\ lb_text[lb_at + 1] = LF))
  BY <1>1 DEF LbInv, Going
<1>6. Sure => Piece(lb_at + 1) = LineBreak
  BY <1>1, <1>5, BreakIsDue DEF n
<1>7. PICK k \in 1 .. n : k = lb_at + 1 /\ k - 1 = lb_at /\ k + 1 = lb_at + 2
  BY <1>1
<1>8. ASSUME NEW F, DueUpTo(F), Sure
      PROVE  F[lb_at] \in Seq(Bytes) /\ F[k] = F[lb_at] \o LineBreak
  BY <1>1, <1>6, <1>7, <1>8, DueNext DEF n
<1>9. put_break => IF lb = "LB_WIN"
                   THEN Puts(LineBreak, IF c = CR /\ c1 = LF THEN lb_at + 2 ELSE lb_at + 1)
                   ELSE Puts(LineBreak \o Second(c, c1), lb_at + 2)
  BY DEF put_break
<1> HIDE DEF n, c, c1
<1>10. CASE lb = "LB_WIN" /\ ~(c = CR /\ c1 = LF)
  <2>1. Puts(LineBreak, lb_at + 1)
    BY <1>9, <1>10
  <2>2. lb_at + 1 < n => ~(lb_text[lb_at + 1] = CR /\ lb_text[lb_at + 2] = LF)
    BY <1>2, <1>10
  <2>3. ASSUME NEW F, DueUpTo(F), Sure
        PROVE  F[IF lb_at + 1 > n THEN n ELSE lb_at + 1] = F[lb_at] \o LineBreak
    <3>1. (IF lb_at + 1 > n THEN n ELSE lb_at + 1) = k
      BY <1>1, <1>7
    <3> QED BY <1>8, <2>3, <3>1
  <2>4. lb_at + 1 + 1 = lb_at + 2
    BY <1>1
  <2> QED BY <1>1, <1>4, <1>10, <2>1, <2>2, <2>3, <2>4 DEF n
<1>11. CASE lb = "LB_WIN" /\ c = CR /\ c1 = LF
  <2>1. Puts(LineBreak, lb_at + 2)
    BY <1>9, <1>11
  <2>2. lb_at + 2 <= n => lb_text[lb_at + 2] = LF
    BY <1>1, <1>2, <1>11
  <2>3. ASSUME NEW F, DueUpTo(F), Sure
        PROVE  F[IF lb_at + 2 > n THEN n ELSE lb_at + 2] = F[lb_at] \o LineBreak
    <3>1. CASE lb_at + 1 = n
      BY <1>1, <1>7, <1>8, <2>3, <3>1
    <3>2. CASE lb_at + 1 # n
      <4>1. PICK j \in 1 .. n : j = lb_at + 2 /\ j - 1 = k
        BY <1>1, <1>7, <3>2
      <4>2. F[j] = F[k] \o Piece(j) /\ F[k] \in Seq(Bytes)
        BY <1>1, <2>3, <4>1, DueNext DEF n
      <4>3. Piece(j) = << >>
        <5>1. lb_text[j] = LF /\ j > 1
          BY <1>1, <2>2, <4>1
        <5>2. lb_text[j - 1] = CR
          BY <1>2, <1>7, <1>11, <4>1
        <5> QED BY <5>1, <5>2 DEF Piece
      <4>4. F[j] = F[k]
        BY <4>2, <4>3, ConcatEmptySeq
      <4> QED BY SMTT(60), <1>1, <1>8, <2>3, <4>1, <4>4
    <3> QED BY <3>1, <3>2
  <2> QED BY <1>1, <1>4, <1>11, <2>1, <2>2, <2>3, BreaksAssumption DEF n
<1>12. CASE lb # "LB_WIN"
  <2> DEFINE t == Second(c, c1)
             put == LineBreak \o t
  <2>1. Puts(put, lb_at + 2) /\ lb \in {"LB_UNIX", "LB_MAC"} /\ (Sure => Plain)
    BY <1>1, <1>9, <1>12 DEF LbTypes, Sure
  <2>2. Len(LineBreak) = 1 /\ LineBreak = IF lb = "LB_UNIX" THEN <<LF>> ELSE <<CR>>
    BY <2>1 DEF LineBreak
  <2> HIDE DEF t
  <2>3. put \in Seq(Bytes) /\ Len(put) \in Nat
    BY <1>4, ConcatProperties, LenProperties DEF t
  <2>4. ASSUME Sure, lb_at + 1 = n
        PROVE  c = CR /\ c1 = LF /\ t = << >> /\ put = LineBreak
    <3>1. c1 = LF
      BY <1>1, <1>2, <2>4
    <3>2. c # LF
      <4> SUFFICES ASSUME c = LF PROVE FALSE
        OBVIOUS
      <4>1. Last(lb_text) = LF /\ lb_text # << >>
        BY <1>1, <1>2, <2>4 DEF Last, n, LbTypes
      <4>2. n > 1 /\ lb_text[n - 1] = CR
        BY <2>1, <2>4, <4>1 DEF Plain, n
      <4> QED BY <1>1, <1>2, <1>5, <2>4, <4>2
    <3>3. c = CR /\ t = << >>
      BY <1>2, <3>1, <3>2 DEF t, Second
    <3> QED BY <1>4, <3>1, <3>3, ConcatEmptySeq DEF t
  <2>5. ASSUME Sure, lb_at + 1 # n
        PROVE  /\ Piece(lb_at + 2) = t
               /\ lb_at + 2 < n => ~(lb_text[lb_at + 2] = CR /\ lb_text[lb_at + 3] = LF)
    <3>1. PICK j \in 1 .. n : j = lb_at + 2 /\ j - 1 = k /\ j > 1
      BY <1>1, <1>7, <2>5
    <3>2. c1 = lb_text[j] /\ c = lb_text[k] /\ j = k + 1
      BY <1>1, <1>2, <1>7, <2>5, <3>1
    <3>3. ~(c = LF /\ c1 = CR)
      <4>1. k \in 1 .. n - 1
        BY <1>1, <3>1, <3>2
      <4> QED BY <2>1, <2>5, <3>2, <4>1 DEF Plain, n
    <3>4. Piece(j) = IF c1 = LF /\ c = CR THEN << >> ELSE IF c1 \in {LF, CR} THEN LineBreak ELSE <<c1>>
      BY <3>1, <3>2 DEF Piece, IsBreak
    <3>5. Piece(j) = t
      BY <1>2, <2>1, <2>2, <3>3, <3>4, BreaksAssumption DEF t, Second
    <3>6. ASSUME lb_at + 2 < n, lb_text[lb_at + 2] = CR, lb_text[lb_at + 3] = LF PROVE FALSE
      <4>1. k \in 1 .. n - 2 /\ lb_at + 3 = k + 2
        BY <1>1, <1>7, <3>6
      <4> QED BY <1>2, <2>1, <2>5, <3>1, <3>2, <3>3, <3>6, <4>1 DEF Plain, n
    <3> QED BY <3>1, <3>5, <3>6
  <2>6. ASSUME NEW F, DueUpTo(F), Sure
        PROVE  F[IF lb_at + 2 > n THEN n ELSE lb_at + 2] = F[lb_at] \o put
    <3>1. CASE lb_at + 1 = n
      <4>1. (IF lb_at + 2 > n THEN n ELSE lb_at + 2) = k
        BY <1>1, <1>7, <3>1
      <4> HIDE DEF put
      <4> QED BY <1>8, <2>4, <2>6, <3>1, <4>1
    <3>2. CASE lb_at + 1 # n
      <4>1. PICK j \in 1 .. n : j = lb_at + 2 /\ j - 1 = k
        BY <1>1, <1>7, <3>2
      <4>2. F[j] = F[k] \o t
        BY <1>1, <2>5, <2>6, <3>2, <4>1, DueNext DEF n
      <4>3. F[lb_at] \in Seq(Bytes) /\ F[k] = F[lb_at] \o LineBreak /\ t \in Seq(Bytes)
        BY <1>4, <1>8, <2>6 DEF t
      <4>4. (F[lb_at] \o LineBreak) \o t = F[lb_at] \o (LineBreak \o t)
        <5>1. \A p, q, r \in Seq(Bytes) : (p \o q) \o r = p \o (q \o r)
          BY SMTT(60), ConcatAssociative
        <5> QED BY <1>4, <4>3, <5>1
      <4>5. (IF lb_at + 2 > n THEN n ELSE lb_at + 2) = j
        BY <1>1, <4>1
      <4> QED BY <4>2, <4>3, <4>4, <4>5
    <3> QED BY <3>1, <3>2
  <2>7. Sure => (Len(put) > 1 => lb_at + 1 < n)
    <3> SUFFICES ASSUME Sure, Len(put) > 1, lb_at + 1 = n PROVE FALSE
      BY <1>1
    <3>1. put = LineBreak
      BY <2>4
    <3> HIDE DEF put
    <3> QED BY <2>2, <3>1
  <2>8. Sure => (lb_at + 2 < n => ~(lb_text[lb_at + 2] = CR /\ lb_text[lb_at + 2 + 1] = LF))
    <3>1. lb_at + 2 + 1 = lb_at + 3 /\ (lb_at + 2 < n => lb_at + 1 # n)
      BY <1>1
    <3> QED BY <2>5, <3>1
  <2> HIDE DEF put
  <2> QED BY <1>1, <2>1, <2>3, <2>6, <2>7, <2>8 DEF n
<1> QED BY <1>10, <1>11, <1>12

(* A turn at a line break keeps the invariant.                              *)
LEMMA BreakKeeps ==
  ASSUME LbInv, put_break
  PROVE  LbInv'
<1> DEFINE n == Len(lb_text)
           Ends(next) == IF next > Len(lb_text) THEN Len(lb_text) ELSE next
<1>1. PICK put, next :
        /\ Puts(put, next) /\ put \in Seq(Bytes) /\ Len(put) \in Nat
        /\ next \in {lb_at + 1, lb_at + 2}
        /\ lb_at < n /\ lb_count = -1 /\ lb # "LB_ASIS" /\ lb' = lb /\ lb_text' = lb_text
        /\ Sure =>
             /\ next < n => ~(lb_text[next] = CR /\ lb_text[next + 1] = LF)
             /\ lb # "LB_WIN" /\ Len(put) > 1 => lb_at + 1 < n
             /\ \A F : DueUpTo(F) => F[Ends(next)] = F[lb_at] \o put
  BY BreakPuts
<1>2. /\ Sure' = Sure
      /\ \A F : DueUpTo(F)' <=> DueUpTo(F)
  BY <1>1, TextStays
<1>3. LbTypes /\ n \in Nat /\ lb_at \in Nat /\ next \in Nat
  BY <1>1 DEF LbInv, LbTypes
<1>4. Sure => \A F : DueUpTo(F) => lb_file = F[lb_at]
  BY <1>1, <1>3 DEF LbInv, Going, Upto
<1> HIDE DEF n
<1>5. CASE lb_file' = lb_file \o put /\ lb_at' = next /\ UNCHANGED lb_count
  <2>1. LbTypes' /\ lb_count' # n
    BY <1>1, <1>3, <1>5 DEF LbTypes
  <2>2. Upto' = Ends(next)
    BY <1>1, <1>5 DEF Upto
  <2>3. ASSUME Sure, NEW F, DueUpTo(F) PROVE lb_file' = F[Upto']
    <3>1. F[Ends(next)] = F[lb_at] \o put
      BY <1>1, <2>3
    <3>2. lb_file = F[lb_at]
      BY <1>4, <2>3
    <3> HIDE DEF Ends
    <3> QED BY <1>5, <2>2, <3>1, <3>2
  <2> QED BY <1>1, <1>2, <1>5, <2>1, <2>3 DEF LbInv, n
<1>6. ASSUME NEW k \in 0 .. Len(put) - 1,
             lb_count' = IF k > 0 /\ lb # "LB_WIN" THEN lb_at + 1 ELSE lb_at, UNCHANGED lb_at
      PROVE  LbInv'
  <2>1. LbTypes' /\ lb_count' \in Nat /\ lb_count' <= lb_at + 1
    BY <1>1, <1>3, <1>6 DEF LbTypes
  <2>2. Sure => lb_count' < n
    BY <1>1, <1>3, <1>6
  <2> QED BY <1>1, <1>2, <1>3, <1>6, <2>1, <2>2 DEF LbInv, Going, n
<1> QED BY <1>1, <1>5, <1>6 DEF Puts

(* The initial state satisfies the invariant.                               *)
LEMMA LbStarts == LbInit => LbInv
<1> SUFFICES ASSUME LbInit PROVE LbInv
  OBVIOUS
<1>1. PICK n \in 0 .. MaxText : lb_text \in [1 .. n -> Bytes]
  BY DEF LbInit, Bytes
<1>2. n \in Nat /\ lb_text \in Seq(Bytes) /\ Len(lb_text) \in Nat
  BY <1>1, MaxTextAssumption
<1>3. LbTypes /\ lb_at = 0 /\ lb_file = << >> /\ lb_count = -1 /\ Upto = 0
  BY <1>2 DEF LbInit, LbTypes, Upto
<1>4. SubSeq(lb_text, 1, 0) = << >>
  BY <1>2
<1> QED BY <1>2, <1>3, <1>4 DEF LbInv, DueUpTo

(* Every step keeps the invariant.                                          *)
LEMMA LbStep == LbInv /\ [LbNext]_lb_vars => LbInv'
<1> SUFFICES ASSUME LbInv, [LbNext]_lb_vars PROVE LbInv'
  OBVIOUS
<1>1. CASE put_byte
  BY <1>1, ByteIsDue
<1>2. CASE put_break
  BY <1>2, BreakKeeps
<1>3. CASE edit_write_stream_returns
  <2>1. lb' = lb /\ lb_text' = lb_text /\ lb_at' = lb_at /\ lb_file' = lb_file /\ lb_count = -1
        /\ lb_at >= Len(lb_text) /\ lb_count' = Len(lb_text)
    BY <1>3 DEF edit_write_stream_returns
  <2>2. /\ Sure' = Sure
        /\ \A F : DueUpTo(F)' <=> DueUpTo(F)
    BY <2>1, TextStays
  <2>3. Going /\ Upto' = Upto /\ LbTypes'
    BY <2>1 DEF Going, Upto, LbInv, LbTypes
  <2> QED BY <2>1, <2>2, <2>3 DEF LbInv
<1>4. CASE UNCHANGED lb_vars
  <2>1. lb' = lb /\ lb_text' = lb_text /\ lb_at' = lb_at /\ lb_file' = lb_file /\ lb_count' = lb_count
    BY <1>4 DEF lb_vars
  <2>2. /\ Sure' = Sure
        /\ \A F : DueUpTo(F)' <=> DueUpTo(F)
    BY <2>1, TextStays
  <2>3. Going' = Going /\ Upto' = Upto /\ LbTypes'
    BY <2>1 DEF Going, Upto, LbInv, LbTypes
  <2> QED BY <2>1, <2>2, <2>3 DEF LbInv
<1> QED BY <1>1, <1>2, <1>3, <1>4 DEF LbNext

(* edit_write_stream: when the count it returns tells edit_save_file that   *)
(* all was written, the file is the text with its line breaks converted,    *)
(* of any bytes and any length.                                             *)
THEOREM BreaksAreConverted == LbSpec => []BreaksConverted
<1>1. LbInv => BreaksConverted
  <2> SUFFICES ASSUME LbInv, lb_count = Len(lb_text), Sure PROVE lb_file = Converted
    BY DEF BreaksConverted, Sure
  <2>1. LbTypes /\ Going /\ lb_at >= Len(lb_text) /\ Len(lb_text) \in Nat /\ lb_at \in Nat
    BY DEF LbInv, Going, LbTypes
  <2>2. Upto = Len(lb_text)
    BY <2>1 DEF Upto
  <2>3. CASE lb = "LB_ASIS"
    <3>1. lb_at = Len(lb_text) /\ lb_file = SubSeq(lb_text, 1, lb_at)
      BY <2>1, <2>3 DEF LbInv
    <3>2. SubSeq(lb_text, 1, Len(lb_text)) = lb_text
      BY <2>1 DEF LbTypes
    <3> QED BY <2>3, <3>1, <3>2 DEF Converted
  <2>4. CASE lb # "LB_ASIS"
    <3>1. PICK F : DueUpTo(F) /\ F[Len(lb_text)] = Replaced
      BY <2>1, DueIsReplaced
    <3>2. lb_file = F[Upto]
      BY <2>1, <2>4, <3>1 DEF LbInv
    <3> QED BY <2>2, <2>4, <3>1, <3>2 DEF Converted
  <2> QED BY <2>3, <2>4
<1> QED BY <1>1, LbStarts, LbStep, PTL DEF LbSpec

-----------------------------------------------------------------------------
(***************************************************************************)
(* What the editor saves (edit_buffer_write_file): the chunks it writes    *)
(* are consecutive pieces of the text.                                     *)
(***************************************************************************)

(* Pieces of a text, each from where the one before it ends, make the       *)
(* beginning of the text.                                                   *)
LEMMA PiecesMakeText ==
  ASSUME NEW S, NEW t \in Seq(S), NEW ss \in Seq(Seq(S)), NEW E \in [0 .. Len(ss) -> Nat],
         E[0] = 0,
         \A k \in 1 .. Len(ss) : /\ E[k] = E[k - 1] + Len(ss[k]) /\ E[k] <= Len(t)
                                 /\ \A j \in 1 .. Len(ss[k]) : ss[k][j] = t[E[k - 1] + j]
  PROVE  FlattenSeq(ss) = SubSeq(t, 1, E[Len(ss)]) /\ E[Len(ss)] <= Len(t)
<1>1. PICK F \in [0 .. Len(ss) -> Seq(S)] :
        /\ F[0] = << >>
        /\ \A k \in 1 .. Len(ss) : F[k] = F[k - 1] \o ss[k]
        /\ F[Len(ss)] = FlattenSeq(ss)
  BY FlattenDoes
<1> DEFINE N == Len(ss)
           U == {k \in Nat : k <= N => F[k] = SubSeq(t, 1, E[k]) /\ E[k] <= Len(t)}
<1>2. N \in Nat /\ Len(t) \in Nat
  OBVIOUS
<1>3. 0 \in U
  BY <1>1, <1>2
<1>4. ASSUME NEW k \in Nat, k \in U PROVE k + 1 \in U
  <2> SUFFICES ASSUME k + 1 <= N PROVE F[k + 1] = SubSeq(t, 1, E[k + 1]) /\ E[k + 1] <= Len(t)
    OBVIOUS
  <2>1. PICK m \in 1 .. N : m = k + 1 /\ m - 1 = k /\ k \in 0 .. N /\ m \in 0 .. N
    BY <1>2
  <2> DEFINE piece == ss[m]
  <2>3. piece \in Seq(S) /\ F[m] = F[m - 1] \o piece /\ E[m] = E[m - 1] + Len(piece) /\ E[m] <= Len(t)
        /\ \A j \in 1 .. Len(piece) : piece[j] = t[E[m - 1] + j]
    <3>1. \A i \in 1 .. N : /\ F[i] = F[i - 1] \o ss[i] /\ E[i] = E[i - 1] + Len(ss[i]) /\ E[i] <= Len(t)
                            /\ \A j \in 1 .. Len(ss[i]) : ss[i][j] = t[E[i - 1] + j]
      BY <1>1
    <3>2. \A i \in 1 .. N : ss[i] \in Seq(S)
      OBVIOUS
    <3> HIDE DEF N
    <3> QED BY <3>1, <3>2
  <2>2. E[k] \in Nat /\ E[m] \in Nat
    BY <2>1
  <2>2a. F[k] = SubSeq(t, 1, E[k]) /\ E[k] <= Len(t)
    <3>1. k <= N
      BY <2>1
    <3> HIDE DEF N
    <3> QED BY <1>4, <3>1
  <2> HIDE DEF U, N
  <2> HIDE DEF piece
  <2>4. F[k] \in Seq(S) /\ Len(F[k]) = E[k] /\ \A i \in 1 .. E[k] : F[k][i] = t[i]
    BY <1>2, <2>2, <2>2a
  <2>5. F[m] \in Seq(S) /\ Len(F[m]) = E[m] /\ \A i \in 1 .. E[m] : F[m][i] = t[i]
    <3>1. F[m] \in Seq(S) /\ Len(F[m]) = E[m]
      BY <2>1, <2>2, <2>3, <2>4
    <3>2. ASSUME NEW i \in 1 .. E[m] PROVE F[m][i] = t[i]
      <4>1. CASE i <= E[k]
        BY <2>1, <2>2, <2>3, <2>4, <4>1
      <4>2. CASE ~(i <= E[k])
        <5> DEFINE a == E[k]
                   b == E[m]
                   f == F[k]
                   g == F[m]
                   n == Len(piece)
        <5>0. ~(i <= a) /\ i \in 1 .. b
          BY <4>2
        <5>0a. a \in Nat /\ b = a + n /\ n \in Nat
          BY <2>1, <2>2, <2>3
        <5>1. /\ a \in Nat /\ b = a + Len(piece) /\ Len(piece) \in Nat
              /\ \A h \in 1 .. Len(piece) : piece[h] = t[a + h]
          BY <2>1, <2>2, <2>3
        <5>2. f \in Seq(S) /\ Len(f) = a /\ piece \in Seq(S) /\ g = f \o piece
          BY <2>1, <2>3, <2>4
        <5> HIDE DEF a, b, f, g, n
        <5>2a. i \in Nat /\ i - a \in Nat /\ i - a >= 1 /\ i - a <= n /\ a + (i - a) = i
          BY <5>0, <5>0a
        <5>3. PICK h \in 1 .. n : h = i - a /\ a + h = i
          BY <5>0a, <5>2a
        <5>4. i \in 1 .. Len(f) + Len(piece) /\ ~(i <= Len(f)) /\ i - Len(f) = h
          BY <5>0, <5>0a, <5>2, <5>3 DEF n
        <5>5. g[i] = piece[h]
          BY SMTT(60), <5>2, <5>4, ConcatProperties
        <5> QED BY <5>1, <5>3, <5>5 DEF g, n
      <4> QED BY <4>1, <4>2
    <3> QED BY <3>1, <3>2
  <2>6. SubSeq(t, 1, E[m]) \in Seq(S) /\ Len(SubSeq(t, 1, E[m])) = E[m]
        /\ \A i \in 1 .. E[m] : SubSeq(t, 1, E[m])[i] = t[i]
    BY SMTT(60), <1>2, <2>2, <2>3
  <2>7. F[m] = SubSeq(t, 1, E[m])
    <3> DEFINE u == F[m]
               v == SubSeq(t, 1, E[m])
    <3>1. u \in Seq(S) /\ v \in Seq(S) /\ Len(u) = Len(v) /\ \A i \in 1 .. Len(u) : u[i] = v[i]
      BY <2>5, <2>6
    <3> HIDE DEF u, v
    <3>2. u = v
      BY <3>1, SeqEqual
    <3> QED BY <3>2 DEF u, v
  <2> QED BY <2>1, <2>3, <2>7
<1>5. N \in U
  <2> HIDE DEF U
  <2> QED BY <1>2, <1>3, <1>4, NatInduct
<1> QED BY <1>1, <1>2, <1>5

(* A side of n bytes has its last byte in its last block.                   *)
LEMMA LastBlock ==
  ASSUME NEW n \in Nat, NEW blocks, Side(blocks, n)
  PROVE  /\ Len(blocks) \in Nat
         /\ n = 0 <=> Len(blocks) = 0
         /\ n # 0 => /\ Rem(n - 1) + 1 \in 1 .. EDIT_BUF_SIZE
                     /\ n = (Len(blocks) - 1) * EDIT_BUF_SIZE + Rem(n - 1) + 1
<1> DEFINE B == EDIT_BUF_SIZE
<1>0. B \in Nat /\ B > 0
  BY BlockSizeAssumption
<1>1. Len(blocks) = Quot(n) + (IF Rem(n) = 0 THEN 0 ELSE 1) /\ Len(blocks) \in Nat
  BY DEF Side, BlocksCover
<1>2. Quot(n) \in Nat /\ Rem(n) \in 0 .. B - 1 /\ n = B * Quot(n) + Rem(n)
  BY DivMod
<1>3. CASE n = 0
  <2>1. Quot(0) = 0 /\ Rem(0) = 0
    BY BlockSizeAssumption DEF Quot, Rem
  <2> QED BY <1>1, <1>3, <2>1
<1>4. CASE n # 0
  <2>1. n - 1 \in Nat /\ n - 1 + 1 = n
    BY <1>4
  <2>2. Quot(n - 1) \in Nat /\ Rem(n - 1) \in 0 .. B - 1 /\ n - 1 = B * Quot(n - 1) + Rem(n - 1)
    BY <2>1, DivMod
  <2>3. IF Rem(n - 1) = B - 1 THEN Quot(n) = Quot(n - 1) + 1 /\ Rem(n) = 0
        ELSE Quot(n) = Quot(n - 1) /\ Rem(n) = Rem(n - 1) + 1
    BY <2>1, DivModSucc
  <2>4. Len(blocks) = Quot(n - 1) + 1
    <3> HIDE DEF B
    <3> QED BY <1>0, <1>1, <2>2, <2>3
  <2>5. (Len(blocks) - 1) * B = B * Quot(n - 1)
    BY <2>2, <2>4, <1>0
  <2>6. Rem(n - 1) + 1 \in 1 .. B /\ Len(blocks) # 0
    BY <1>0, <2>2, <2>4
  <2>7. n = (Len(blocks) - 1) * B + Rem(n - 1) + 1
    <3> DEFINE w == (Len(blocks) - 1) * B
               v == B * Quot(n - 1)
    <3>1. w = v /\ n - 1 = v + Rem(n - 1) /\ v \in Nat
      BY <1>0, <2>2, <2>5
    <3> HIDE DEF w, v
    <3>2. n = w + Rem(n - 1) + 1
      BY <2>1, <2>2, <3>1
    <3> QED BY <3>2 DEF w
  <2> QED BY <1>1, <1>4, <2>6, <2>7
<1> QED BY <1>3, <1>4

(* The byte at offset r of block q.                                         *)
LEMMA QuotRem ==
  ASSUME NEW q \in Nat, NEW r \in 0 .. EDIT_BUF_SIZE - 1
  PROVE  q * EDIT_BUF_SIZE + r \in Nat /\ Quot(q * EDIT_BUF_SIZE + r) = q /\ Rem(q * EDIT_BUF_SIZE + r) = r
<1> QED BY BlockSizeAssumption DEF Quot, Rem

(* The bytes of the text, on either side of the cursor.                     *)
LEMMA BytesOfText ==
  ASSUME TypeOK
  PROVE  /\ TextSeq \in Seq(Byte) /\ Len(TextSeq) = size /\ size = curs1 + curs2 /\ size \in Nat
         /\ \A p \in 0 .. curs1 - 1 : TextSeq[p + 1] = B1Byte(b1, p)
         /\ \A p \in 0 .. curs2 - 1 : TextSeq[size - p] = B2Byte(b2, p)
<1>1. Side(b1, curs1) /\ Side(b2, curs2) /\ curs1 \in Nat /\ curs2 \in Nat /\ size = curs1 + curs2
  BY DEF TypeOK, Side
<1>2. TextOf = TextFrom(b1, b2, curs1, curs2)
  BY <1>1, TextOfIsTextFrom
<1>3. TextFrom(b1, b2, curs1, curs2) \in [0 .. curs1 + curs2 - 1 -> Byte]
  BY <1>1, TextFromType DEF Text!TextsOfSize
<1>4. \A i \in 1 .. size : TextOf[i - 1] \in Byte /\ TextSeq[i] = TextOf[i - 1]
  BY <1>1, <1>2, <1>3 DEF TextSeq
<1>5. TextSeq \in Seq(Byte) /\ Len(TextSeq) = size
  BY <1>1, <1>4 DEF TextSeq
<1>6. ASSUME NEW p \in 0 .. curs1 - 1 PROVE TextSeq[p + 1] = B1Byte(b1, p)
  <2>1. p + 1 \in 1 .. size /\ p + 1 - 1 = p /\ p \in 0 .. curs1 + curs2 - 1 /\ p < curs1
    BY <1>1
  <2> QED BY <1>2, <1>4, <2>1 DEF TextFrom
<1>7. ASSUME NEW p \in 0 .. curs2 - 1 PROVE TextSeq[size - p] = B2Byte(b2, p)
  <2>1. PICK i \in 1 .. size : i = size - p
    BY <1>1
  <2>2. i - 1 \in 0 .. curs1 + curs2 - 1 /\ ~(i - 1 < curs1) /\ curs1 + curs2 - (i - 1) - 1 = p
    BY <1>1, <2>1
  <2> QED BY <1>2, <1>4, <2>1, <2>2 DEF TextFrom
<1> QED BY <1>1, <1>5, <1>6, <1>7

(* The chunks written from b1.                                              *)
LEMMA FirstChunks ==
  ASSUME TypeOK
  PROVE  /\ B1Chunks \in Seq(Seq(Byte)) /\ Len(B1Chunks) = Len(b1)
         /\ \A k \in 1 .. Len(b1) :
              LET c == B1Chunks[k]
                  first == (k - 1) * EDIT_BUF_SIZE
              IN  /\ Len(c) \in 1 .. EDIT_BUF_SIZE
                  /\ k < Len(b1) => Len(c) = EDIT_BUF_SIZE
                  /\ first \in Nat /\ first + Len(c) <= curs1
                  /\ k = Len(b1) => first + Len(c) = curs1
                  /\ \A j \in 1 .. Len(c) : c[j] = TextSeq[first + j]
<1> DEFINE B == EDIT_BUF_SIZE
           n == Len(b1)
           last == Rem(curs1 - 1) + 1
           size1 == [k \in 1 .. n |-> IF k < n THEN B ELSE last]
<1>1. Side(b1, curs1) /\ curs1 \in Nat /\ b1 \in Seq(Block) /\ n \in Nat /\ B \in Nat /\ B > 0
  BY BlockSizeAssumption DEF TypeOK, Side
<1>2. CASE b1 = << >>
  BY <1>2 DEF B1Chunks
<1>3. CASE b1 # << >>
  <2>1. n > 0 /\ last \in 1 .. B /\ curs1 = (n - 1) * B + last
    <3>1. n # 0
      BY <1>1, <1>3, EmptySeq
    <3>2. /\ curs1 = 0 <=> n = 0
          /\ curs1 # 0 => last \in 1 .. B /\ curs1 = (n - 1) * B + last
      <4>1. /\ curs1 = 0 <=> Len(b1) = 0
            /\ curs1 # 0 => /\ Rem(curs1 - 1) + 1 \in 1 .. EDIT_BUF_SIZE
                            /\ curs1 = (Len(b1) - 1) * EDIT_BUF_SIZE + Rem(curs1 - 1) + 1
        BY <1>1, LastBlock
      <4>2. curs1 # 0 => (Len(b1) - 1) * EDIT_BUF_SIZE \in Int /\ last \in Int
        BY <1>1, <4>1
      <4> DEFINE w == (Len(b1) - 1) * EDIT_BUF_SIZE
                 r == Rem(curs1 - 1)
      <4>3. curs1 # 0 => curs1 = w + r + 1 /\ w \in Int /\ r \in Int
        <5>1. curs1 # 0 => r \in Int
          BY <1>1, <4>1, DivMod
        <5> QED BY <4>1, <4>2, <5>1
      <4> HIDE DEF w, r
      <4>4. curs1 # 0 => curs1 = w + (r + 1)
        BY <4>3
      <4> QED BY <4>1, <4>4 DEF w, r
    <3> HIDE DEF last, B
    <3> QED BY <1>1, <3>1, <3>2
  <2>2. B1Chunks = WholeChunks(Front(b1)) \o << BlockBytes(Last(b1), 0, last) >>
    BY <1>3 DEF B1Chunks
  <2> HIDE DEF last
  <2>3. ASSUME NEW k \in 1 .. n
        PROVE  b1[k] \in Block /\ BlockBytes(b1[k], 0, size1[k]) \in Seq(Byte)
               /\ Len(BlockBytes(b1[k], 0, size1[k])) = size1[k] /\ size1[k] \in 1 .. B
               /\ \A j \in 1 .. size1[k] : BlockBytes(b1[k], 0, size1[k])[j] = b1[k][j - 1]
    <3>1. b1[k] \in Block /\ size1[k] \in 1 .. B
      BY <1>1, <2>1
    <3> DEFINE m == size1[k]
    <3> HIDE DEF size1, n
    <3>2. \A j \in 1 .. m : j - 1 \in 0 .. B - 1 /\ 0 + j - 1 = j - 1 /\ b1[k][j - 1] \in Byte
      BY <1>1, <3>1 DEF Block
    <3> HIDE DEF m, B
    <3>3. BlockBytes(b1[k], 0, m) = [j \in 1 .. m |-> b1[k][0 + j - 1]]
      BY DEF BlockBytes
    <3>4. m \in Nat
      BY <3>1 DEF m
    <3>5. BlockBytes(b1[k], 0, m) \in Seq(Byte) /\ Len(BlockBytes(b1[k], 0, m)) = m
          /\ \A j \in 1 .. m : BlockBytes(b1[k], 0, m)[j] = b1[k][j - 1]
      BY <3>2, <3>3, <3>4
    <3> QED BY <3>1, <3>5 DEF m
  <2>4. /\ B1Chunks = [k \in 1 .. n |-> BlockBytes(b1[k], 0, size1[k])]
    <3>1. Front(b1) \in Seq(Block) /\ Len(Front(b1)) = n - 1 /\ \A k \in 1 .. n - 1 : Front(b1)[k] = b1[k]
      <4>1. Front(b1) = SubSeq(b1, 1, n - 1) /\ n - 1 \in Nat /\ n - 1 <= Len(b1)
        BY <1>1, <2>1 DEF Front
      <4> DEFINE h == n - 1
      <4> HIDE DEF n, B
      <4>2. h \in Nat /\ h <= Len(b1) /\ Front(b1) = SubSeq(b1, 1, h)
        BY <4>1
      <4> HIDE DEF h
      <4>3. SubSeq(b1, 1, h) \in Seq(Block) /\ Len(SubSeq(b1, 1, h)) = h /\ \A k \in 1 .. h : SubSeq(b1, 1, h)[k] = b1[k]
        BY <1>1, <4>2
      <4> QED BY <4>2, <4>3 DEF h
    <3>2. Last(b1) = b1[n]
      BY DEF Last
    <3> DEFINE w == WholeChunks(Front(b1))
               x == BlockBytes(b1[n], 0, last)
    <3>3. w = [k \in 1 .. n - 1 |-> BlockBytes(b1[k], 0, B)]
      BY <3>1 DEF WholeChunks
    <3>4. \A k \in 1 .. n - 1 : k \in 1 .. n /\ size1[k] = B /\ w[k] \in Seq(Byte)
      BY <1>1, <2>3, <3>3
    <3>5. x \in Seq(Byte) /\ size1[n] = last
      <4>1. n \in 1 .. n /\ size1[n] = last
        BY <1>1, <2>1
      <4> HIDE DEF size1
      <4> QED BY <2>3, <4>1
    <3>6. w \in Seq(Seq(Byte)) /\ Len(w) = n - 1 /\ n - 1 \in Nat
      <4> DEFINE h == n - 1
      <4>1. h \in Nat
        BY <1>1, <2>1
      <4>2. w \in [1 .. h -> Seq(Byte)]
        BY <3>3, <3>4
      <4> HIDE DEF h, w
      <4>3. w \in Seq(Seq(Byte)) /\ Len(w) = h
        BY <4>1, <4>2
      <4> QED BY <4>1, <4>3 DEF h
    <3>7. B1Chunks = w \o <<x>>
      BY <2>2, <3>2
    <3> HIDE DEF w, x
    <3>8. w \o <<x>> = [k \in 1 .. n |-> IF k < n THEN w[k] ELSE x]
      <4>0. n \in Nat /\ n > 0
        BY <1>1, <2>1
      <4> HIDE DEF n, size1
      <4>1. w \o <<x>> \in Seq(Seq(Byte)) /\ Len(w \o <<x>>) = n
        BY <3>5, <3>6, <4>0
      <4>2. \A k \in 1 .. n : (w \o <<x>>)[k] = IF k < n THEN w[k] ELSE x
        BY <3>5, <3>6, <4>0
      <4> DEFINE y == w \o <<x>>
      <4> HIDE DEF y
      <4>3. y = [k \in 1 .. n |-> IF k < n THEN w[k] ELSE x]
        <5>1. y \in [1 .. n -> Seq(Byte)]
          <6>1. y \in Seq(Seq(Byte)) /\ Len(y) = n
            BY <4>1 DEF y
          <6> HIDE DEF n
          <6> QED BY <6>1, LenProperties
        <5> QED BY <5>1, <4>2 DEF y
      <4> QED BY <4>3 DEF y
    <3>9. \A k \in 1 .. n : (IF k < n THEN w[k] ELSE x) = BlockBytes(b1[k], 0, size1[k])
      <4>1. ASSUME NEW k \in 1 .. n, k < n PROVE w[k] = BlockBytes(b1[k], 0, size1[k])
        <5>1. k \in 1 .. n - 1
          BY <1>1, <4>1
        <5> QED BY <3>3, <3>4, <5>1
      <4>2. ASSUME NEW k \in 1 .. n, ~(k < n) PROVE x = BlockBytes(b1[k], 0, size1[k])
        <5>1. k = n
          BY <1>1, <4>2
        <5> QED BY <3>5, <5>1 DEF x
      <4> QED BY <4>1, <4>2
    <3> HIDE DEF size1
    <3> QED BY <3>7, <3>8, <3>9
  <2>5. B1Chunks \in Seq(Seq(Byte)) /\ Len(B1Chunks) = n
    BY <1>1, <2>3, <2>4
  <2>6. ASSUME NEW k \in 1 .. n
        PROVE  LET c == B1Chunks[k]
                   first == (k - 1) * B
               IN  /\ Len(c) = size1[k]
                   /\ first \in Nat /\ first + Len(c) <= curs1 /\ (k = n => first + Len(c) = curs1)
                   /\ \A j \in 1 .. Len(c) : c[j] = TextSeq[first + j]
    <3> DEFINE first == (k - 1) * B
               m == size1[k]
    <3>1. B1Chunks[k] = BlockBytes(b1[k], 0, size1[k])
      BY <2>4
    <3>2. m \in 1 .. B /\ k - 1 \in Nat /\ m = IF k < n THEN B ELSE last
      BY <1>1, <2>3
    <3>3. first \in Nat /\ (k < n => first + B <= (n - 1) * B)
      <4>1. first \in Nat
        BY <1>1, <3>2
      <4>2. ASSUME k < n PROVE first + B <= (n - 1) * B
        <5>1. PICK d \in Nat : n - 1 = k + d
          <6>1. n - 1 - k \in Nat /\ n - 1 = k + (n - 1 - k)
            BY <1>1, <4>2
          <6> QED BY ZenonT(60), <6>1
        <5>2. (n - 1) * B = first + B + d * B /\ d * B \in Nat
          BY <1>1, <5>1
        <5> HIDE DEF first, B, n
        <5> QED BY SMTT(60), <5>2, <4>1, <1>1
      <4> QED BY <4>1, <4>2
    <3> DEFINE end == (n - 1) * B
    <3>4. end \in Nat /\ curs1 = end + last /\ (k = n => first = end) /\ (k < n => first + B <= end)
      BY <1>1, <2>1, <3>3
    <3> HIDE DEF end, size1
    <3>5. first + m <= curs1 /\ (k = n => first + m = curs1)
      <4> HIDE DEF first, n, B, m
      <4> QED BY <1>1, <2>1, <3>2, <3>3, <3>4
    <3>6. ASSUME NEW j \in 1 .. m PROVE b1[k][j - 1] = TextSeq[first + j]
      <4>1. j - 1 \in 0 .. B - 1 /\ k - 1 \in Nat /\ k - 1 + 1 = k
        BY <1>1, <3>2
      <4> DEFINE p == first + (j - 1)
      <4>2. p \in Nat /\ Quot(p) = k - 1 /\ Rem(p) = j - 1
        BY <4>1, QuotRem
      <4> HIDE DEF first, m
      <4>3. p \in 0 .. curs1 - 1 /\ p + 1 = first + j
        BY <1>1, <3>2, <3>3, <3>5
      <4> HIDE DEF p
      <4>4. B1Byte(b1, p) = b1[k][j - 1]
        BY <4>1, <4>2 DEF B1Byte
      <4> QED BY <4>3, <4>4, BytesOfText
    <3> QED BY SMTT(60), <2>3, <3>1, <3>3, <3>5, <3>6
  <2>7. \A k \in 1 .. n : size1[k] \in 1 .. B /\ (k < n => size1[k] = B)
    BY <2>3
  <2> HIDE DEF size1
  <2> QED BY <2>5, <2>6, <2>7
<1> QED BY <1>2, <1>3

(* The chunks written from b2, whose blocks are taken from the last on.     *)
LEMMA SecondChunks ==
  ASSUME TypeOK
  PROVE  /\ B2Chunks \in Seq(Seq(Byte)) /\ Len(B2Chunks) = Len(b2)
         /\ \A k \in 1 .. Len(b2) :
              LET c == B2Chunks[k]
                  left == (Len(b2) - k) * EDIT_BUF_SIZE
              IN  /\ Len(c) \in 1 .. EDIT_BUF_SIZE
                  /\ k > 1 => Len(c) = EDIT_BUF_SIZE
                  /\ left \in Nat /\ left + Len(c) <= curs2
                  /\ k = 1 => left + Len(c) = curs2
                  /\ \A j \in 1 .. Len(c) : c[j] = TextSeq[size - (left + Len(c)) + j]
<1> DEFINE B == EDIT_BUF_SIZE
           n == Len(b2)
           last == Rem(curs2 - 1) + 1
           m(k) == IF k > 1 THEN B ELSE last
           C(k) == BlockBytes(b2[n - k + 1], B - m(k), m(k))
<1>1. Side(b2, curs2) /\ curs2 \in Nat /\ b2 \in Seq(Block) /\ n \in Nat /\ B \in Nat /\ B > 0
  BY BlockSizeAssumption DEF TypeOK, Side
<1>2. CASE b2 = << >>
  BY <1>2 DEF B2Chunks
<1>3. CASE b2 # << >>
  <2>1. n > 0 /\ last \in 1 .. B /\ curs2 = (n - 1) * B + last
    <3>1. n # 0
      BY <1>1, <1>3, EmptySeq
    <3>2. /\ curs2 = 0 <=> n = 0
          /\ curs2 # 0 => last \in 1 .. B /\ curs2 = (n - 1) * B + last
      <4>1. /\ curs2 = 0 <=> Len(b2) = 0
            /\ curs2 # 0 => /\ Rem(curs2 - 1) + 1 \in 1 .. EDIT_BUF_SIZE
                            /\ curs2 = (Len(b2) - 1) * EDIT_BUF_SIZE + Rem(curs2 - 1) + 1
        BY <1>1, LastBlock
      <4>2. curs2 # 0 => (Len(b2) - 1) * EDIT_BUF_SIZE \in Int /\ last \in Int
        BY <1>1, <4>1
      <4> DEFINE w == (Len(b2) - 1) * EDIT_BUF_SIZE
                 r == Rem(curs2 - 1)
      <4>3. curs2 # 0 => curs2 = w + r + 1 /\ w \in Int /\ r \in Int
        <5>1. curs2 # 0 => r \in Int
          BY <1>1, <4>1, DivMod
        <5> QED BY <4>1, <4>2, <5>1
      <4> HIDE DEF w, r
      <4>4. curs2 # 0 => curs2 = w + (r + 1)
        BY <4>3
      <4> QED BY <4>1, <4>4 DEF w, r
    <3> HIDE DEF last, B
    <3> QED BY <1>1, <3>1, <3>2
  <2>2. B2Chunks = << BlockBytes(Last(b2), B - last, last) >> \o WholeChunks(Reverse(Front(b2)))
    BY <1>3 DEF B2Chunks
  <2> HIDE DEF last
  <2>3. ASSUME NEW k \in 1 .. n
        PROVE  /\ m(k) \in 1 .. B /\ n - k + 1 \in 1 .. n
               /\ C(k) \in Seq(Byte) /\ Len(C(k)) = m(k)
               /\ \A j \in 1 .. m(k) : C(k)[j] = b2[n - k + 1][B - m(k) + j - 1]
    <3>1. m(k) \in 1 .. B /\ n - k + 1 \in 1 .. n
      BY <1>1, <2>1
    <3>1a. b2[n - k + 1] \in Block
      <4> DEFINE i == n - k + 1
      <4>1. i \in 1 .. Len(b2)
        BY <3>1
      <4> HIDE DEF i
      <4> QED BY <1>1, <4>1 DEF i
    <3> DEFINE x == b2[n - k + 1]
               y == m(k)
    <3>2. x \in Block /\ y \in 1 .. B
      BY <3>1, <3>1a
    <3> HIDE DEF x, y, n, m
    <3>3. \A j \in 1 .. y : B - y + j - 1 \in 0 .. B - 1 /\ x[B - y + j - 1] \in Byte
      BY <1>1, <3>2 DEF Block
    <3>4. BlockBytes(x, B - y, y) = [j \in 1 .. y |-> x[B - y + j - 1]]
      BY DEF BlockBytes
    <3> HIDE DEF B
    <3>5. BlockBytes(x, B - y, y) \in Seq(Byte) /\ Len(BlockBytes(x, B - y, y)) = y
          /\ \A j \in 1 .. y : BlockBytes(x, B - y, y)[j] = x[B - y + j - 1]
      BY <3>2, <3>3, <3>4
    <3> QED BY <3>1, <3>5 DEF x, y
  <2> HIDE DEF m
  <2>4. B2Chunks \in Seq(Seq(Byte)) /\ Len(B2Chunks) = n /\ \A k \in 1 .. n : B2Chunks[k] = C(k)
    <3> DEFINE h == n - 1
               front == Front(b2)
               w == WholeChunks(Reverse(front))
               x == BlockBytes(b2[n], B - last, last)
    <3>0. h \in Nat /\ h < n /\ h <= Len(b2) /\ n = h + 1
      BY <1>1, <2>1
    <3>1. front \in Seq(Block) /\ Len(front) = h /\ \A k \in 1 .. h : front[k] = b2[k]
      <4>1. front = SubSeq(b2, 1, h)
        BY DEF Front
      <4> HIDE DEF h, front
      <4>2. SubSeq(b2, 1, h) \in Seq(Block) /\ Len(SubSeq(b2, 1, h)) = h /\ \A k \in 1 .. h : SubSeq(b2, 1, h)[k] = b2[k]
        BY <1>1, <3>0
      <4> QED BY <4>1, <4>2
    <3>2. Last(b2) = b2[n]
      BY DEF Last
    <3> HIDE DEF h, front
    <3>3. Reverse(front) = [k \in 1 .. h |-> b2[h - k + 1]]
      <4>1. \A k \in 1 .. h : h - k + 1 \in 1 .. h
        BY <3>0
      <4> QED BY <3>1, <4>1 DEF Reverse
    <3>4. w = [k \in 1 .. h |-> BlockBytes(b2[h - k + 1], 0, B)]
      <4>1. Len(Reverse(front)) = h
        BY <3>0, <3>3
      <4> QED BY <3>3, <4>1 DEF WholeChunks
    <3>5. ASSUME NEW k \in 1 .. h PROVE k + 1 \in 1 .. n /\ w[k] = C(k + 1) /\ w[k] \in Seq(Byte)
      <4>1. k + 1 \in 1 .. n /\ m(k + 1) = B /\ B - m(k + 1) = 0 /\ n - (k + 1) + 1 = h - k + 1
        BY <1>1, <3>0 DEF m
      <4>2. C(k + 1) \in Seq(Byte)
        BY <2>3, <4>1
      <4>3. w[k] = BlockBytes(b2[h - k + 1], 0, B)
        BY <3>4
      <4>4. C(k + 1) = BlockBytes(b2[h - k + 1], 0, B)
        BY <4>1
      <4> HIDE DEF C, w
      <4> QED BY <4>1, <4>2, <4>3, <4>4
    <3>6. x = C(1) /\ x \in Seq(Byte)
      <4>1. 1 \in 1 .. n /\ m(1) = last /\ n - 1 + 1 = n
        BY <1>1, <2>1 DEF m
      <4>2. C(1) \in Seq(Byte)
        BY <2>3, <4>1
      <4>3. C(1) = x
        BY <4>1
      <4> HIDE DEF C, x
      <4> QED BY <4>2, <4>3
    <3>7. w \in Seq(Seq(Byte)) /\ Len(w) = h
      <4>1. w \in [1 .. h -> Seq(Byte)]
        <5>1. w = [k \in 1 .. h |-> w[k]]
          BY <3>4
        <5> HIDE DEF w
        <5> QED BY <3>5, <5>1
      <4> HIDE DEF w
      <4> QED BY <3>0, <4>1
    <3>8. B2Chunks = <<x>> \o w
      BY <2>2, <3>2 DEF front
    <3> HIDE DEF x, w, C, B, n
    <3>9. (<<x>> \o w) \in Seq(Seq(Byte)) /\ Len(<<x>> \o w) = n
      BY <3>0, <3>6, <3>7
    <3>10. ASSUME NEW k \in 1 .. n PROVE (<<x>> \o w)[k] = C(k)
      <4>1. CASE k = 1
        BY <3>0, <3>6, <3>7, <4>1
      <4>2. CASE k # 1
        <5>1. PICK i \in 1 .. h : k = i + 1
          <6>1. k - 1 \in 1 .. h /\ k = (k - 1) + 1
            BY <3>0, <4>2
          <6> QED BY <6>1
        <5>2. (<<x>> \o w)[k] = w[i]
          BY <3>0, <3>6, <3>7, <5>1
        <5>3. w[i] = C(k)
          BY <3>5, <5>1
        <5> QED BY <5>2, <5>3
      <4> QED BY <4>1, <4>2
    <3> QED BY <3>8, <3>9, <3>10
  <2>5. ASSUME NEW k \in 1 .. n
        PROVE  LET c == B2Chunks[k]
                   left == (n - k) * B
               IN  /\ Len(c) = m(k)
                   /\ left \in Nat /\ left + Len(c) <= curs2 /\ (k = 1 => left + Len(c) = curs2)
                   /\ \A j \in 1 .. Len(c) : c[j] = TextSeq[size - (left + Len(c)) + j]
    <3> DEFINE left == (n - k) * B
               mk == m(k)
    <3>1. B2Chunks[k] = C(k) /\ Len(C(k)) = mk
      BY <2>3, <2>4
    <3>2. mk \in 1 .. B /\ n - k \in Nat /\ mk = IF k > 1 THEN B ELSE last
      BY <1>1, <2>3 DEF m
    <3>3. left \in Nat /\ (k > 1 => left + B <= (n - 1) * B)
      <4>1. left \in Nat
        BY <1>1, <3>2
      <4>2. ASSUME k > 1 PROVE left + B <= (n - 1) * B
        <5>1. PICK d \in Nat : k = d + 2
          <6>1. k - 2 \in Nat /\ k = (k - 2) + 2
            BY <1>1, <4>2
          <6> QED BY <6>1
        <5>2. (n - 1) * B = left + B + d * B /\ d * B \in Nat
          BY <1>1, <5>1
        <5> HIDE DEF left, B, n
        <5> QED BY <5>2, <4>1, <1>1
      <4> QED BY <4>1, <4>2
    <3> DEFINE end == (n - 1) * B
    <3>4. end \in Nat /\ curs2 = end + last /\ (k = 1 => left = end) /\ (k > 1 => left + B <= end)
      BY <1>1, <2>1, <3>3
    <3> HIDE DEF end
    <3>5. left + mk <= curs2 /\ (k = 1 => left + mk = curs2)
      <4> HIDE DEF left, n, B, mk
      <4> QED BY <1>1, <2>1, <3>2, <3>3, <3>4
    <3>6. ASSUME NEW j \in 1 .. mk PROVE b2[n - k + 1][B - mk + j - 1] = TextSeq[size - (left + mk) + j]
      <4>1. mk - j \in 0 .. B - 1 /\ n - k \in Nat /\ B - 1 - (mk - j) = B - mk + j - 1
        BY <1>1, <3>2
      <4> DEFINE p == left + (mk - j)
      <4>2. p \in Nat /\ Quot(p) = n - k /\ Rem(p) = mk - j
        BY <4>1, QuotRem
      <4> HIDE DEF left, mk
      <4>2a. size \in Nat
        BY BytesOfText
      <4>3. p \in 0 .. curs2 - 1 /\ size - p = size - (left + mk) + j
        BY <1>1, <2>1, <3>2, <3>3, <3>5, <4>2a
      <4> HIDE DEF p
      <4>4. B2Byte(b2, p) = b2[n - k + 1][B - mk + j - 1]
        BY <4>1, <4>2 DEF B2Byte
      <4> QED BY <4>3, <4>4, BytesOfText
    <3>7. \A j \in 1 .. mk : C(k)[j] = b2[n - k + 1][B - mk + j - 1]
      BY <2>3
    <3> HIDE DEF C
    <3> QED BY <3>1, <3>3, <3>5, <3>6, <3>7
  <2>6. \A k \in 1 .. n : m(k) \in 1 .. B /\ (k > 1 => m(k) = B)
    BY <2>3 DEF m
  <2> QED BY <2>4, <2>5, <2>6
<1> QED BY <1>2, <1>3

(* Two sequences, one behind the other.                                     *)
LEMMA Joined ==
  ASSUME NEW S, NEW x \in Seq(S), NEW y \in Seq(S)
  PROVE  /\ (x \o y) \in Seq(S) /\ Len(x \o y) = Len(x) + Len(y)
         /\ \A k \in 1 .. Len(x) : (x \o y)[k] = x[k]
         /\ \A i \in 1 .. Len(y) : (x \o y)[Len(x) + i] = y[i]
OBVIOUS

(* Each chunk is a piece of the text, and all of them are the text; E says  *)
(* where each one ends.                                                     *)
LEMMA ChunksMakeText ==
  ASSUME TypeOK
  PROVE  /\ Chunks \in Seq(Seq(Byte))
         /\ \E E \in [0 .. Len(Chunks) -> Nat] :
              /\ E[0] = 0 /\ E[Len(Chunks)] = size
              /\ \A k \in 1 .. Len(Chunks) :
                   /\ Len(Chunks[k]) > 0 /\ E[k] = E[k - 1] + Len(Chunks[k]) /\ E[k] <= size
                   /\ \A j \in 1 .. Len(Chunks[k]) : Chunks[k][j] = TextSeq[E[k - 1] + j]
<1> DEFINE B == EDIT_BUF_SIZE
           n1 == Len(b1)
           n2 == Len(b2)
           N == n1 + n2
           E == [k \in 0 .. N |-> IF k < n1 THEN k * B ELSE IF k = n1 THEN curs1 ELSE size - (N - k) * B]
           Right(k, c, from, to) ==
              /\ Len(c) \in Nat /\ Len(c) > 0 /\ from \in Nat /\ to = from + Len(c) /\ to <= size
              /\ \A j \in 1 .. Len(c) : c[j] = TextSeq[from + j]
<1>1. /\ Side(b1, curs1) /\ Side(b2, curs2) /\ curs1 \in Nat /\ curs2 \in Nat /\ size = curs1 + curs2
      /\ size \in Nat /\ n1 \in Nat /\ n2 \in Nat /\ N \in Nat /\ B \in Nat /\ B > 0
  BY BlockSizeAssumption DEF TypeOK, Side
<1>2. (n1 = 0 => curs1 = 0) /\ (n2 = 0 => curs2 = 0)
  BY <1>1, LastBlock
<1>3. B1Chunks \in Seq(Seq(Byte)) /\ Len(B1Chunks) = n1 /\ B2Chunks \in Seq(Seq(Byte)) /\ Len(B2Chunks) = n2
  BY FirstChunks, SecondChunks
<1> DEFINE x == B1Chunks
           y == B2Chunks
<1> HIDE DEF x, y
<1>4. /\ (x \o y) \in Seq(Seq(Byte)) /\ Len(x \o y) = N
      /\ \A k \in 1 .. n1 : (x \o y)[k] = x[k]
      /\ \A i \in 1 .. n2 : (x \o y)[n1 + i] = y[i]
  <2>1. x \in Seq(Seq(Byte)) /\ Len(x) = n1 /\ y \in Seq(Seq(Byte)) /\ Len(y) = n2
    BY <1>3 DEF x, y
  <2>2. /\ (x \o y) \in Seq(Seq(Byte)) /\ Len(x \o y) = Len(x) + Len(y)
        /\ \A k \in 1 .. Len(x) : (x \o y)[k] = x[k]
        /\ \A i \in 1 .. Len(y) : (x \o y)[Len(x) + i] = y[i]
    <3>1. x \in Seq(Seq(Byte)) /\ y \in Seq(Seq(Byte))
      BY <2>1
    <3> DEFINE T == Seq(Byte)
    <3> HIDE DEF T
    <3>2. x \in Seq(T) /\ y \in Seq(T)
      BY <3>1 DEF T
    <3>3. /\ (x \o y) \in Seq(T) /\ Len(x \o y) = Len(x) + Len(y)
          /\ \A k \in 1 .. Len(x) : (x \o y)[k] = x[k]
          /\ \A i \in 1 .. Len(y) : (x \o y)[Len(x) + i] = y[i]
      BY <3>2, Joined
    <3> QED BY <3>3 DEF T
  <2> HIDE DEF n1, n2
  <2> QED BY <2>1, <2>2
<1>5. Chunks \in Seq(Seq(Byte)) /\ Len(Chunks) = N
      /\ (\A k \in 1 .. n1 : Chunks[k] = B1Chunks[k]) /\ (\A i \in 1 .. n2 : Chunks[n1 + i] = B2Chunks[i])
  BY <1>4 DEF Chunks, x, y
<1>6. ASSUME NEW k \in 1 .. n1 PROVE Right(k, Chunks[k], E[k - 1], E[k])
  <2> DEFINE c == B1Chunks[k]
             first == (k - 1) * B
  <2>1. /\ Len(c) \in 1 .. B /\ (k < n1 => Len(c) = B)
        /\ first \in Nat /\ first + Len(c) <= curs1 /\ (k = n1 => first + Len(c) = curs1)
        /\ \A j \in 1 .. Len(c) : c[j] = TextSeq[first + j]
    BY FirstChunks
  <2>2. k \in 0 .. N /\ k - 1 \in 0 .. N /\ k - 1 < n1 /\ k * B = first + B
    BY <1>1
  <2>3. E[k - 1] = first /\ E[k] = IF k < n1 THEN k * B ELSE curs1
    BY <1>1, <2>2
  <2>4. Chunks[k] = c
    BY <1>5
  <2> HIDE DEF c, first, E
  <2>5. E[k] = first + Len(c) /\ E[k] <= size
    <3> DEFINE kb == k * B
    <3>1. kb = first + B
      BY <2>2
    <3> HIDE DEF kb
    <3>2. E[k] = IF k < n1 THEN kb ELSE curs1
      BY <2>3 DEF kb
    <3> DEFINE l == Len(c)
               ek == E[k]
    <3>3. l \in 1 .. B /\ (k < n1 => l = B) /\ first \in Nat /\ first + l <= curs1 /\ (k = n1 => first + l = curs1)
          /\ ek = IF k < n1 THEN kb ELSE curs1
      BY <2>1, <3>2
    <3>4. n1 \in Nat /\ B \in Nat /\ curs1 \in Nat /\ size \in Nat /\ curs1 <= size /\ k \in 1 .. n1
      BY <1>1
    <3> HIDE DEF n1, B, l, ek
    <3>5. ek = first + l /\ ek <= size
      BY <3>1, <3>3, <3>4
    <3> QED BY <3>5 DEF ek, l
  <2> QED BY <1>1, <2>1, <2>3, <2>4, <2>5
<1>7. ASSUME NEW i \in 1 .. n2 PROVE Right(n1 + i, Chunks[n1 + i], E[n1 + i - 1], E[n1 + i])
  <2> DEFINE c == B2Chunks[i]
             left == (n2 - i) * B
             more == (n2 - i + 1) * B
  <2>1. /\ Len(c) \in 1 .. B /\ (i > 1 => Len(c) = B)
        /\ left \in Nat /\ left + Len(c) <= curs2 /\ (i = 1 => left + Len(c) = curs2)
        /\ \A j \in 1 .. Len(c) : c[j] = TextSeq[size - (left + Len(c)) + j]
    BY SecondChunks
  <2>2. n1 + i \in 0 .. N /\ n1 + i - 1 \in 0 .. N /\ ~(n1 + i < n1) /\ n1 + i # n1 /\ ~(n1 + i - 1 < n1)
        /\ (n1 + i - 1 = n1 <=> i = 1) /\ N - (n1 + i) = n2 - i /\ N - (n1 + i - 1) = n2 - i + 1
    BY <1>1
  <2>3. E[n1 + i] = size - left /\ E[n1 + i - 1] = IF i = 1 THEN curs1 ELSE size - more
    BY <2>2
  <2>4. more = left + B
    BY <1>1
  <2>5. Chunks[n1 + i] = c
    BY <1>5
  <2> HIDE DEF c, left, more, E
  <2>6. /\ E[n1 + i - 1] = size - (left + Len(c)) /\ E[n1 + i - 1] \in Nat
        /\ E[n1 + i] = E[n1 + i - 1] + Len(c) /\ E[n1 + i] <= size
    <3> DEFINE s0 == E[n1 + i - 1]
               s1 == E[n1 + i]
    <3>1. s1 = size - left /\ s0 = IF i = 1 THEN curs1 ELSE size - more
      BY <2>3
    <3> DEFINE l == Len(c)
    <3>2. l \in 1 .. B /\ (i > 1 => l = B) /\ left \in Nat /\ left + l <= curs2 /\ (i = 1 => left + l = curs2)
      BY <2>1
    <3>3. n2 \in Nat /\ B \in Nat /\ curs1 \in Nat /\ curs2 \in Nat /\ size = curs1 + curs2 /\ i \in 1 .. n2
      BY <1>1
    <3> HIDE DEF s0, s1, B, n1, n2, l
    <3>4. s0 = size - (left + l) /\ s0 \in Nat /\ s1 = s0 + l /\ s1 <= size
      BY <2>4, <3>1, <3>2, <3>3
    <3> QED BY <3>4 DEF s0, s1, l
  <2> QED BY <2>1, <2>5, <2>6
<1>8. ASSUME NEW k \in 1 .. N PROVE Right(k, Chunks[k], E[k - 1], E[k])
  <2>1. CASE k <= n1
    <3>1. k \in 1 .. n1
      BY <1>1, <2>1
    <3> HIDE DEF E, Right
    <3> QED BY <1>6, <3>1
  <2>2. CASE ~(k <= n1)
    <3>1. PICK i \in 1 .. n2 : k = n1 + i
      <4>1. k - n1 \in 1 .. n2 /\ k = n1 + (k - n1)
        BY <1>1, <2>2
      <4> QED BY <4>1
    <3> HIDE DEF E, Right
    <3> QED BY <1>7, <3>1
  <2> QED BY <2>1, <2>2
<1>9. E[0] = 0 /\ E[N] = size
  <2>1. 0 \in 0 .. N /\ N \in 0 .. N /\ 0 * B = 0 /\ N - N = 0
    BY <1>1
  <2>2. E[0] = IF 0 < n1 THEN 0 * B ELSE IF 0 = n1 THEN curs1 ELSE size - (N - 0) * B
    BY <2>1
  <2>3. E[N] = IF N < n1 THEN N * B ELSE IF N = n1 THEN curs1 ELSE size - 0 * B
    BY <2>1
  <2> HIDE DEF E
  <2> QED BY <1>1, <1>2, <2>1, <2>2, <2>3
<1>10. ASSUME NEW k \in 0 .. N PROVE E[k] \in Nat
  <2>1. CASE k = 0
    BY <1>9, <2>1
  <2>2. CASE k # 0
    <3>1. k \in 1 .. N
      BY <1>1, <2>2
    <3>2. Right(k, Chunks[k], E[k - 1], E[k])
      BY <1>8, <3>1
    <3> HIDE DEF E
    <3> QED BY <3>2
  <2> QED BY <2>1, <2>2
<1>11. E \in [0 .. N -> Nat]
  <2>1. E = [k \in 0 .. N |-> E[k]]
    OBVIOUS
  <2> HIDE DEF E
  <2> QED BY <1>10, <2>1
<1> HIDE DEF E, N
<1> QED BY <1>5, <1>8, <1>9, <1>11

(* What a write leaves in the file: all of the text, or a proper beginning  *)
(* of it, and the count returned tells which.                               *)
LEMMA WriteStep ==
  ASSUME TypeOK, Write
  PROVE  IsPrefix(out', TextSeq) /\ (ret' = size <=> out' = TextSeq)
<1> DEFINE N == Len(Chunks)
<1>1. TextSeq \in Seq(Byte) /\ Len(TextSeq) = size /\ size \in Nat
  BY BytesOfText
<1>2. Chunks \in Seq(Seq(Byte)) /\ N \in Nat
  BY ChunksMakeText
<1>3. PICK E \in [0 .. N -> Nat] :
        /\ E[0] = 0 /\ E[N] = size
        /\ \A k \in 1 .. N :
             /\ Len(Chunks[k]) > 0 /\ E[k] = E[k - 1] + Len(Chunks[k]) /\ E[k] <= size
             /\ \A j \in 1 .. Len(Chunks[k]) : Chunks[k][j] = TextSeq[E[k - 1] + j]
  BY ChunksMakeText
<1>4. ASSUME NEW e \in 0 .. size, out' = SubSeq(TextSeq, 1, e)
      PROVE  IsPrefix(out', TextSeq) /\ Len(out') = e /\ (out' = TextSeq <=> e = size)
  <2>1. Len(SubSeq(TextSeq, 1, e)) = e /\ SubSeq(SubSeq(TextSeq, 1, e), 1, e) = SubSeq(TextSeq, 1, e)
    BY <1>1
  <2>2. SubSeq(TextSeq, 1, size) = TextSeq
    BY <1>1
  <2> QED BY <1>1, <1>4, <2>1, <2>2 DEF IsPrefix
<1>5. CASE edit_buffer_write_file
  <2>1. out' = FlattenSeq(Chunks) /\ ret' = Len(out')
    BY <1>5 DEF edit_buffer_write_file
  <2> DEFINE ch == Chunks
  <2> HIDE DEF ch
  <2>2. FlattenSeq(ch) = SubSeq(TextSeq, 1, E[Len(ch)])
    <3>1. ch \in Seq(Seq(Byte)) /\ E \in [0 .. Len(ch) -> Nat] /\ E[0] = 0
          /\ \A k \in 1 .. Len(ch) : /\ E[k] = E[k - 1] + Len(ch[k]) /\ E[k] <= Len(TextSeq)
                                      /\ \A j \in 1 .. Len(ch[k]) : ch[k][j] = TextSeq[E[k - 1] + j]
      BY <1>1, <1>2, <1>3 DEF ch
    <3> QED BY ZenonT(60), <1>1, <3>1, PiecesMakeText
  <2>3. out' = SubSeq(TextSeq, 1, size)
    BY <1>3, <2>1, <2>2 DEF ch
  <2>4. size \in 0 .. size
    BY <1>1
  <2> QED BY <1>4, <2>1, <2>3, <2>4
<1>6. ASSUME NEW k \in DOMAIN Chunks, NEW n \in -1 .. EDIT_BUF_SIZE - 1, edit_buffer_write_file_short(k, n)
      PROVE  IsPrefix(out', TextSeq) /\ (ret' = size <=> out' = TextSeq)
  <2> DEFINE some == IF n = -1 THEN 0 ELSE n
             a == SubSeq(Chunks, 1, k - 1)
             z == SubSeq(Chunks[k], 1, n)
             ss == a \o <<z>>
             e == E[k - 1] + some
  <2>1. out' = FlattenSeq(ss) /\ ret' \in {-1, Len(out')} /\ n < Len(Chunks[k])
    BY <1>6 DEF edit_buffer_write_file_short
  <2>2. k \in 1 .. N /\ k - 1 \in 0 .. N /\ n \in Int /\ n >= -1 /\ some \in Nat /\ k - 1 \in Nat
    BY <1>2, BlockSizeAssumption
  <2>3. /\ Len(Chunks[k]) > 0 /\ E[k] = E[k - 1] + Len(Chunks[k]) /\ E[k] <= size /\ E[k - 1] \in Nat
        /\ \A j \in 1 .. Len(Chunks[k]) : Chunks[k][j] = TextSeq[E[k - 1] + j]
    <3>1. E[k - 1] \in Nat
      BY <2>2
    <3> QED BY <1>3, <2>2, <3>1
  <2>4. Chunks[k] \in Seq(Byte) /\ Len(Chunks[k]) \in Nat
    <3>1. Chunks[k] \in Seq(Byte)
      BY <1>2, <2>2
    <3> QED BY <3>1
  <2>5. z \in Seq(Byte) /\ Len(z) = some /\ some < Len(Chunks[k]) /\ \A j \in 1 .. some : z[j] = Chunks[k][j]
    <3> DEFINE c == Chunks[k]
    <3>1. c \in Seq(Byte) /\ Len(c) \in Nat /\ Len(c) > 0 /\ n < Len(c)
      BY <2>1, <2>3, <2>4
    <3> HIDE DEF c
    <3>2. SubSeq(c, 1, n) \in Seq(Byte) /\ Len(SubSeq(c, 1, n)) = some /\ some < Len(c)
          /\ \A j \in 1 .. some : SubSeq(c, 1, n)[j] = c[j]
      BY <2>2, <3>1
    <3> QED BY <3>2 DEF c
  <2>6. a \in Seq(Seq(Byte)) /\ Len(a) = k - 1 /\ \A i \in 1 .. k - 1 : a[i] = Chunks[i]
    <3> DEFINE ch == Chunks
               h == k - 1
    <3>1. ch \in Seq(Seq(Byte)) /\ h \in 0 .. Len(ch)
      BY <1>2, <2>2
    <3> HIDE DEF ch, h
    <3>2. SubSeq(ch, 1, h) \in Seq(Seq(Byte)) /\ Len(SubSeq(ch, 1, h)) = h /\ \A i \in 1 .. h : SubSeq(ch, 1, h)[i] = ch[i]
      BY <3>1
    <3> QED BY <3>2 DEF ch, h
  <2> HIDE DEF a, z, some
  <2>7. ss \in Seq(Seq(Byte)) /\ Len(ss) = k /\ ss[k] = z /\ \A i \in 1 .. k - 1 : ss[i] = Chunks[i]
    <3>1. ss \in Seq(Seq(Byte)) /\ Len(ss) = k
      BY <2>2, <2>5, <2>6
    <3>2. ss[k] = z /\ \A i \in 1 .. k - 1 : ss[i] = a[i]
      BY <2>2, <2>5, <2>6
    <3> QED BY <2>6, <3>1, <3>2
  <2> HIDE DEF ss
  <2> DEFINE D == [i \in 0 .. k |-> IF i = k THEN e ELSE E[i]]
  <2>8. D \in [0 .. k -> Nat] /\ D[0] = 0 /\ D[k] = e /\ \A i \in 0 .. k - 1 : D[i] = E[i]
    <3>1. e \in Nat /\ \A i \in 0 .. k - 1 : E[i] \in Nat /\ i # k /\ i \in 0 .. k
      <4>1. \A i \in 0 .. k - 1 : i \in 0 .. N /\ i # k /\ i \in 0 .. k
        <5>1. N \in Nat /\ k \in 1 .. N
          BY <1>2, <2>2
        <5> HIDE DEF N
        <5> QED BY <5>1
      <4>2. e \in Nat
        BY <2>2, <2>3
      <4> HIDE DEF N, e
      <4> QED BY <4>1, <4>2
    <3>2. \A i \in 0 .. k : i # k => E[i] \in Nat
      BY <2>2, <3>1
    <3>3. 0 # k /\ 0 \in 0 .. k /\ k \in 0 .. k
      BY <2>2
    <3> HIDE DEF e
    <3> QED BY <1>3, <3>1, <3>2, <3>3
  <2>9. e \in Nat /\ e < size
    BY <1>1, <2>2, <2>3, <2>4, <2>5
  <2> HIDE DEF D
  <2>10. ASSUME NEW i \in 1 .. k
         PROVE  /\ D[i] = D[i - 1] + Len(ss[i]) /\ D[i] <= Len(TextSeq)
                /\ \A j \in 1 .. Len(ss[i]) : ss[i][j] = TextSeq[D[i - 1] + j]
    <3>1. i - 1 \in 0 .. k - 1 /\ D[i - 1] = E[i - 1]
      <4>1. i - 1 \in 0 .. k - 1
        BY <2>2
      <4> QED BY <2>8, <4>1
    <3>2. CASE i = k
      <4>1. D[i] = e /\ ss[i] = z /\ E[i - 1] = E[k - 1]
        BY <2>7, <2>8, <3>2
      <4>2. \A j \in 1 .. some : z[j] = TextSeq[E[k - 1] + j]
        <5>1. \A j \in 1 .. some : j \in 1 .. Len(Chunks[k])
          BY <2>2, <2>4, <2>5
        <5> QED BY <2>3, <2>5, <5>1
      <4>3. e <= Len(TextSeq)
        BY <1>1, <2>9
      <4> QED BY SMTT(60), <2>5, <3>1, <4>1, <4>2, <4>3
    <3>3. CASE i # k
      <4>1. i \in 1 .. k - 1 /\ i \in 0 .. k - 1 /\ i \in 1 .. N
        BY <2>2, <3>3
      <4>2. D[i] = E[i] /\ ss[i] = Chunks[i]
        BY <2>7, <2>8, <4>1
      <4> QED BY <1>1, <1>3, <3>1, <4>1, <4>2
    <3> QED BY <3>2, <3>3
  <2>11. FlattenSeq(ss) = SubSeq(TextSeq, 1, D[Len(ss)])
    <3>1. D \in [0 .. Len(ss) -> Nat] /\ D[0] = 0
          /\ \A i \in 1 .. Len(ss) : /\ D[i] = D[i - 1] + Len(ss[i]) /\ D[i] <= Len(TextSeq)
                                      /\ \A j \in 1 .. Len(ss[i]) : ss[i][j] = TextSeq[D[i - 1] + j]
      BY <2>7, <2>8, <2>10
    <3> QED BY ZenonT(60), <1>1, <2>7, <3>1, PiecesMakeText
  <2>12. out' = SubSeq(TextSeq, 1, e) /\ e \in 0 .. size
    <3> HIDE DEF e
    <3>1. D[Len(ss)] = e
      BY <2>7, <2>8
    <3> QED BY <1>1, <2>1, <2>9, <2>11, <3>1
  <2>13. IsPrefix(out', TextSeq) /\ Len(out') = e /\ out' # TextSeq
    BY SMTT(60), <1>1, <1>4, <2>9, <2>12
  <2> HIDE DEF e
  <2> QED BY <1>1, <2>1, <2>9, <2>13
<1> QED BY <1>5, <1>6 DEF Write

(* edit_buffer_write_file: what reached the file is a beginning of the      *)
(* text, and the count returned is its size only when it is all of the      *)
(* text, for blocks and texts of any size and a write that fails anywhere.  *)
THEOREM WritesTheText == Spec => WrittenIsText
<1> DEFINE Good == <<out', ret'>> # <<out, ret>> =>
                     IsPrefix(out', TextSeq) /\ (ret' = size <=> out' = TextSeq)
<1>1. TypeOK /\ [Next]_vars => [Good]_vars
  <2> SUFFICES ASSUME TypeOK, Next, <<out', ret'>> # <<out, ret>>
               PROVE  IsPrefix(out', TextSeq) /\ (ret' = size <=> out' = TextSeq)
    BY DEF vars
  <2>1. CASE Write
    BY <2>1, WriteStep
  <2>2. CASE Load
    BY <2>2 DEF Load, edit_load_file, edit_load_file_short, vars
  <2>3. CASE Alter
    BY <2>3 DEF Alter, edit_buffer_insert, edit_buffer_insert_ahead, edit_buffer_delete,
                edit_buffer_backspace, cursor_move_left, cursor_move_right
  <2> QED BY <2>1, <2>2, <2>3 DEF Next
<1> QED BY <1>1, TypeCorrect, PTL DEF Spec, WrittenIsText

-----------------------------------------------------------------------------
(***************************************************************************)
(* The bookmarks: the list stays in order under the imaginary bookmark,    *)
(* which is never taken out, and each mark on its line.                    *)
(***************************************************************************)

(* A set of numbers up to n has a greatest.                                 *)
LEMMA GreatestIn ==
  ASSUME NEW n \in Nat, NEW T \in SUBSET (0 .. n), T # {}
  PROVE  \E x \in T : \A y \in T : y <= x
<1> DEFINE U == {n - t : t \in T}
<1>1. U \in SUBSET Nat /\ U # {}
  <2>1. \A t \in T : n - t \in Nat
    OBVIOUS
  <2>2. PICK t \in T : TRUE
    OBVIOUS
  <2>3. n - t \in U
    OBVIOUS
  <2> QED BY <2>1, <2>3
<1> HIDE DEF U
<1>2. PICK u \in U : \A v \in U : u <= v
  BY <1>1, LeastNat
<1> USE DEF U
<1>3. PICK x \in T : u = n - x
  OBVIOUS
<1>4. ASSUME NEW y \in T PROVE y <= x
  <2>1. n - y \in U /\ x \in Nat /\ y \in Nat
    OBVIOUS
  <2>2. n - x <= n - y
    BY <1>2, <1>3, <2>1
  <2> HIDE DEF U
  <2> QED BY <2>1, <2>2
<1> QED BY <1>4

(* What Only yields: the places in ascending order.                         *)
LEMMA OnlyDoes ==
  ASSUME NEW S, NEW list \in Seq(S), NEW places
  PROVE  \E n \in Nat : \E at \in [1 .. n -> 1 .. Len(list)] :
           /\ Only(list, places) \in Seq(S) /\ Len(Only(list, places)) = n
           /\ \A i \in 1 .. n : Only(list, places)[i] = list[at[i]]
           /\ \A i \in 1 .. n : at[i] \in places
           /\ \A i, j \in 1 .. n : i < j => at[i] < at[j]
           /\ \A k \in 1 .. Len(list) : k \in places => \E i \in 1 .. n : at[i] = k
<1> DEFINE N == Len(list)
           ss == [k \in 1 .. N |-> IF k \in places THEN <<list[k]>> ELSE << >>]
<1>1. N \in Nat /\ ss \in Seq(Seq(S)) /\ Len(ss) = N
  OBVIOUS
<1>2. Only(list, places) = FlattenSeq(ss)
  BY DEF Only
<1>3. PICK F \in [0 .. N -> Seq(S)] :
        /\ F[0] = << >> /\ F[N] = FlattenSeq(ss)
        /\ \A k \in 1 .. N : F[k] = F[k - 1] \o ss[k]
  <2> DEFINE tt == ss
  <2>1. tt \in Seq(Seq(S)) /\ Len(tt) = N
    BY <1>1
  <2> HIDE DEF tt
  <2>2. \E F \in [0 .. Len(tt) -> Seq(S)] :
           /\ F[0] = << >>
           /\ \A k \in 1 .. Len(tt) : F[k] = F[k - 1] \o tt[k]
           /\ F[Len(tt)] = FlattenSeq(tt)
    BY <2>1, FlattenDoes
  <2> HIDE DEF ss, N
  <2> QED BY <2>1, <2>2 DEF tt
<1>4. \A k \in 1 .. N : F[k] = IF k \in places THEN Append(F[k - 1], list[k]) ELSE F[k - 1]
  <2> SUFFICES ASSUME NEW k \in 1 .. N
               PROVE  F[k] = IF k \in places THEN Append(F[k - 1], list[k]) ELSE F[k - 1]
    OBVIOUS
  <2>1. k - 1 \in 0 .. N /\ F[k - 1] \in Seq(S) /\ list[k] \in S
    BY SMTT(60), <1>1
  <2>2. ss[k] = IF k \in places THEN <<list[k]>> ELSE << >>
    OBVIOUS
  <2>3. F[k] = F[k - 1] \o ss[k]
    BY <1>3
  <2> DEFINE f == F[k - 1]
             e == list[k]
  <2> HIDE DEF f, e, ss
  <2>4. f \in Seq(S) /\ e \in S
    BY <2>1 DEF f, e
  <2>5. f \o << >> = f /\ f \o <<e>> = Append(f, e)
    BY <2>4, ConcatEmptySeq
  <2> QED BY <2>2, <2>3, <2>5 DEF f, e
<1> HIDE DEF ss
<1> DEFINE Lists(k, n, at) ==
             /\ n \in Nat /\ at \in [1 .. n -> 1 .. k]
             /\ F[k] = [i \in 1 .. n |-> list[at[i]]]
             /\ \A i \in 1 .. n : at[i] \in places
             /\ \A i, j \in 1 .. n : i < j => at[i] < at[j]
             /\ \A j \in 1 .. k : j \in places => \E i \in 1 .. n : at[i] = j
           U == {k \in Nat : k <= N => \E n, at : Lists(k, n, at)}
<1>5. 0 \in U
  <2>1. Lists(0, 0, << >>)
    BY <1>3
  <2> HIDE DEF Lists
  <2> QED BY <2>1
<1>6. ASSUME NEW k \in Nat, k \in U PROVE k + 1 \in U
  <2> SUFFICES ASSUME k + 1 <= N PROVE \E n, at : Lists(k + 1, n, at)
    BY SMTT(60)
  <2>1. PICK n, at : Lists(k, n, at)
    <3>1. k <= N
      BY <1>1
    <3> HIDE DEF Lists, N
    <3> QED BY <1>6, <3>1
  <2> HIDE DEF U
  <2>2. PICK m \in 1 .. N : m = k + 1 /\ m - 1 = k /\ k \in 0 .. N
    BY <1>1
  <2>3. F[m] = IF m \in places THEN Append(F[k], list[m]) ELSE F[k]
    BY <1>4, <2>2
  <2> HIDE DEF N
  <2>4. CASE m \notin places
    <3>1. at \in [1 .. n -> 1 .. m] /\ \A j \in 1 .. m : j \in places => j \in 1 .. k
      BY <2>1, <2>2, <2>4
    <3>2. Lists(m, n, at)
      BY <2>1, <2>3, <2>4, <3>1
    <3> HIDE DEF Lists
    <3> QED BY <2>2, <3>2
  <2>5. CASE m \in places
    <3> DEFINE n2 == n + 1
               at2 == [i \in 1 .. n2 |-> IF i = n2 THEN m ELSE at[i]]
    <3>1. n \in Nat /\ n2 \in Nat /\ at \in [1 .. n -> 1 .. k] /\ \A i \in 1 .. n2 : i # n2 => i \in 1 .. n
      BY <2>1
    <3>2. at2 \in [1 .. n2 -> 1 .. m] /\ at2[n2] = m /\ \A i \in 1 .. n : at2[i] = at[i] /\ at[i] < m
      BY <2>2, <3>1
    <3>3. F[m] = [i \in 1 .. n2 |-> list[at2[i]]]
      <4> DEFINE f == F[k]
                 g == [i \in 1 .. n2 |-> list[at2[i]]]
                 e == list[m]
      <4>1. f \in Seq(S) /\ e \in S /\ f = [i \in 1 .. n |-> list[at[i]]]
        BY <1>3, <2>1, <2>2 DEF N
      <4>2. Len(f) = n /\ \A i \in 1 .. n : f[i] = list[at[i]]
        BY <3>1, <4>1
      <4>3. \A i \in 1 .. n2 : g[i] = IF i = n2 THEN e ELSE f[i]
        BY <3>1, <3>2, <4>2
      <4>4. g = [i \in 1 .. n2 |-> g[i]]
        OBVIOUS
      <4> HIDE DEF f, g, e, at2
      <4>5. Append(f, e) = [i \in 1 .. n2 |-> IF i = n2 THEN e ELSE f[i]]
        BY <3>1, <4>1, <4>2
      <4>6. Append(f, e) = g
        BY <4>3, <4>4, <4>5
      <4> QED BY <2>3, <2>5, <4>6 DEF f, g, e
    <3> HIDE DEF at2
    <3>4. \A i \in 1 .. n2 : at2[i] \in places
      <4>1. \A i \in 1 .. n : at2[i] \in places
        BY <2>1, <3>2
      <4> QED BY <2>5, <3>1, <3>2, <4>1
    <3>5. \A i, j \in 1 .. n2 : i < j => at2[i] < at2[j]
      <4> SUFFICES ASSUME NEW i \in 1 .. n2, NEW j \in 1 .. n2, i < j PROVE at2[i] < at2[j]
        OBVIOUS
      <4>1. i \in 1 .. n
        BY <3>1
      <4>2. CASE j = n2
        BY <3>2, <4>1, <4>2
      <4>3. CASE j # n2
        <5>1. j \in 1 .. n
          BY <3>1, <4>3
        <5>2. at[i] < at[j]
          BY <2>1, <4>1, <5>1
        <5> QED BY <3>2, <4>1, <5>1, <5>2
      <4> QED BY <4>2, <4>3
    <3>6. \A j \in 1 .. m : j \in places => \E i \in 1 .. n2 : at2[i] = j
      <4> SUFFICES ASSUME NEW j \in 1 .. m, j \in places PROVE \E i \in 1 .. n2 : at2[i] = j
        OBVIOUS
      <4>1. CASE j = m
        BY <3>1, <3>2, <4>1
      <4>2. CASE j # m
        <5>1. j \in 1 .. k
          BY <2>2, <4>2
        <5>2. PICK i \in 1 .. n : at[i] = j
          BY <2>1, <5>1
        <5> QED BY <3>1, <3>2, <5>2
      <4> QED BY <4>1, <4>2
    <3>7. Lists(m, n2, at2)
      BY <3>1, <3>2, <3>3, <3>4, <3>5, <3>6
    <3> HIDE DEF Lists
    <3> QED BY <2>2, <3>7
  <2> QED BY <2>4, <2>5
<1>7. N \in U
  <2> HIDE DEF U
  <2> QED BY <1>1, <1>5, <1>6, NatInduct
<1>8. PICK n, at : Lists(N, n, at)
  <2> HIDE DEF Lists
  <2> QED BY <1>1, <1>7
<1>9. /\ n \in Nat /\ at \in [1 .. n -> 1 .. N]
      /\ Only(list, places) = [i \in 1 .. n |-> list[at[i]]]
      /\ \A i \in 1 .. n : at[i] \in places
      /\ \A i, j \in 1 .. n : i < j => at[i] < at[j]
      /\ \A k \in 1 .. N : k \in places => \E i \in 1 .. n : at[i] = k
  BY <1>2, <1>3, <1>8
<1> DEFINE o == Only(list, places)
<1> HIDE DEF o
<1>10. o \in Seq(S) /\ Len(o) = n /\ \A i \in 1 .. n : o[i] = list[at[i]]
  <2>1. \A i \in 1 .. n : at[i] \in 1 .. N /\ list[at[i]] \in S
    BY <1>1, <1>9
  <2>2. o = [i \in 1 .. n |-> list[at[i]]]
    BY <1>9 DEF o
  <2> QED BY <1>9, <2>1, <2>2
<1> QED BY <1>9, <1>10 DEF o

MarkType == [line : Int, c : Colors \cup {"none"}, of : Int, astray : BOOLEAN]

(* A list in order, under the imaginary bookmark, each mark on its line.    *)
Follows(m) == m.astray \/ m.line = m.of
Listing(list) ==
  /\ list \in Seq(MarkType) /\ Len(list) > 0
  /\ list[1].line = -1 /\ list[1].c = "none"
  /\ \A i, j \in 1 .. Len(list) : i < j => list[i].line <= list[j].line
  /\ \A k \in 2 .. Len(list) : Follows(list[k])

Entered(bm) ==
  /\ bm = [list |-> bm.list, node |-> bm.node]
  /\ Listing(bm.list) /\ bm.node \in 1 .. Len(bm.list)

MarksOK(bm) == bm = NoMarks \/ Entered(bm)

BmInv == MarksOK(book_mark) /\ last_line \in Nat /\ curs_line \in 0 .. last_line

(* The place of a line in the list.                                         *)
At(bm, line) ==
  /\ bm.list[bm.node].line <= line
  /\ \A k \in 1 .. Len(bm.list) : k > bm.node => bm.list[k].line > line

(* The list of the imaginary bookmark alone.                                *)
LEMMA TopAlone == Listing(<<Top>>) /\ Entered([list |-> <<Top>>, node |-> 1])
<1>1. Top \in MarkType /\ Top.line = -1 /\ Top.c = "none"
  BY DEF Top, Mark, MarkType
<1> DEFINE l == <<Top>>
<1>2. l \in Seq(MarkType) /\ Len(l) = 1 /\ l[1] = Top
  BY <1>1
<1> HIDE DEF l
<1>3. Listing(l)
  BY <1>1, <1>2 DEF Listing
<1> QED BY <1>2, <1>3 DEF Entered, l

(* book_mark_find finds the place of the line, wherever it starts from.     *)
LEMMA FindDoes ==
  ASSUME NEW bm, MarksOK(bm), NEW line \in Int, line >= -1
  PROVE  LET f == book_mark_find(bm, line)
         IN  /\ Entered(f) /\ At(f, line)
             /\ f.list = IF bm = NoMarks THEN <<Top>> ELSE bm.list
<1>1. CASE bm = NoMarks
  <2> DEFINE f == [list |-> <<Top>>, node |-> 1]
  <2>1. Len(bm.list) = 0
    BY <1>1 DEF NoMarks
  <2>2. book_mark_find(bm, line) = f
    BY <2>1 DEF book_mark_find
  <2>3. f.list = <<Top>> /\ f.node = 1 /\ Len(f.list) = 1 /\ f.list[1] = Top /\ Top.line = -1
    BY DEF Top, Mark
  <2> HIDE DEF f
  <2>4. At(f, line)
    BY <2>3 DEF At
  <2>5. Entered(f)
    BY TopAlone DEF f
  <2> QED BY <1>1, <2>2, <2>3, <2>4, <2>5
<1>2. CASE bm # NoMarks
  <2> DEFINE list == bm.list
             n == Len(list)
             here(p) == list[p].line <= line /\ (p = n \/ list[p + 1].line > line)
             down == {p \in bm.node .. n : list[p].line > line \/ here(p)}
             up == {p \in 1 .. bm.node : here(p) \/ (p < n /\ list[p + 1].line <= line)}
             x == IF down # {} /\ here(Min(down)) THEN Min(down) ELSE Max(up)
             f == [bm EXCEPT !.node = x]
  <2>1. Entered(bm) /\ Listing(list) /\ n \in Nat /\ n > 0 /\ bm.node \in 1 .. n
        /\ \A p \in 1 .. n : list[p].line \in Int
    <3>1. Entered(bm) /\ Listing(list) /\ bm.node \in 1 .. n
      BY <1>2 DEF MarksOK, Entered
    <3>2. list \in Seq(MarkType) /\ n > 0
      BY <3>1 DEF Listing
    <3> HIDE DEF list
    <3>3. \A p \in 1 .. n : list[p] \in MarkType
      BY <3>2
    <3>4. n \in Nat
      BY <3>2
    <3> HIDE DEF n
    <3>5. \A p \in 1 .. n : list[p].line \in Int
      BY SMTT(60), <3>3 DEF MarkType
    <3> QED BY <3>1, <3>2, <3>4, <3>5
  <2>2. book_mark_find(bm, line) = f
    BY <2>1 DEF book_mark_find
  <2>3. \A i, j \in 1 .. n : i < j => list[i].line <= list[j].line
    BY <2>1 DEF Listing
  <2>4. PICK h \in 1 .. n : list[h].line <= line /\ \A k \in 1 .. n : k > h => list[k].line > line
    <3> DEFINE T == {k \in 1 .. n : list[k].line <= line}
    <3>1. 1 \in T
      BY <2>1 DEF Listing
    <3>2. T \in SUBSET (0 .. n) /\ T # {}
      BY <3>1
    <3>3. PICK h \in T : \A y \in T : y <= h
      <4> HIDE DEF T, n
      <4> QED BY <2>1, <3>2, GreatestIn
    <3>4. \A k \in 1 .. n : k > h => list[k].line > line
      BY <2>1, <3>3
    <3> QED BY <3>3, <3>4
  <2> HIDE DEF list, n
  <2>5. here(h) /\ \A p \in 1 .. n : p # h => ~here(p)
    <3>1. here(h)
      BY <2>1, <2>4
    <3>2. ASSUME NEW p \in 1 .. n, p # h PROVE ~here(p)
      <4>1. CASE p > h
        BY <2>1, <2>4, <4>1
      <4>2. CASE p < h
        <5>1. p + 1 \in 1 .. n /\ (p + 1 = h \/ p + 1 < h) /\ p # n
          BY <2>1, <2>4, <4>2
        <5>2. list[p + 1].line <= list[h].line
          <6>1. PICK q \in 1 .. n : q = p + 1
            BY <5>1
          <6> QED BY <2>1, <2>3, <5>1, <6>1
        <5>3. list[p + 1].line \in Int /\ list[h].line \in Int
          <6>1. PICK q \in 1 .. n : q = p + 1
            BY <5>1
          <6> QED BY <2>1, <6>1
        <5> QED BY <2>4, <5>1, <5>2, <5>3
      <4> QED BY <2>1, <3>2, <4>1, <4>2
    <3> QED BY <3>1, <3>2
  <2> HIDE DEF here
  <2>6. x = h
    <3>1. CASE h >= bm.node
      <4>1. h \in down
        BY <2>1, <2>5, <3>1
      <4>2. ASSUME NEW p \in down PROVE h <= p
        <5>1. p \in 1 .. n
          BY <2>1
        <5>2. CASE here(p)
          BY <2>5, <5>1, <5>2
        <5>3. CASE list[p].line > line
          <6>1. ~(p < h)
            BY <2>1, <2>3, <2>4, <5>1, <5>3
          <6> QED BY <5>1, <6>1
        <5> QED BY <5>2, <5>3
      <4>3. down \subseteq Nat
        BY <2>1
      <4> HIDE DEF down
      <4>4. \A y \in down : (\A p \in down : y <= p) => y = h
        BY <4>1, <4>2, <4>3
      <4>5. Min(down) = h
        BY <4>1, <4>2, <4>4 DEF Min
      <4> QED BY <2>5, <4>1, <4>5
    <3>2. CASE ~(h >= bm.node)
      <4>1. \A p \in down : ~here(p)
        BY <2>1, <2>5, <3>2
      <4>2. ~(down # {} /\ here(Min(down)))
        <5> SUFFICES ASSUME down # {}, here(Min(down)) PROVE FALSE
          OBVIOUS
        <5>1. down \subseteq Nat /\ down # {}
          BY <2>1
        <5> HIDE DEF down
        <5>2. PICK y \in down : \A p \in down : y <= p
          BY <5>1, LeastNat
        <5>3. Min(down) \in down
          BY <5>2 DEF Min
        <5> QED BY <4>1, <5>3
      <4>3. h \in up
        BY <2>1, <2>5, <3>2
      <4>4. ASSUME NEW p \in up PROVE p <= h
        <5> SUFFICES ASSUME p > h PROVE FALSE
          BY <2>1
        <5>1. p \in 1 .. n /\ p # h
          BY <2>1
        <5>2. ~here(p)
          BY <2>5, <5>1
        <5>3. p < n /\ list[p + 1].line <= line
          BY <5>2
        <5>4. PICK q \in 1 .. n : q = p + 1 /\ q > h
          BY <2>1, <5>1, <5>3
        <5>5. list[q].line > line /\ list[q].line <= line /\ list[q].line \in Int
          BY <2>1, <2>4, <5>3, <5>4
        <5> QED BY <5>5
      <4>5. up \subseteq Nat
        BY <2>1
      <4> HIDE DEF up
      <4>6. \A y \in up : (\A p \in up : y >= p) => y = h
        BY <4>3, <4>4, <4>5
      <4>7. Max(up) = h
        BY <4>3, <4>4, <4>5, <4>6 DEF Max
      <4> HIDE DEF down
      <4> QED BY <4>2, <4>7
    <3> QED BY <3>1, <3>2
  <2> HIDE DEF x
  <2>7. f.list = list /\ f.node = h /\ f = [list |-> f.list, node |-> f.node]
    BY <2>1, <2>6 DEF Entered, list
  <2> HIDE DEF f
  <2>8. Entered(f) /\ At(f, line)
    BY <2>1, <2>4, <2>7 DEF Entered, At, n
  <2> QED BY <1>2, <2>2, <2>7, <2>8 DEF list
<1> QED BY <1>1, <1>2

(* An element put into a list, and one taken out of it.                     *)
LEMMA InsertAtDoes ==
  ASSUME NEW S, NEW s \in Seq(S), NEW e \in S, NEW i \in 1 .. Len(s) + 1
  PROVE  /\ InsertAt(s, i, e) \in Seq(S)
         /\ Len(InsertAt(s, i, e)) = Len(s) + 1
         /\ \A j \in 1 .. Len(s) + 1 :
              InsertAt(s, i, e)[j] = IF j < i THEN s[j] ELSE IF j = i THEN e ELSE s[j - 1]
<1> DEFINE a == SubSeq(s, 1, i - 1)
           b == SubSeq(s, i, Len(s))
<1>1. a \in Seq(S) /\ Len(a) = i - 1 /\ \A j \in 1 .. i - 1 : a[j] = s[j]
  OBVIOUS
<1>2. b \in Seq(S) /\ Len(b) = Len(s) - i + 1 /\ \A j \in 1 .. Len(s) - i + 1 : b[j] = s[i + j - 1]
  OBVIOUS
<1>3. InsertAt(s, i, e) = (a \o <<e>>) \o b
  BY DEF InsertAt
<1> HIDE DEF a, b
<1> DEFINE c == a \o <<e>>
<1>4. c \in Seq(S) /\ Len(c) = i /\ \A j \in 1 .. i : c[j] = IF j < i THEN s[j] ELSE e
  BY <1>1
<1> HIDE DEF c
<1>5. /\ c \o b \in Seq(S) /\ Len(c \o b) = Len(s) + 1
      /\ \A j \in 1 .. Len(s) + 1 : (c \o b)[j] = IF j <= i THEN c[j] ELSE b[j - i]
  <2>1. /\ c \o b \in Seq(S) /\ Len(c \o b) = Len(c) + Len(b)
        /\ \A j \in 1 .. Len(c) + Len(b) : (c \o b)[j] = IF j <= Len(c) THEN c[j] ELSE b[j - Len(c)]
    BY <1>2, <1>4, ConcatProperties
  <2>2. Len(c) = i /\ Len(c) + Len(b) = Len(s) + 1
    BY <1>2, <1>4
  <2> QED BY <2>1, <2>2
<1>6. \A j \in 1 .. Len(s) + 1 : j > i => b[j - i] = s[j - 1]
  BY <1>2
<1> DEFINE r == InsertAt(s, i, e)
<1>7. r \in Seq(S) /\ Len(r) = Len(s) + 1
      /\ \A j \in 1 .. Len(s) + 1 : r[j] = IF j <= i THEN c[j] ELSE b[j - i]
  BY <1>3, <1>5 DEF c
<1> HIDE DEF r
<1>8. ASSUME NEW j \in 1 .. Len(s) + 1
      PROVE  r[j] = IF j < i THEN s[j] ELSE IF j = i THEN e ELSE s[j - 1]
  <2>1. CASE j <= i
    BY <1>4, <1>7, <2>1
  <2>2. CASE j > i
    <3>1. r[j] = b[j - i] /\ b[j - i] = s[j - 1]
      BY <1>6, <1>7, <2>2
    <3> HIDE DEF b
    <3> QED BY <2>2, <3>1
  <2> QED BY <2>1, <2>2
<1> QED BY <1>7, <1>8 DEF r

LEMMA RemoveAtDoes ==
  ASSUME NEW S, NEW s \in Seq(S), NEW i \in 1 .. Len(s)
  PROVE  /\ RemoveAt(s, i) \in Seq(S)
         /\ Len(RemoveAt(s, i)) = Len(s) - 1
         /\ \A j \in 1 .. Len(s) - 1 : RemoveAt(s, i)[j] = IF j < i THEN s[j] ELSE s[j + 1]
<1> DEFINE a == SubSeq(s, 1, i - 1)
           b == SubSeq(s, i + 1, Len(s))
<1>1. a \in Seq(S) /\ Len(a) = i - 1 /\ \A j \in 1 .. i - 1 : a[j] = s[j]
  OBVIOUS
<1>2. b \in Seq(S) /\ Len(b) = Len(s) - i /\ \A j \in 1 .. Len(s) - i : b[j] = s[i + j]
  OBVIOUS
<1>3. RemoveAt(s, i) = a \o b
  BY DEF RemoveAt
<1> HIDE DEF a, b
<1>4. /\ a \o b \in Seq(S) /\ Len(a \o b) = Len(s) - 1
      /\ \A j \in 1 .. Len(s) - 1 : (a \o b)[j] = IF j < i THEN a[j] ELSE b[j - i + 1]
  <2>1. /\ a \o b \in Seq(S) /\ Len(a \o b) = Len(a) + Len(b)
        /\ \A j \in 1 .. Len(a) + Len(b) : (a \o b)[j] = IF j <= Len(a) THEN a[j] ELSE b[j - Len(a)]
    BY <1>1, <1>2, ConcatProperties
  <2>2. Len(a) = i - 1 /\ Len(a) + Len(b) = Len(s) - 1
    BY <1>1, <1>2
  <2>3. \A j \in 1 .. Len(s) - 1 : j - Len(a) = j - i + 1 /\ (j <= Len(a) <=> j < i)
    BY <2>2
  <2> QED BY <2>1, <2>2, <2>3
<1>5. \A j \in 1 .. Len(s) - 1 : j >= i => b[j - i + 1] = s[j + 1]
  <2> SUFFICES ASSUME NEW j \in 1 .. Len(s) - 1, j >= i PROVE b[j - i + 1] = s[j + 1]
    OBVIOUS
  <2>1. PICK q \in 1 .. Len(s) - i : q = j - i + 1
    OBVIOUS
  <2>2. b[q] = s[i + q] /\ i + q = j + 1
    BY <1>2, <2>1
  <2> QED BY <2>1, <2>2
<1> DEFINE r == RemoveAt(s, i)
<1>6. /\ r \in Seq(S) /\ Len(r) = Len(s) - 1
      /\ \A j \in 1 .. Len(s) - 1 : r[j] = IF j < i THEN a[j] ELSE b[j - i + 1]
  BY <1>3, <1>4
<1> HIDE DEF r
<1>7. \A j \in 1 .. Len(s) - 1 : r[j] = IF j < i THEN s[j] ELSE s[j + 1]
  <2> SUFFICES ASSUME NEW j \in 1 .. Len(s) - 1
               PROVE  r[j] = IF j < i THEN s[j] ELSE s[j + 1]
    OBVIOUS
  <2>1. CASE j < i
    <3>1. j \in 1 .. i - 1
      BY <2>1
    <3> QED BY <1>1, <1>6, <2>1, <3>1
  <2>2. CASE ~(j < i)
    <3>1. b[j - i + 1] = s[j + 1]
      BY <1>5, <2>2
    <3> QED BY <1>6, <2>2, <3>1
  <2> QED BY <2>1, <2>2
<1> QED BY <1>6, <1>7 DEF r

(* What is known of a list.                                                 *)
LEMMA ListFacts ==
  ASSUME NEW list, Listing(list)
  PROVE  /\ list \in Seq(MarkType) /\ Len(list) \in Nat /\ Len(list) > 0
         /\ \A k \in 1 .. Len(list) :
              /\ list[k] \in MarkType /\ list[k].line \in Int /\ list[k].line >= -1
         /\ \A i, j \in 1 .. Len(list) : i < j => list[i].line <= list[j].line
<1>1. list \in Seq(MarkType) /\ Len(list) \in Nat /\ Len(list) > 0
  BY DEF Listing
<1>2. \A k \in 1 .. Len(list) : list[k] \in MarkType
  BY <1>1
<1>3. \A k \in 1 .. Len(list) : list[k].line \in Int
  BY <1>2 DEF MarkType
<1>4. list[1].line = -1 /\ \A i, j \in 1 .. Len(list) : i < j => list[i].line <= list[j].line
  BY DEF Listing
<1> HIDE DEF Listing
<1> DEFINE n == Len(list)
<1>5. n \in Nat /\ n > 0
  BY <1>1
<1> HIDE DEF n
<1>6. \A k \in 1 .. n : list[k].line >= -1
  <2> SUFFICES ASSUME NEW k \in 1 .. n PROVE list[k].line >= -1
    OBVIOUS
  <2>1. CASE k = 1
    BY <1>4, <2>1
  <2>2. CASE k # 1
    <3>1. 1 \in 1 .. n /\ 1 < k
      BY <1>5, <2>2
    <3>2. list[1].line <= list[k].line
      BY <1>4, <3>1 DEF n
    <3> QED BY <1>4, <3>2
  <2> QED BY <2>1, <2>2
<1> QED BY <1>1, <1>2, <1>3, <1>4, <1>6 DEF n

(* A bookmark entered at its place keeps the order.                         *)
LEMMA InsertDoes ==
  ASSUME NEW bm, MarksOK(bm), NEW line \in Nat, NEW color \in Colors
  PROVE  Entered(book_mark_insert(bm, line, color))
<1> DEFINE f == book_mark_find(bm, line)
           m == Mark(line, color)
           l == f.list
           p == f.node
           n == Len(l)
           g == InsertAt(l, p + 1, m)
           r == book_mark_insert(bm, line, color)
<1>1. Entered(f) /\ At(f, line)
  BY FindDoes
<1>2. r = [f EXCEPT !.list = g]
  BY DEF book_mark_insert
<1>3. m \in MarkType /\ m.line = line /\ Follows(m)
  BY DEF Mark, MarkType, Follows
<1> HIDE DEF f, m
<1>4. f = [list |-> l, node |-> p] /\ Listing(l) /\ p \in 1 .. n
  BY <1>1 DEF Entered
<1>5. r = [list |-> g, node |-> p]
  BY <1>2, <1>4
<1>6. /\ l \in Seq(MarkType) /\ n \in Nat /\ n > 0
      /\ \A k \in 1 .. n : l[k].line \in Int
      /\ \A i, j \in 1 .. n : i < j => l[i].line <= l[j].line
  BY <1>4, ListFacts
<1>7. l[p].line <= line /\ \A k \in 1 .. n : k > p => l[k].line > line
  BY <1>1 DEF At
<1>8. l[1].line = -1 /\ l[1].c = "none" /\ \A k \in 2 .. n : Follows(l[k])
  BY <1>4 DEF Listing
<1> HIDE DEF l, p, r
<1>9. /\ g \in Seq(MarkType) /\ Len(g) = n + 1
      /\ \A j \in 1 .. n + 1 : g[j] = IF j < p + 1 THEN l[j] ELSE IF j = p + 1 THEN m ELSE l[j - 1]
  <2> DEFINE q == p + 1
  <2>1. q \in 1 .. Len(l) + 1
    BY <1>4
  <2> HIDE DEF q
  <2>2. /\ InsertAt(l, q, m) \in Seq(MarkType) /\ Len(InsertAt(l, q, m)) = Len(l) + 1
        /\ \A j \in 1 .. Len(l) + 1 :
             InsertAt(l, q, m)[j] = IF j < q THEN l[j] ELSE IF j = q THEN m ELSE l[j - 1]
    <3>1. l \in Seq(MarkType) /\ m \in MarkType
      BY <1>3, <1>6
    <3> HIDE DEF g, n
    <3> QED BY <2>1, <3>1, InsertAtDoes
  <2> QED BY <2>2 DEF q
<1> HIDE DEF g, n
<1>10. g[1].line = -1 /\ g[1].c = "none"
  BY <1>4, <1>6, <1>8, <1>9
<1>11. ASSUME NEW k \in 2 .. n + 1 PROVE Follows(g[k])
  <2>1. CASE k < p + 1
    BY <1>4, <1>6, <1>8, <1>9, <2>1
  <2>2. CASE k = p + 1
    BY <1>3, <1>4, <1>6, <1>9, <2>2
  <2>3. CASE k > p + 1
    <3>1. PICK q \in 2 .. n : q = k - 1
      BY <1>4, <1>6, <2>3
    <3> QED BY SMTT(60), <1>4, <1>6, <1>8, <1>9, <2>3, <3>1
  <2> QED BY <1>4, <1>6, <2>1, <2>2, <2>3
<1>12. ASSUME NEW k \in 1 .. n + 1
       PROVE  /\ g[k].line \in Int
              /\ k < p + 1 => g[k].line = l[k].line /\ g[k].line <= line
              /\ k = p + 1 => g[k].line = line
              /\ k > p + 1 => g[k].line > line
              /\ k > p + 1 => \E q \in 1 .. n : q = k - 1 /\ g[k].line = l[q].line
  <2>1. CASE k < p + 1
    <3>1. k \in 1 .. n /\ (k = p \/ k < p) /\ g[k] = l[k]
      BY <1>4, <1>6, <1>9, <2>1
    <3>2. l[k].line <= l[p].line /\ l[k].line \in Int /\ l[p].line \in Int
      BY <1>4, <1>6, <3>1
    <3>3. l[k].line <= line
      BY <1>7, <3>2
    <3> QED BY <1>4, <2>1, <3>1, <3>2, <3>3
  <2>2. CASE k = p + 1
    BY <1>3, <1>4, <1>6, <1>9, <2>2
  <2>3. CASE k > p + 1
    <3>1. PICK q \in 1 .. n : q = k - 1 /\ q > p
      BY <1>4, <1>6, <2>3
    <3>2. g[k] = l[q]
      BY <1>4, <1>6, <1>9, <2>3, <3>1
    <3>3. l[q].line > line /\ l[q].line \in Int
      BY <1>6, <1>7, <3>1
    <3> QED BY <1>4, <2>3, <3>1, <3>2, <3>3
  <2> QED BY <1>4, <1>6, <2>1, <2>2, <2>3
<1>13. ASSUME NEW i \in 1 .. n + 1, NEW j \in 1 .. n + 1, i < j
       PROVE  g[i].line <= g[j].line
  <2>1. CASE j < p + 1
    <3>1. i \in 1 .. n /\ j \in 1 .. n /\ i < p + 1
      BY <1>4, <1>6, <1>13, <2>1
    <3>2. g[i].line = l[i].line /\ g[j].line = l[j].line
      BY <1>12, <2>1, <3>1
    <3> QED BY <1>6, <1>13, <3>1, <3>2
  <2>2. CASE i > p + 1
    <3>1. j > p + 1
      BY <1>4, <1>13, <2>2
    <3>2. PICK q \in 1 .. n : q = i - 1 /\ g[i].line = l[q].line
      BY <1>12, <2>2
    <3>3. PICK r2 \in 1 .. n : r2 = j - 1 /\ g[j].line = l[r2].line
      BY <1>12, <3>1
    <3> QED BY <1>6, <1>13, <3>2, <3>3
  <2>3. CASE i <= p + 1 /\ j >= p + 1
    <3>1. g[i].line <= line /\ g[j].line >= line /\ g[i].line \in Int /\ g[j].line \in Int
      BY <1>4, <1>12, <2>3
    <3> QED BY <3>1
  <2> QED BY <1>4, <1>6, <2>1, <2>2, <2>3
<1>14. Listing(g)
  BY SMTT(60), <1>6, <1>9, <1>10, <1>11, <1>13 DEF Listing
<1>15. p \in 1 .. Len(g)
  BY <1>4, <1>6, <1>9
<1> QED BY <1>5, <1>14, <1>15 DEF Entered, r

(* Only a list of the imaginary bookmark alone is cleared.                  *)
LEMMA ClearedDoes ==
  ASSUME NEW bm, Entered(bm)
  PROVE  MarksOK(Cleared(bm))
BY DEF Cleared, MarksOK

(* A bookmark taken out.                                                    *)
LEMMA ClearDoes ==
  ASSUME NEW bm, MarksOK(bm), NEW line \in Nat, NEW color \in Colors
  PROVE  MarksOK(book_mark_clear(bm, line, color))
<1> DEFINE f == book_mark_find(bm, line)
           list == bm.list
           hits == {k \in 1 .. f.node : list[k].line = line /\ list[k].c = color}
           x == Max(hits)
           g == RemoveAt(list, x)
           r == book_mark_clear(bm, line, color)
           n == Len(list)
<1>1. CASE bm = NoMarks
  BY <1>1 DEF book_mark_clear, MarksOK
<1>2. CASE bm # NoMarks
  <2>1. Entered(f) /\ f.list = list
    BY <1>2, FindDoes
  <2>2. r = IF hits = {} THEN Cleared(f) ELSE Cleared([list |-> g, node |-> x - 1])
    BY <1>2 DEF book_mark_clear
  <2> HIDE DEF f, r
  <2>3. Listing(list) /\ f.node \in 1 .. n
    BY <2>1 DEF Entered
  <2> HIDE DEF list
  <2>4. /\ list \in Seq(MarkType) /\ n \in Nat /\ n > 0
        /\ \A k \in 1 .. n : list[k].line \in Int
        /\ \A i, j \in 1 .. n : i < j => list[i].line <= list[j].line
    BY <2>3, ListFacts
  <2>5. list[1].line = -1 /\ list[1].c = "none" /\ \A k \in 2 .. n : Follows(list[k])
    BY <2>3 DEF Listing
  <2>6. CASE hits = {}
    BY <2>1, <2>2, <2>6, ClearedDoes DEF r
  <2>7. CASE hits # {}
    <3>1. x \in 2 .. n
      <4>1. hits \in SUBSET (0 .. n)
        BY <2>3, <2>4
      <4>2. 1 \notin hits
        BY <2>5
      <4>3. \A h \in hits : h \in 1 .. n
        BY <2>3, <2>4
      <4> HIDE DEF hits, n
      <4>4. PICK h \in hits : \A y \in hits : y <= h
        BY <2>4, <2>7, <4>1, GreatestIn
      <4>5. x \in hits
        BY <4>4 DEF Max
      <4> HIDE DEF x
      <4> QED BY <2>4, <4>2, <4>3, <4>5
    <3> HIDE DEF x, hits
    <3>2. /\ g \in Seq(MarkType) /\ Len(g) = n - 1
          /\ \A j \in 1 .. n - 1 : g[j] = IF j < x THEN list[j] ELSE list[j + 1]
      <4>1. x \in 1 .. Len(list)
        BY <3>1
      <4> QED BY <2>4, <4>1, RemoveAtDoes
    <3> HIDE DEF g, n
    <3>3. ASSUME NEW j \in 1 .. n - 1
          PROVE  \E q \in 1 .. n : q = (IF j < x THEN j ELSE j + 1) /\ g[j] = list[q]
      <4>1. PICK q \in 1 .. n : q = (IF j < x THEN j ELSE j + 1)
        BY <2>4, <3>1
      <4> QED BY <3>2, <4>1
    <3>4. \A k \in 2 .. n - 1 : Follows(g[k])
      <4> SUFFICES ASSUME NEW k \in 2 .. n - 1 PROVE Follows(g[k])
        OBVIOUS
      <4>1. PICK q \in 1 .. n : q = (IF k < x THEN k ELSE k + 1) /\ g[k] = list[q]
        BY <2>4, <3>3
      <4>2. q \in 2 .. n
        BY <4>1
      <4> QED BY <2>5, <4>1, <4>2
    <3>5. ASSUME NEW i \in 1 .. n - 1, NEW j \in 1 .. n - 1, i < j
          PROVE  g[i].line <= g[j].line
      <4>1. PICK p \in 1 .. n : p = (IF i < x THEN i ELSE i + 1) /\ g[i] = list[p]
        BY <3>3
      <4>2. PICK q \in 1 .. n : q = (IF j < x THEN j ELSE j + 1) /\ g[j] = list[q]
        BY <3>3
      <4>3. p < q
        BY <2>4, <3>1, <3>5, <4>1, <4>2
      <4> QED BY <2>4, <4>1, <4>2, <4>3
    <3>6. g[1] = list[1] /\ n - 1 > 0
      <4>1. 1 \in 1 .. n - 1 /\ 1 < x
        BY <2>4, <3>1
      <4> QED BY <3>2, <4>1
    <3>7. Listing(g)
      BY <2>4, <2>5, <3>2, <3>4, <3>5, <3>6 DEF Listing
    <3>8. x - 1 \in 1 .. Len(g)
      BY <2>4, <3>1, <3>2
    <3>9. Entered([list |-> g, node |-> x - 1])
      BY <3>7, <3>8 DEF Entered
    <3> QED BY <2>2, <2>7, <3>9, ClearedDoes DEF r
  <2> QED BY <2>6, <2>7
<1> QED BY <1>1, <1>2

(* The bookmarks of some colors flushed.                                    *)
LEMMA FlushDoes ==
  ASSUME NEW bm, MarksOK(bm), NEW colors \in SUBSET Colors
  PROVE  MarksOK(book_mark_flush(bm, colors))
<1> DEFINE list == bm.list
           n == Len(list)
           kept == {k \in DOMAIN list : list[k].c \notin colors}
           g == Only(list, kept)
           r == book_mark_flush(bm, colors)
<1>1. CASE bm = NoMarks
  BY <1>1 DEF book_mark_flush, MarksOK
<1>2. CASE bm # NoMarks
  <2>1. Listing(list) /\ r = Cleared([list |-> g, node |-> 1])
    BY <1>2 DEF MarksOK, Entered, book_mark_flush
  <2> HIDE DEF list, r
  <2>2. /\ list \in Seq(MarkType) /\ n \in Nat /\ n > 0
        /\ \A k \in 1 .. n : list[k] \in MarkType /\ list[k].line \in Int
        /\ \A i, j \in 1 .. n : i < j => list[i].line <= list[j].line
    BY <2>1, ListFacts
  <2>3. list[1].line = -1 /\ list[1].c = "none" /\ \A k \in 2 .. n : Follows(list[k])
    BY <2>1 DEF Listing
  <2>4. 1 \in kept
    <3>1. "none" \notin colors
      BY DEF Colors
    <3> QED BY <2>2, <2>3, <3>1
  <2> HIDE DEF kept
  <2>6. PICK m \in Nat : \E at \in [1 .. m -> 1 .. n] :
          /\ g \in Seq(MarkType) /\ Len(g) = m
          /\ \A i \in 1 .. m : g[i] = list[at[i]]
          /\ \A i \in 1 .. m : at[i] \in kept
          /\ \A i, j \in 1 .. m : i < j => at[i] < at[j]
          /\ \A k \in 1 .. n : k \in kept => \E i \in 1 .. m : at[i] = k
    <3> DEFINE ll == list
               places == kept
    <3>1. ll \in Seq(MarkType)
      BY <2>2
    <3> HIDE DEF ll, places
    <3>2. \E m \in Nat : \E at \in [1 .. m -> 1 .. Len(ll)] :
             /\ Only(ll, places) \in Seq(MarkType) /\ Len(Only(ll, places)) = m
             /\ \A i \in 1 .. m : Only(ll, places)[i] = ll[at[i]]
             /\ \A i \in 1 .. m : at[i] \in places
             /\ \A i, j \in 1 .. m : i < j => at[i] < at[j]
             /\ \A k \in 1 .. Len(ll) : k \in places => \E i \in 1 .. m : at[i] = k
      BY SMTT(60), <3>1, OnlyDoes
    <3> QED BY <3>2 DEF ll, places
  <2>8. PICK at \in [1 .. m -> 1 .. n] :
          /\ g \in Seq(MarkType) /\ Len(g) = m
          /\ \A i \in 1 .. m : g[i] = list[at[i]]
          /\ \A i, j \in 1 .. m : i < j => at[i] < at[j]
          /\ \A k \in 1 .. n : k \in kept => \E i \in 1 .. m : at[i] = k
    BY <2>6
  <2> HIDE DEF g, n
  <2>7. 1 \in 1 .. m /\ at[1] = 1
    <3>1. PICK i \in 1 .. m : at[i] = 1
      BY <2>2, <2>4, <2>8
    <3>2. 1 \in 1 .. m
      OBVIOUS
    <3>3. ~(1 < i)
      <4> SUFFICES ASSUME 1 < i PROVE FALSE
        OBVIOUS
      <4>1. at[1] < at[i] /\ at[1] \in 1 .. n
        BY <2>8, <3>2
      <4> QED BY <2>2, <3>1, <4>1
    <3>4. i = 1
      BY <3>3
    <3> QED BY <3>1, <3>2, <3>4
  <2>9. \A k \in 2 .. m : Follows(g[k])
    <3> SUFFICES ASSUME NEW k \in 2 .. m PROVE Follows(g[k])
      OBVIOUS
    <3>1. k \in 1 .. m /\ 1 < k
      OBVIOUS
    <3>2. at[1] < at[k] /\ at[k] \in 1 .. n
      BY <2>8, <2>7, <3>1
    <3>3. at[k] \in 2 .. n
      BY <2>2, <2>7, <3>2
    <3> QED BY <2>3, <2>8, <3>1, <3>3
  <2>10. \A i, j \in 1 .. m : i < j => g[i].line <= g[j].line
    <3> SUFFICES ASSUME NEW i \in 1 .. m, NEW j \in 1 .. m, i < j PROVE g[i].line <= g[j].line
      OBVIOUS
    <3>1. at[i] < at[j] /\ at[i] \in 1 .. n /\ at[j] \in 1 .. n
      BY <2>8
    <3> QED BY <2>2, <2>8, <3>1
  <2>11. Listing(g)
    BY <2>3, <2>7, <2>8, <2>9, <2>10 DEF Listing
  <2>12. Entered([list |-> g, node |-> 1])
    BY <2>7, <2>8, <2>11 DEF Entered
  <2> QED BY <2>1, <2>12, ClearedDoes DEF r
<1> QED BY <1>1, <1>2

(* Bookmarks entered one after the other: the recursion of Inserted.        *)
LEMMA InsertedDoes ==
  ASSUME NEW n \in Nat, NEW marks, marks = [k \in 1 .. n |-> marks[k]],
         \A k \in 1 .. n : marks[k].line \in Nat /\ marks[k].c \in Colors
  PROVE  MarksOK(Inserted(marks))
<1> DEFINE D(v, k) == book_mark_insert(v, marks[k].line, marks[k].c)
           R(f) == [k \in 0 .. n |-> IF k = 0 THEN NoMarks ELSE D(f[k - 1], k)]
           C == CHOOSE f : f = R(f)
           Run(F, k) == /\ F = [i \in 0 .. k |-> F[i]] /\ F[0] = NoMarks
                        /\ \A i \in 1 .. k : F[i] = D(F[i - 1], i)
           T == {k \in Nat : \E F : Run(F, k)}
           U == {k \in Nat : k <= n => MarksOK(C[k])}
<1>1. Inserted(marks) = C[n]
  <2>1. Len(marks) = n
    <3>1. DOMAIN marks = 1 .. n
      OBVIOUS
    <3>2. marks \in Seq({marks[k] : k \in 1 .. n})
      OBVIOUS
    <3> QED BY <3>1, <3>2, LenProperties
  <2> QED BY <2>1 DEF Inserted
<1>2. 0 \in T
  <2> HIDE DEF D
  <2>1. Run([i \in 0 .. 0 |-> NoMarks], 0)
    OBVIOUS
  <2> HIDE DEF Run
  <2> QED BY <2>1
<1>3. ASSUME NEW k \in Nat, k \in T PROVE k + 1 \in T
  <2> HIDE DEF D
  <2>1. PICK F : Run(F, k)
    BY <1>3
  <2>2. PICK j \in Nat : j = k + 1 /\ j - 1 = k /\ j # 0 /\ k \in 0 .. k
    OBVIOUS
  <2> HIDE DEF T
  <2> DEFINE e == D(F[k], j)
             G == [i \in 0 .. j |-> IF i = j THEN e ELSE F[i]]
  <2> HIDE DEF e
  <2>3. G = [i \in 0 .. j |-> G[i]] /\ G[0] = NoMarks
    BY <2>1, <2>2
  <2>4. ASSUME NEW i \in 1 .. j PROVE G[i] = D(G[i - 1], i)
    <3>1. i - 1 \in 0 .. j /\ i - 1 # j /\ i \in 0 .. j
      BY <2>2
    <3>2. G[i - 1] = F[i - 1] /\ G[i] = IF i = j THEN e ELSE F[i]
      BY <3>1
    <3>3. i # j => i \in 1 .. k
      BY <2>2
    <3>4. i # j => F[i] = D(F[i - 1], i)
      BY <2>1, <3>3
    <3> HIDE DEF G, Run
    <3> QED BY <2>2, <3>2, <3>4 DEF e
  <2> HIDE DEF G
  <2>5. Run(G, j)
    BY <2>3, <2>4
  <2> HIDE DEF Run
  <2>6. j \in T
    BY <2>5 DEF T
  <2> QED BY <2>2, <2>6
<1>4. PICK F : Run(F, n)
  <2>1. n \in T
    <3> HIDE DEF T
    <3> QED BY <1>2, <1>3, NatInduct
  <2> HIDE DEF Run
  <2> QED BY <2>1
<1>5. C = R(C)
  <2>1. F = R(F)
    <3> HIDE DEF D
    <3>1. F = [i \in 0 .. n |-> F[i]]
      BY <1>4
    <3>2. \A i \in 0 .. n : F[i] = IF i = 0 THEN NoMarks ELSE D(F[i - 1], i)
      <4>1. \A i \in 0 .. n : i # 0 => i \in 1 .. n
        OBVIOUS
      <4> QED BY <1>4, <4>1
    <3> HIDE DEF Run
    <3> QED BY <3>1, <3>2
  <2> HIDE DEF R
  <2> QED BY <2>1
<1> HIDE DEF C
<1>6. \A k \in 0 .. n : C[k] = IF k = 0 THEN NoMarks ELSE D(C[k - 1], k)
  <2> DEFINE d == R(C)
  <2> HIDE DEF D
  <2>1. \A k \in 0 .. n : d[k] = IF k = 0 THEN NoMarks ELSE D(C[k - 1], k)
    OBVIOUS
  <2> HIDE DEF d
  <2>2. C = d
    BY <1>5 DEF d
  <2> QED BY <2>1, <2>2
<1> HIDE DEF R, Run, T
<1>7. 0 \in U
  BY <1>6 DEF MarksOK
<1>8. ASSUME NEW k \in Nat, k \in U PROVE k + 1 \in U
  <2> SUFFICES ASSUME k + 1 <= n PROVE MarksOK(C[k + 1])
    OBVIOUS
  <2>1. MarksOK(C[k])
    BY <1>8
  <2> HIDE DEF U
  <2>2. PICK j \in 1 .. n : j = k + 1 /\ j - 1 = k
    OBVIOUS
  <2>3. marks[j].line \in Nat /\ marks[j].c \in Colors
    BY <2>2
  <2>4. C[j] = D(C[j - 1], j)
    <3>1. j \in 0 .. n /\ j # 0
      BY <2>2
    <3> HIDE DEF D
    <3> QED BY <1>6, <3>1
  <2> DEFINE b == C[k]
             l == marks[j].line
             c == marks[j].c
  <2>5. C[j] = book_mark_insert(b, l, c)
    BY <2>2, <2>4
  <2> HIDE DEF b, l, c
  <2>6. Entered(book_mark_insert(b, l, c))
    BY <2>1, <2>3, InsertDoes DEF b, l, c
  <2> QED BY <2>2, <2>5, <2>6 DEF MarksOK
<1>9. n \in U
  <2> HIDE DEF U
  <2> QED BY <1>7, <1>8, NatInduct
<1> QED BY <1>1, <1>9

(* The bookmarks behind the cursor's line are moved with their lines.       *)
LEMMA ShiftDoes ==
  ASSUME BmInv, NEW d \in {-1, 1}, NEW first \in {curs_line, curs_line + 1},
         d = 1 => first = curs_line + 1, Shift(d, first)
  PROVE  MarksOK(book_mark')
<1> DEFINE f == book_mark_find(book_mark, curs_line)
           list == f.list
           p == f.node
           n == Len(list)
           t(k) == list[k]
           ln(k) == IF k > p THEN list[k].line + d ELSE list[k].line
           o(k) == IF list[k].of >= first THEN list[k].of + d ELSE list[k].of
           a(k) == list[k].astray \/ (d = -1 /\ list[k].line = curs_line /\ list[k].of >= first)
           g == [k \in 1 .. n |-> [line |-> ln(k), c |-> list[k].c, of |-> o(k), astray |-> a(k)]]
<1>1. CASE book_mark = NoMarks
  BY <1>1 DEF Shift, MarksOK
<1>2. CASE book_mark # NoMarks
  <2>1. Entered(f) /\ At(f, curs_line) /\ curs_line \in Nat
    <3>1. curs_line \in Int /\ curs_line >= -1 /\ curs_line \in Nat /\ MarksOK(book_mark)
      BY DEF BmInv
    <3> QED BY <3>1, FindDoes
  <2>2. book_mark' = MovedBehind(f, p, d, first)
    BY <1>2 DEF Shift
  <2> HIDE DEF f
  <2>3. Listing(list) /\ p \in 1 .. n /\ f = [list |-> list, node |-> p]
    BY <2>1 DEF Entered
  <2> DEFINE l == list
             q == p
  <2>4. /\ l \in Seq(MarkType) /\ n \in Nat /\ n > 0
        /\ \A k \in 1 .. n : l[k] \in MarkType /\ l[k].line \in Int
        /\ \A i, j \in 1 .. n : i < j => l[i].line <= l[j].line
        /\ l[1].line = -1 /\ l[1].c = "none" /\ \A k \in 2 .. n : Follows(l[k])
    <3>1. l[1].line = -1 /\ l[1].c = "none" /\ \A k \in 2 .. n : Follows(l[k])
      BY <2>3 DEF Listing
    <3> QED BY <2>3, <3>1, ListFacts
  <2>5. \A k \in 1 .. n : IF k > p THEN list[k].line > curs_line ELSE list[k].line <= curs_line
    <3> SUFFICES ASSUME NEW k \in 1 .. n
                 PROVE  IF k > p THEN list[k].line > curs_line ELSE list[k].line <= curs_line
      OBVIOUS
    <3>1. list[p].line <= curs_line /\ (k > p => list[k].line > curs_line)
      BY <2>1 DEF At
    <3>2. k < p => list[k].line <= list[p].line /\ list[k].line \in Int /\ list[p].line \in Int
      BY <2>3, <2>4
    <3> HIDE DEF list, p, n
    <3>3. ~(k > p) => k = p \/ k < p
      BY <2>3, <2>4
    <3> QED BY <2>1, <3>1, <3>2, <3>3
  <2>6. book_mark' = [list |-> g, node |-> p]
    <3>1. \A k \in 1 .. n :
            LET m == list[k]
            IN [m EXCEPT !.line = IF k > p THEN @ + d ELSE @,
                     !.of = IF m.of >= first THEN @ + d ELSE @,
                     !.astray = @ \/ (d = -1 /\ m.line = curs_line /\ m.of >= first)]
               = [line |-> ln(k), c |-> list[k].c, of |-> o(k), astray |-> a(k)]
      <4> SUFFICES ASSUME NEW k \in 1 .. n, NEW m, m = list[k]
                   PROVE [m EXCEPT !.line = IF k > p THEN @ + d ELSE @,
                     !.of = IF m.of >= first THEN @ + d ELSE @,
                     !.astray = @ \/ (d = -1 /\ m.line = curs_line /\ m.of >= first)]
               = [line |-> ln(k), c |-> list[k].c, of |-> o(k), astray |-> a(k)]
        OBVIOUS
      <4>1. PICK x, c, y, z : m = [line |-> x, c |-> c, of |-> y, astray |-> z]
        BY <2>4 DEF MarkType
      <4> DEFINE A == ln(k)
                 B == o(k)
                 Z == a(k)
      <4>2. /\ m.line = x /\ list[k].c = c /\ m.of = y
            /\ A = IF k > p THEN x + d ELSE x
            /\ B = IF y >= first THEN y + d ELSE y
            /\ Z = (m.astray \/ (d = -1 /\ m.line = curs_line /\ m.of >= first))
        <5>1. m.line = x /\ list[k].c = c /\ m.of = y
          BY <4>1
        <5>2. A = IF k > p THEN x + d ELSE x
          BY <4>1
        <5>3. B = IF y >= first THEN y + d ELSE y
          BY <4>1
        <5>4. Z = (m.astray \/ (d = -1 /\ m.line = curs_line /\ m.of >= first))
          <6> HIDE DEF list
          <6> QED OBVIOUS
        <5> HIDE DEF A, B, Z
        <5> QED BY <5>1, <5>2, <5>3, <5>4
      <4> HIDE DEF A, B, Z
      <4>3. [[[m EXCEPT !.line = A] EXCEPT !.of = B] EXCEPT !.astray = Z]
             = [line |-> A, c |-> c, of |-> B, astray |-> Z]
        <5> DEFINE m1 == [m EXCEPT !.line = A]
                   m2 == [m1 EXCEPT !.of = B]
        <5>1. m1 = [line |-> A, c |-> c, of |-> y, astray |-> z]
          BY <4>1
        <5> HIDE DEF m1
        <5>2. m2 = [line |-> A, c |-> c, of |-> B, astray |-> z]
          BY <5>1
        <5> HIDE DEF m2
        <5>3. [m2 EXCEPT !.astray = Z] = [line |-> A, c |-> c, of |-> B, astray |-> Z]
          BY <5>2
        <5> QED BY <5>3 DEF m1, m2
      <4>4. [m EXCEPT !.line = IF k > p THEN @ + d ELSE @,
                     !.of = IF m.of >= first THEN @ + d ELSE @,
                     !.astray = @ \/ (d = -1 /\ m.line = curs_line /\ m.of >= first)]
             = [m EXCEPT !.line = A, !.of = B, !.astray = Z]
        BY <4>1, <4>2
      <4> QED BY <4>2, <4>3, <4>4 DEF A, B, Z
    <3> DEFINE h == [k \in 1 .. n |->
            LET m == list[k]
            IN [m EXCEPT !.line = IF k > p THEN @ + d ELSE @,
                     !.of = IF m.of >= first THEN @ + d ELSE @,
                     !.astray = @ \/ (d = -1 /\ m.line = curs_line /\ m.of >= first)]]
    <3>2. MovedBehind(f, p, d, first) = [f EXCEPT !.list = h]
      BY DEF MovedBehind
    <3>3. h = g
      BY <3>1
    <3> HIDE DEF g, h
    <3> QED BY <2>2, <2>3, <3>2, <3>3
  <2>7. Len(g) = n /\ DOMAIN g = 1 .. n
    BY <2>4
  <2>8. ASSUME NEW k \in 1 .. n
        PROVE  /\ g[k] \in MarkType /\ g[k].line = ln(k) /\ g[k].of = o(k) /\ g[k].astray = a(k)
               /\ g[k].c = list[k].c
    <3>1. /\ list[k].line \in Int /\ list[k].of \in Int /\ list[k].astray \in BOOLEAN
          /\ list[k].c \in Colors \cup {"none"}
      BY <2>4 DEF MarkType
    <3>2. ln(k) \in Int /\ o(k) \in Int /\ a(k) \in BOOLEAN
      BY <3>1
    <3>3. g[k] = [line |-> ln(k), c |-> list[k].c, of |-> o(k), astray |-> a(k)]
      OBVIOUS
    <3> HIDE DEF g, ln, o, a
    <3> QED BY <3>1, <3>2, <3>3 DEF MarkType
  <2>9. g \in Seq(MarkType)
    <3>1. g = [k \in 1 .. n |-> g[k]]
      OBVIOUS
    <3> HIDE DEF g
    <3> QED BY <2>4, <2>8, <3>1, FunctionIsSeq
  <2> HIDE DEF g
  <2>10. ASSUME NEW k \in 2 .. n PROVE Follows(g[k])
    <3>1. k \in 1 .. n
      OBVIOUS
    <3>2. Follows(list[k]) /\ list[k] \in MarkType
      BY <2>4
    <3>3. list[k].line \in Int /\ list[k].of \in Int /\ list[k].astray \in BOOLEAN
      BY <3>2 DEF MarkType
    <3>4. g[k].line = ln(k) /\ g[k].of = o(k) /\ g[k].astray = a(k)
      BY <2>8, <3>1
    <3>5. IF k > p THEN list[k].line > curs_line ELSE list[k].line <= curs_line
      BY <2>5, <3>1
    <3>6. first = curs_line \/ first = curs_line + 1
      OBVIOUS
    <3> DEFINE x == list[k].line
               y == list[k].of
    <3>7. a(k) \/ ln(k) = o(k)
      <4>1. CASE list[k].astray
        BY <4>1
      <4>2. CASE ~list[k].astray
        <5>1. x = y
          BY <3>2, <4>2 DEF Follows
        <5>2. CASE k > p
          <6>1. x > curs_line /\ x \in Int
            BY <3>3, <3>5, <5>2
          <6>2. y >= first
            BY <2>1, <3>6, <5>1, <6>1
          <6> QED BY <5>1, <5>2, <6>2
        <5>3. CASE ~(k > p)
          <6>1. x <= curs_line /\ x \in Int
            BY <3>3, <3>5, <5>3
          <6>2. CASE y >= first
            <7>1. x = curs_line /\ d = -1
              BY <2>1, <3>6, <5>1, <6>1, <6>2
            <7> QED BY <6>2, <7>1
          <6> QED BY <5>1, <5>3, <6>2
        <5> QED BY <5>2, <5>3
      <4> QED BY <4>1, <4>2
    <3> HIDE DEF a, ln, o
    <3> QED BY <3>4, <3>7 DEF Follows
  <2>11. ASSUME NEW i \in 1 .. n, NEW j \in 1 .. n, i < j PROVE g[i].line <= g[j].line
    <3>1. g[i].line = ln(i) /\ g[j].line = ln(j)
      BY <2>8
    <3>2. list[i].line <= list[j].line /\ list[i].line \in Int /\ list[j].line \in Int
      BY <2>4, <2>11
    <3>3. /\ IF i > p THEN list[i].line > curs_line ELSE list[i].line <= curs_line
          /\ IF j > p THEN list[j].line > curs_line ELSE list[j].line <= curs_line
      BY <2>5
    <3>4. i > p => j > p
      BY <2>3, <2>4, <2>11
    <3> QED BY SMTT(60), <2>1, <3>1, <3>2, <3>3, <3>4
  <2>12. g[1].line = -1 /\ g[1].c = "none" /\ 1 \in 1 .. n
    <3>1. 1 \in 1 .. n /\ ~(1 > p)
      BY <2>3, <2>4
    <3> QED BY <2>4, <2>8, <3>1
  <2> HIDE DEF list, p
  <2>13. Listing(g)
    BY <2>4, <2>7, <2>9, <2>10, <2>11, <2>12 DEF Listing
  <2>14. Entered(book_mark')
    BY <2>3, <2>6, <2>7, <2>13 DEF Entered
  <2> QED BY <2>14 DEF MarksOK
<1> QED BY <1>1, <1>2

(* The lesser of two numbers, and the place a bookmark is visited at.       *)
LEMMA VisitDoes ==
  ASSUME BmInv, NEW bm, Entered(bm), NEW p \in Nat \ {0}, Visits(bm, p)
  PROVE  curs_line' \in 0 .. last_line
<1>1. last_line \in Nat /\ curs_line \in 0 .. last_line
  BY DEF BmInv
<1>2. CASE p <= Len(bm.list) /\ bm.list[p].line >= 0
  <2> DEFINE l == bm.list[p].line
             T == {l, last_line}
  <2>1. Listing(bm.list)
    BY DEF Entered
  <2>2. \A k \in 1 .. Len(bm.list) : bm.list[k].line \in Int
    BY <2>1, ListFacts
  <2>3. Len(bm.list) \in Nat
    BY <2>1, ListFacts
  <2>4. l \in Nat
    BY <1>2, <2>2, <2>3
  <2>5. curs_line' = Min(T)
    BY <1>2 DEF Visits
  <2> HIDE DEF l
  <2>6. T \in SUBSET Nat /\ T # {} /\ last_line \in T
    BY <1>1, <2>4
  <2> HIDE DEF T
  <2>7. PICK x \in T : \A y \in T : x <= y
    BY <2>6, LeastNat
  <2>8. Min(T) \in T /\ \A y \in T : Min(T) <= y
    BY <2>7 DEF Min
  <2>9. PICK m \in Nat : m = Min(T) /\ m <= last_line
    BY <2>6, <2>8
  <2> QED BY <1>1, <2>5, <2>9
<1>3. CASE ~(p <= Len(bm.list) /\ bm.list[p].line >= 0)
  BY <1>1, <1>3 DEF Visits
<1> QED BY <1>2, <1>3

(* The bookmarks that outlast the window, entered anew.                     *)
LEMMA RestoredDoes ==
  ASSUME NEW bm, MarksOK(bm)
  PROVE  MarksOK(Inserted(Serialized(bm)))
<1> DEFINE f == book_mark_find(bm, 0)
           list == f.list
           places == {k \in f.node .. Len(list) : list[k].c = "BOOK_MARK_COLOR" /\ list[k].line >= 0}
           g == Serialized(bm)
<1>1. Entered(f)
  <2>1. 0 \in Int /\ 0 >= -1
    OBVIOUS
  <2> QED BY <2>1, FindDoes
<1>2. g = Only(list, places)
  BY DEF Serialized
<1> HIDE DEF f, g
<1>3. Listing(list)
  BY <1>1 DEF Entered
<1> HIDE DEF list
<1>4. list \in Seq(MarkType) /\ \A k \in 1 .. Len(list) : list[k].line \in Int
  BY <1>3, ListFacts
<1>5. \A k \in places : list[k].c \in Colors /\ list[k].line >= 0
  BY DEF Colors
<1> HIDE DEF places
<1>6. PICK n \in Nat : \E at \in [1 .. n -> 1 .. Len(list)] :
        /\ g \in Seq(MarkType) /\ Len(g) = n
        /\ \A i \in 1 .. n : g[i] = list[at[i]]
        /\ \A i \in 1 .. n : at[i] \in places
  <2>1. \E n \in Nat : \E at \in [1 .. n -> 1 .. Len(list)] :
          /\ Only(list, places) \in Seq(MarkType) /\ Len(Only(list, places)) = n
          /\ \A i \in 1 .. n : Only(list, places)[i] = list[at[i]]
          /\ \A i \in 1 .. n : at[i] \in places
          /\ \A i, j \in 1 .. n : i < j => at[i] < at[j]
          /\ \A k \in 1 .. Len(list) : k \in places => \E i \in 1 .. n : at[i] = k
    <3> DEFINE ll == list
               ps == places
    <3>1. ll \in Seq(MarkType)
      BY <1>4
    <3> HIDE DEF ll, ps
    <3>2. \E n \in Nat : \E at \in [1 .. n -> 1 .. Len(ll)] :
             /\ Only(ll, ps) \in Seq(MarkType) /\ Len(Only(ll, ps)) = n
             /\ \A i \in 1 .. n : Only(ll, ps)[i] = ll[at[i]]
             /\ \A i \in 1 .. n : at[i] \in ps
             /\ \A i, j \in 1 .. n : i < j => at[i] < at[j]
             /\ \A k \in 1 .. Len(ll) : k \in ps => \E i \in 1 .. n : at[i] = k
      BY <3>1, OnlyDoes
    <3> QED BY <3>2 DEF ll, ps
  <2> QED BY <1>2, <2>1
<1>7. PICK at \in [1 .. n -> 1 .. Len(list)] :
        /\ g \in Seq(MarkType) /\ Len(g) = n
        /\ \A i \in 1 .. n : g[i] = list[at[i]]
        /\ \A i \in 1 .. n : at[i] \in places
  BY <1>6
<1>8. \A i \in 1 .. n : g[i].line \in Nat /\ g[i].c \in Colors
  <2> SUFFICES ASSUME NEW i \in 1 .. n PROVE g[i].line \in Nat /\ g[i].c \in Colors
    OBVIOUS
  <2>1. PICK k \in 1 .. Len(list) : k \in places /\ g[i] = list[k]
    BY <1>7
  <2>2. list[k].line \in Int /\ list[k].line >= 0 /\ list[k].c \in Colors
    BY <1>4, <1>5, <2>1
  <2> QED BY <2>1, <2>2
<1>9. g = [k \in 1 .. n |-> g[k]]
  BY <1>7
<1>10. MarksOK(Inserted(g))
  BY <1>8, <1>9, InsertedDoes
<1> QED BY <1>10 DEF g

(* Every step keeps the list in order, each mark on its line and the cursor *)
(* within the text.                                                         *)
LEMMA BmStep ==
  ASSUME BmInv, [BmNext]_bm_vars
  PROVE  BmInv'
<1>1. last_line \in Nat /\ curs_line \in 0 .. last_line /\ curs_line \in Nat /\ MarksOK(book_mark)
  BY DEF BmInv
<1>2. -1 \in {-1, 1} /\ 1 \in {-1, 1} /\ 1 # -1
  OBVIOUS
<1>3. "BOOK_MARK_COLOR" \in Colors /\ "BOOK_MARK_FOUND_COLOR" \in Colors
  BY DEF Colors
<1>4. SUFFICES MarksOK(book_mark') /\ last_line' \in Nat /\ curs_line' \in 0 .. last_line'
  BY DEF BmInv
<1>5. CASE bm_insert
  <2>1. MarksOK(book_mark')
    BY <1>2, <1>5, ShiftDoes DEF bm_insert
  <2> QED BY <1>1, <1>5, <2>1 DEF bm_insert
<1>6. CASE bm_insert_ahead
  <2>1. MarksOK(book_mark')
    BY <1>2, <1>6, ShiftDoes DEF bm_insert_ahead
  <2> QED BY <1>1, <1>6, <2>1 DEF bm_insert_ahead
<1>7. CASE bm_delete
  <2>1. MarksOK(book_mark')
    BY <1>2, <1>7, ShiftDoes DEF bm_delete
  <2> QED BY <1>1, <1>7, <2>1 DEF bm_delete
<1>8. CASE bm_backspace
  <2>1. MarksOK(book_mark')
    BY <1>2, <1>8, ShiftDoes DEF bm_backspace
  <2> QED BY <1>1, <1>8, <2>1 DEF bm_backspace
<1>9. CASE bm_cursor_move
  BY <1>1, <1>9 DEF bm_cursor_move
<1>10. CASE CK_Bookmark
  <2> DEFINE bm == book_mark_clear(book_mark, curs_line, "BOOK_MARK_FOUND_COLOR")
             f == book_mark_find(bm, curs_line)
             c == book_mark_clear(f, curs_line, "BOOK_MARK_COLOR")
             i == book_mark_insert(bm, curs_line, "BOOK_MARK_COLOR")
  <2>1. book_mark' \in {c, i} /\ UNCHANGED <<curs_line, last_line>>
    BY <1>10 DEF CK_Bookmark, Commanded
  <2>2. MarksOK(bm)
    BY <1>1, <1>3, ClearDoes
  <2> HIDE DEF bm, c
  <2>3. curs_line \in Int /\ curs_line >= -1
    BY <1>1
  <2>4. Entered(f)
    BY <2>2, <2>3, FindDoes
  <2>5. MarksOK(f)
    BY <2>4 DEF MarksOK
  <2> HIDE DEF f
  <2>6. MarksOK(c)
    BY <1>1, <1>3, <2>5, ClearDoes DEF c
  <2>7. Entered(i)
    BY <1>1, <1>3, <2>2, InsertDoes
  <2>8. MarksOK(i)
    BY <2>7 DEF MarksOK
  <2> HIDE DEF i
  <2> QED BY <1>1, <2>1, <2>6, <2>8
<1>11. CASE CK_BookmarkFlush
  <2> DEFINE f == book_mark_flush(book_mark, {"BOOK_MARK_COLOR"})
             g == book_mark_flush(f, {"BOOK_MARK_FOUND_COLOR"})
  <2>1. {"BOOK_MARK_COLOR"} \in SUBSET Colors /\ {"BOOK_MARK_FOUND_COLOR"} \in SUBSET Colors
    BY <1>3
  <2>2. MarksOK(f)
    BY <1>1, <2>1, FlushDoes
  <2>3. book_mark' = g /\ UNCHANGED <<curs_line, last_line>>
    BY <1>11 DEF CK_BookmarkFlush, Commanded
  <2> HIDE DEF f
  <2>4. MarksOK(g)
    BY <2>1, <2>2, FlushDoes
  <2> HIDE DEF g
  <2> QED BY <1>1, <2>3, <2>4
<1>12. ASSUME NEW f, f = book_mark_find(book_mark, curs_line), Commanded(f),
              NEW p \in Nat \ {0}, Visits(f, p)
       PROVE  MarksOK(book_mark') /\ last_line' \in Nat /\ curs_line' \in 0 .. last_line'
  <2>1. curs_line \in Int /\ curs_line >= -1
    BY <1>1
  <2>2. Entered(f)
    BY <1>1, <1>12, <2>1, FindDoes
  <2>3. curs_line' \in 0 .. last_line
    BY <1>12, <2>2, VisitDoes
  <2> QED BY <1>1, <1>12, <2>2, <2>3 DEF Commanded, MarksOK
<1>13. Entered(book_mark_find(book_mark, curs_line))
  <2>1. curs_line \in Int /\ curs_line >= -1
    BY <1>1
  <2> QED BY <1>1, <2>1, FindDoes
<1>14. CASE CK_BookmarkNext
  <2> DEFINE f == book_mark_find(book_mark, curs_line)
  <2>1. Commanded(f) /\ Visits(f, f.node + 1)
    BY <1>14 DEF CK_BookmarkNext
  <2> HIDE DEF f
  <2>2. f.node \in 1 .. Len(f.list) /\ Listing(f.list)
    BY <1>13 DEF Entered, f
  <2>3. PICK p \in Nat \ {0} : p = f.node + 1
    BY <2>2
  <2> QED BY <1>12, <2>1, <2>3 DEF f
<1>15. CASE CK_BookmarkPrev
  <2> DEFINE f == book_mark_find(book_mark, curs_line)
             before == {k \in 1 .. f.node : f.list[k].line # curs_line}
  <2>1. Commanded(f) /\ Visits(f, Max(before))
    BY <1>15 DEF CK_BookmarkPrev
  <2> HIDE DEF f
  <2>2. f.node \in 1 .. Len(f.list) /\ Listing(f.list)
    BY <1>13 DEF Entered, f
  <2>3. f.list[1].line = -1 /\ f.node \in Nat
    BY <2>2, ListFacts DEF Listing
  <2>4. 1 \in before /\ before \in SUBSET (0 .. f.node) /\ before # {}
    BY <1>1, <2>2, <2>3
  <2>5. \A k \in before : k \in Nat \ {0}
    BY <2>3
  <2> HIDE DEF before
  <2>6. PICK x \in before : \A y \in before : y <= x
    BY <2>3, <2>4, GreatestIn
  <2>7. Max(before) \in before
    BY <2>6 DEF Max
  <2>8. PICK p \in Nat \ {0} : p = Max(before)
    BY <2>5, <2>7
  <2> QED BY <1>12, <2>1, <2>8 DEF f
<1>16. CASE bm_do_search
  <2>0. PICK n \in 1 .. MaxMarks : \E lines \in [1 .. n -> 0 .. last_line] :
          /\ Commanded(Inserted([k \in 1 .. n |-> Mark(lines[k], "BOOK_MARK_FOUND_COLOR")]))
          /\ \E k \in 1 .. n : curs_line' = lines[k]
    BY <1>16 DEF bm_do_search
  <2>1. PICK lines \in [1 .. n -> 0 .. last_line] :
          /\ Commanded(Inserted([k \in 1 .. n |-> Mark(lines[k], "BOOK_MARK_FOUND_COLOR")]))
          /\ \E k \in 1 .. n : curs_line' = lines[k]
    BY <2>0
  <2> DEFINE marks == [k \in 1 .. n |-> Mark(lines[k], "BOOK_MARK_FOUND_COLOR")]
  <2>2. n \in Nat
    BY MarksAssumption
  <2>3. \A k \in 1 .. n : marks[k].line \in Nat /\ marks[k].c \in Colors
    BY <1>1, <1>3 DEF Mark
  <2>4. marks = [k \in 1 .. n |-> marks[k]]
    OBVIOUS
  <2>5. book_mark' = Inserted(marks) /\ last_line' = last_line
    BY <2>1 DEF Commanded
  <2> HIDE DEF marks
  <2>6. MarksOK(Inserted(marks))
    BY <2>2, <2>3, <2>4, InsertedDoes
  <2> QED BY <1>1, <2>1, <2>5, <2>6
<1>17. CASE bm_save_and_load_position
  <2>1. book_mark' = Inserted(Serialized(book_mark)) /\ last_line' = last_line
        /\ curs_line' \in 0 .. last_line
    BY <1>17 DEF bm_save_and_load_position, Commanded
  <2>2. MarksOK(Inserted(Serialized(book_mark)))
    BY <1>1, RestoredDoes
  <2> QED BY <1>1, <2>1, <2>2
<1>18. CASE UNCHANGED bm_vars
  BY <1>1, <1>18 DEF bm_vars
<1> QED BY <1>5, <1>6, <1>7, <1>8, <1>9, <1>10, <1>11, <1>14, <1>15, <1>16, <1>17, <1>18 DEF BmNext

(* Whatever line breaks come and go, and whatever bookmarks are set, taken  *)
(* away, flushed, searched for or restored, the list of an editor window    *)
(* stays in order and every bookmark on its line (bookmark.c), but for those *)
(* of a line that a backspace has joined to the one before.                 *)
THEOREM MarksAreFollowed == BmSpec => []MarksFollow
<1>1. BmInit => BmInv
  <2>1. BmInit => last_line \in Nat /\ curs_line \in 0 .. last_line /\ book_mark = NoMarks
    BY MarksAssumption DEF BmInit
  <2> QED BY <2>1 DEF BmInv, MarksOK
<1>2. BmInv /\ [BmNext]_bm_vars => BmInv'
  BY BmStep
<1>3. BmInv => MarksFollow
  <2> SUFFICES ASSUME BmInv PROVE MarksFollow
    OBVIOUS
  <2>1. CASE book_mark = NoMarks
    BY <2>1 DEF MarksFollow, NoMarks
  <2>2. CASE book_mark # NoMarks
    <3> DEFINE list == book_mark.list
               n == Len(list)
    <3>1. Listing(list) /\ book_mark.node \in 1 .. n
      BY <2>2 DEF BmInv, MarksOK, Entered
    <3> HIDE DEF list
    <3>2. list \in Seq(MarkType) /\ n \in Nat /\ n > 0
          /\ \A i, j \in 1 .. n : i < j => list[i].line <= list[j].line
      BY <3>1, ListFacts
    <3>3. \A k \in 2 .. n : list[k].astray \/ list[k].line = list[k].of
      BY <3>1 DEF Listing, Follows
    <3>4. \A k \in 2 .. n : list[k - 1].line <= list[k].line
      <4> SUFFICES ASSUME NEW k \in 2 .. n PROVE list[k - 1].line <= list[k].line
        OBVIOUS
      <4>1. PICK i \in 1 .. n : i = k - 1 /\ i < k /\ k \in 1 .. n
        OBVIOUS
      <4> QED BY <3>2, <4>1
    <3>5. list # << >> /\ book_mark.node # 0
      BY <3>1, <3>2
    <3> QED BY <3>1, <3>2, <3>3, <3>4, <3>5 DEF MarksFollow, list
  <2> QED BY <2>1, <2>2
<1> QED BY <1>1, <1>2, <1>3, PTL DEF BmSpec

-----------------------------------------------------------------------------
(***************************************************************************)
(* The coordinate cache answers what a walk from the beginning of the file *)
(* finds.  The entries it keeps are places of that walk, first to last,    *)
(* where the walk may begin again; along them offsets grow, and columns in *)
(* either mode.                                                            *)
(***************************************************************************)

(* A loop of n turns, each of which is st.                                  *)
Turns(F, n, start, st) == F[0] = start /\ \A k \in 1 .. n : F[k] = st[F[k - 1]]

LEMMA LoopHasValues ==
  ASSUME NEW n \in Nat, NEW S, NEW start \in S, NEW st \in [S -> S]
  PROVE  \E F \in [0 .. n -> S] : Turns(F, n, start, st)
<1> DEFINE UpTo(F, m) == F \in [0 .. m -> S] /\ Turns(F, m, start, st)
           T == {m \in Nat : \E F : UpTo(F, m)}
<1>1. 0 \in T
  <2>1. UpTo([k \in 0 .. 0 |-> start], 0)
    BY DEF Turns
  <2> HIDE DEF UpTo
  <2> QED BY <2>1
<1>2. ASSUME NEW m \in Nat, m \in T PROVE m + 1 \in T
  <2>1. PICK F : UpTo(F, m)
    BY <1>2
  <2>2. PICK j \in Nat : j = m + 1 /\ j - 1 = m /\ j # 0 /\ m \in 0 .. m /\ 0 # j
    OBVIOUS
  <2> DEFINE e == st[F[m]]
             G == [i \in 0 .. j |-> IF i = j THEN e ELSE F[i]]
  <2>3. e \in S
    BY <2>1, <2>2
  <2> HIDE DEF e
  <2>4. ASSUME NEW i \in 0 .. j PROVE i = j \/ i \in 0 .. m
    BY <2>2
  <2>5. G \in [0 .. j -> S]
    BY <2>1, <2>3, <2>4
  <2>6. ASSUME NEW i \in 1 .. j PROVE G[i] = st[G[i - 1]]
    <3>1. i - 1 \in 0 .. j /\ i - 1 # j /\ i \in 0 .. j
      BY <2>2
    <3>2. G[i - 1] = F[i - 1] /\ G[i] = IF i = j THEN e ELSE F[i]
      BY <3>1
    <3>3. i # j => i \in 1 .. m
      BY <2>2
    <3> QED BY <2>1, <2>2, <3>2, <3>3 DEF e, Turns
  <2>7. G[0] = start
    BY <2>1, <2>2 DEF Turns
  <2> HIDE DEF G
  <2>8. UpTo(G, j)
    BY <2>5, <2>6, <2>7 DEF Turns
  <2> QED BY <2>2, <2>8
<1> HIDE DEF T
<1>3. n \in T
  BY <1>1, <1>2, NatInduct
<1> QED BY <1>3 DEF T

-----------------------------------------------------------------------------
(* The walk.                                                                *)
Entries == [cc_offset : Int, cc_line : Int, cc_column : Int, cc_nroff_column : Int]
States == {"NROFF_START", "NROFF_BACKSPACE", "NROFF_CONTINUATION"}
Steps == [entry : Entries, state : States]

BytesOK == bytes \in Seq(FileBytes \cup HexBytes)

(* The column of an overstruck character, while the walk is inside of it.   *)
Under(w) == IF w.state = "NROFF_BACKSPACE" THEN w.entry.cc_nroff_column - 1
            ELSE w.entry.cc_nroff_column

LEMMA EntryFields ==
  ASSUME NEW o \in Int, NEW l \in Int, NEW c \in Int, NEW n \in Int
  PROVE  /\ Entry(o, l, c, n) \in Entries
         /\ Entry(o, l, c, n).cc_offset = o /\ Entry(o, l, c, n).cc_line = l
         /\ Entry(o, l, c, n).cc_column = c /\ Entry(o, l, c, n).cc_nroff_column = n
BY DEF Entry, Entries

(* An entry with these fields.                                              *)
Has4(f, o, l, c, n) ==
  /\ f \in Entries /\ f.cc_offset = o /\ f.cc_line = l /\ f.cc_column = c
  /\ f.cc_nroff_column = n

LEMMA EntryIs ==
  ASSUME NEW o \in Int, NEW l \in Int, NEW c \in Int, NEW n \in Int, NEW f, f = Entry(o, l, c, n)
  PROVE  Has4(f, o, l, c, n)
BY EntryFields DEF Has4

LEMMA TabStopBehind ==
  ASSUME NEW c \in Int PROVE TabStop(c) \in Int /\ TabStop(c) > c
BY DEF TabStop

(* The entry of the next byte.                                              *)
NextIs(e, state, f) ==
  LET c == bytes[e.cc_offset + 1]
  IN  /\ f \in Entries /\ f.cc_offset = e.cc_offset + 1
      /\ \/ f.cc_line = e.cc_line + 1 /\ f.cc_column = 0 /\ f.cc_nroff_column = 0
              /\ (c = CRet \/ (c = Newline /\ state # "NROFF_BACKSPACE"))
         \/ /\ c = CRet /\ f.cc_line = e.cc_line
            /\ f.cc_column = e.cc_column /\ f.cc_nroff_column = e.cc_nroff_column
         \/ /\ c # CRet /\ f.cc_line = e.cc_line /\ f.cc_column > e.cc_column
            /\ IF state = "NROFF_BACKSPACE" THEN f.cc_nroff_column = e.cc_nroff_column - 1
               ELSE /\ f.cc_nroff_column > e.cc_nroff_column
                    /\ c # Tab => f.cc_nroff_column = e.cc_nroff_column + 1

LEMMA NextEntryIs ==
  ASSUME NEW e \in Entries, NEW state \in States
  PROVE  NextIs(e, state, NextEntry(e, state))
<1> DEFINE c == bytes[e.cc_offset + 1]
           f == NextEntry(e, state)
           ignored == Byte0(e.cc_offset + 1) \in {CRet, Newline}
<1>1. /\ e.cc_offset \in Int /\ e.cc_line \in Int /\ e.cc_column \in Int /\ e.cc_nroff_column \in Int
      /\ e.cc_offset + 1 \in Int /\ e.cc_line + 1 \in Int /\ 0 \in Int
      /\ e.cc_column + 1 \in Int /\ e.cc_nroff_column + 1 \in Int /\ e.cc_nroff_column - 1 \in Int
  BY DEF Entries
<1>2. CASE c = CRet /\ ignored
  <2>1. f = [e EXCEPT !.cc_offset = @ + 1]
    BY <1>2, ControlAssumption DEF NextEntry
  <2>2. /\ f \in Entries /\ f.cc_offset = e.cc_offset + 1 /\ f.cc_line = e.cc_line
        /\ f.cc_column = e.cc_column /\ f.cc_nroff_column = e.cc_nroff_column
    BY <2>1, <1>1 DEF Entries
  <2> HIDE DEF f
  <2> QED BY <1>2, <2>2 DEF NextIs, f, Has4
<1>3. CASE \/ c = CRet /\ ~ignored
           \/ c = Newline /\ state # "NROFF_BACKSPACE"
  <2>1. f = Entry(e.cc_offset + 1, e.cc_line + 1, 0, 0)
    BY <1>3, ControlAssumption DEF NextEntry
  <2> HIDE DEF f
  <2>9. Has4(f, e.cc_offset + 1, e.cc_line + 1, 0, 0)
    BY <1>1, <2>1, EntryIs
  <2> QED BY <1>1, <1>3, <2>9 DEF NextIs, f, Has4
<1>4. CASE c # CRet /\ state = "NROFF_BACKSPACE"
  <2>1. f = Entry(e.cc_offset + 1, e.cc_line, e.cc_column + 1, e.cc_nroff_column - 1)
    BY <1>4 DEF NextEntry
  <2> HIDE DEF f
  <2>9. Has4(f, e.cc_offset + 1, e.cc_line, e.cc_column + 1, e.cc_nroff_column - 1)
    BY <1>1, <2>1, EntryIs
  <2> QED BY <1>1, <1>4, <2>9 DEF NextIs, f, Has4
<1>5. CASE c = Tab /\ state # "NROFF_BACKSPACE"
  <2>1. f = Entry(e.cc_offset + 1, e.cc_line, TabStop(e.cc_column), TabStop(e.cc_nroff_column))
    BY <1>5, ControlAssumption DEF NextEntry
  <2>2. c # CRet
    BY <1>5, ControlAssumption
  <2>3. /\ TabStop(e.cc_column) \in Int /\ TabStop(e.cc_column) > e.cc_column
        /\ TabStop(e.cc_nroff_column) \in Int /\ TabStop(e.cc_nroff_column) > e.cc_nroff_column
    BY <1>1, TabStopBehind
  <2> HIDE DEF f
  <2>9. Has4(f, e.cc_offset + 1, e.cc_line, TabStop(e.cc_column), TabStop(e.cc_nroff_column))
    BY <1>1, <2>1, <2>3, EntryIs
  <2> QED BY <1>1, <1>5, <2>9, <2>2, <2>3 DEF NextIs, f, Has4
<1>6. CASE c # CRet /\ c # Tab /\ c # Newline /\ state # "NROFF_BACKSPACE"
  <2>1. f = Entry(e.cc_offset + 1, e.cc_line, e.cc_column + 1, e.cc_nroff_column + 1)
    BY <1>6 DEF NextEntry
  <2> HIDE DEF f
  <2>9. Has4(f, e.cc_offset + 1, e.cc_line, e.cc_column + 1, e.cc_nroff_column + 1)
    BY <1>1, <2>1, EntryIs
  <2> QED BY <1>1, <1>6, <2>9 DEF NextIs, f, Has4
<1> QED BY <1>2, <1>3, <1>4, <1>5, <1>6

LEMMA NextStateIs == ASSUME NEW state, NEW o PROVE NextState(state, o) \in States
BY DEF NextState, States

(* The recursion has a value, which is the walk.                            *)
LEMMA WalkIs ==
  ASSUME BytesOK
  PROVE  /\ Walk \in [0 .. Len(bytes) -> Steps]
         /\ Walk[0] = [entry |-> First, state |-> "NROFF_START"]
         /\ \A o \in 1 .. Len(bytes) :
              LET w == Walk[o - 1]
              IN  Walk[o] = [entry |-> NextEntry(w.entry, w.state),
                             state |-> NextState(w.state, w.entry.cc_offset)]
<1> DEFINE n == Len(bytes)
           D(w) == [entry |-> NextEntry(w.entry, w.state),
                    state |-> NextState(w.state, w.entry.cc_offset)]
           start == [entry |-> First, state |-> "NROFF_START"]
           R(f) == [o \in 0 .. n |-> IF o = 0 THEN start ELSE D(f[o - 1])]
           C == CHOOSE f : f = R(f)
           st == [w \in Steps |-> D(w)]
<1>1. n \in Nat
  BY LenProperties DEF BytesOK
<1>2. Walk = C
  BY DEF Walk
<1>3. start \in Steps
  <2>1. First \in Entries
    BY EntryFields DEF First
  <2> QED BY <2>1 DEF Steps, States
<1>4. ASSUME NEW w \in Steps PROVE D(w) \in Steps
  <2>1. w.entry \in Entries /\ w.state \in States
    BY DEF Steps
  <2>2. NextEntry(w.entry, w.state) \in Entries
    BY <2>1, NextEntryIs DEF NextIs
  <2> QED BY <2>2, NextStateIs DEF Steps
<1> HIDE DEF n, D, start
<1>5. st \in [Steps -> Steps] /\ \A w \in Steps : st[w] = D(w)
  BY <1>4
<1> HIDE DEF st
<1>6. PICK F \in [0 .. n -> Steps] : Turns(F, n, start, st)
  BY <1>1, <1>3, <1>5, LoopHasValues
<1>7. F = R(F)
  <2>1. \A k \in 1 .. n : F[k] = D(F[k - 1])
    <3> SUFFICES ASSUME NEW k \in 1 .. n PROVE F[k] = D(F[k - 1])
      OBVIOUS
    <3>1. k - 1 \in 0 .. n
      BY <1>1
    <3> QED BY <1>5, <1>6, <3>1 DEF Turns
  <2>2. \A k \in 0 .. n : k = 0 \/ k \in 1 .. n
    BY <1>1
  <2> QED BY <1>6, <2>1, <2>2 DEF Turns
<1>8. C = R(C)
  <2> HIDE DEF R
  <2> QED BY <1>7
<1> HIDE DEF C
<1>9. C[0] = start /\ \A k \in 1 .. n : C[k] = D(C[k - 1])
  BY <1>1, <1>8
<1>10. ASSUME NEW k \in 0 .. n PROVE C[k] \in Steps
  <2> DEFINE T == {m \in Nat : m <= n => C[m] \in Steps}
  <2>1. 0 \in T
    BY <1>3, <1>9
  <2>2. ASSUME NEW m \in Nat, m \in T PROVE m + 1 \in T
    <3> SUFFICES ASSUME m + 1 <= n PROVE C[m + 1] \in Steps
      OBVIOUS
    <3>1. PICK j \in 1 .. n : j = m + 1 /\ j - 1 = m
      BY <1>1
    <3> QED BY <1>1, <1>4, <1>9, <2>2, <3>1
  <2> HIDE DEF T
  <2>3. k \in T
    BY <1>1, <2>1, <2>2, NatInduct
  <2> QED BY <1>1, <2>3 DEF T
<1>11. C \in [0 .. n -> Steps]
  BY <1>8, <1>10
<1> QED BY <1>2, <1>9, <1>11 DEF n, D, start

(* The same, in a form that can be said of the next state.                  *)
WalkOK ==
  /\ Walk[0] = [entry |-> First, state |-> "NROFF_START"]
  /\ \A o \in 1 .. Len(bytes) :
       Walk[o] = [entry |-> NextEntry(Walk[o - 1].entry, Walk[o - 1].state),
                  state |-> NextState(Walk[o - 1].state, Walk[o - 1].entry.cc_offset)]

LEMMA WalkHolds == BytesOK => WalkOK
BY WalkIs DEF WalkOK

LEMMA WalkStep ==
  ASSUME BytesOK, NEW o \in 0 .. Len(bytes), o < Len(bytes)
  PROVE  /\ o + 1 \in 0 .. Len(bytes) /\ Walk[o] \in Steps /\ Walk[o + 1] \in Steps
         /\ NextIs(Walk[o].entry, Walk[o].state, Walk[o + 1].entry)
         /\ Walk[o + 1].state = NextState(Walk[o].state, Walk[o].entry.cc_offset)
<1> DEFINE w == Walk[o]
<1>1. Len(bytes) \in Nat
  BY LenProperties DEF BytesOK
<1>2. PICK p \in 1 .. Len(bytes) : p = o + 1 /\ p - 1 = o /\ p \in 0 .. Len(bytes)
  BY <1>1
<1>3. w \in Steps /\ Walk[p] \in Steps
  BY <1>2, WalkIs
<1>4. Walk[p] = [entry |-> NextEntry(w.entry, w.state),
                 state |-> NextState(w.state, w.entry.cc_offset)]
  BY <1>2, WalkIs
<1>5. NextIs(w.entry, w.state, NextEntry(w.entry, w.state))
  BY <1>3, NextEntryIs DEF Steps
<1>6. /\ Walk[p].entry = NextEntry(w.entry, w.state)
      /\ Walk[p].state = NextState(w.state, w.entry.cc_offset)
  BY <1>4
<1> QED BY <1>2, <1>3, <1>5, <1>6

(* Where the walk is in an overstruck character, there is one.              *)
Shape(o) ==
  LET w == Walk[o]
  IN  /\ w.entry.cc_offset = o /\ w.entry.cc_line >= 0 /\ w.entry.cc_column >= 0
      /\ Under(w) >= 0
      /\ w.state = "NROFF_BACKSPACE" => o >= 1 /\ mcview_is_nroff_sequence(o - 1)
      /\ w.state = "NROFF_CONTINUATION" => o >= 2 /\ mcview_is_nroff_sequence(o - 2)

(* Further in the file; and further on the screen, in each mode.            *)
Weakly(v, w) ==
  \/ v.entry.cc_line < w.entry.cc_line
  \/ /\ v.entry.cc_line = w.entry.cc_line /\ v.entry.cc_column <= w.entry.cc_column
     /\ Under(v) <= Under(w)
Strictly(v, w) ==
  \/ v.entry.cc_line < w.entry.cc_line
  \/ /\ v.entry.cc_line = w.entry.cc_line /\ v.entry.cc_column < w.entry.cc_column
     /\ Under(v) < Under(w)

LEMMA StepUp ==
  ASSUME BytesOK, NEW o \in 0 .. Len(bytes), o < Len(bytes), Shape(o)
  PROVE  /\ Shape(o + 1) /\ Weakly(Walk[o], Walk[o + 1])
         /\ CanSave(bytes[o + 1], Walk[o + 1].state) => Strictly(Walk[o], Walk[o + 1])
<1> DEFINE v == Walk[o]
           w == Walk[o + 1]
           c == bytes[o + 1]
<1>1. /\ v.entry \in Entries /\ v.state \in States /\ w.entry \in Entries /\ w.state \in States
      /\ NextIs(v.entry, v.state, w.entry) /\ w.state = NextState(v.state, o)
      /\ v.entry.cc_offset = o
  BY WalkStep DEF Shape, Steps
<1>2. /\ v.entry.cc_line \in Int /\ v.entry.cc_column \in Int /\ v.entry.cc_nroff_column \in Int
      /\ w.entry.cc_line \in Int /\ w.entry.cc_column \in Int /\ w.entry.cc_nroff_column \in Int
  BY <1>1 DEF Entries
<1>3. w.entry.cc_offset = o + 1 /\ v.entry.cc_line >= 0 /\ v.entry.cc_column >= 0 /\ Under(v) >= 0
  BY <1>1 DEF NextIs, Shape
<1>4. CASE v.state = "NROFF_BACKSPACE"
  <2>1. o >= 1 /\ mcview_is_nroff_sequence(o - 1)
    BY <1>4 DEF Shape
  <2>2. c = BS
    <3>1. (o - 1) + 2 = o + 1
      OBVIOUS
    <3> QED BY <2>1, <3>1 DEF mcview_is_nroff_sequence
  <2>3. c # CRet /\ c # Newline
    BY <2>2, ControlAssumption
  <2>4. /\ w.entry.cc_line = v.entry.cc_line /\ w.entry.cc_column > v.entry.cc_column
        /\ w.entry.cc_nroff_column = v.entry.cc_nroff_column - 1
    BY <1>1, <1>4, <2>3 DEF NextIs
  <2>5. w.state = "NROFF_CONTINUATION"
    BY <1>1, <1>4 DEF NextState
  <2>6. Under(w) = Under(v)
    BY <1>4, <2>4, <2>5 DEF Under
  <2>7. Under(v) \in Int
    BY <1>2, <1>4 DEF Under
  <2>8. Weakly(v, w)
    BY <1>2, <2>4, <2>6, <2>7 DEF Weakly
  <2>9. ~CanSave(c, w.state)
    BY <2>5 DEF CanSave
  <2>10. Shape(o + 1)
    <3>1. o + 1 >= 2 /\ (o + 1) - 2 = o - 1
      BY <2>1
    <3> QED BY SMTT(60), <1>2, <1>3, <2>1, <2>4, <2>5, <2>6, <2>7, <3>1 DEF Shape
  <2> QED BY <2>8, <2>9, <2>10
<1>5. ASSUME v.state # "NROFF_BACKSPACE"
      PROVE  Under(v) = v.entry.cc_nroff_column
  BY <1>5 DEF Under
<1>6. ASSUME v.state # "NROFF_BACKSPACE", w.state = "NROFF_BACKSPACE"
      PROVE  mcview_is_nroff_sequence(o)
  BY <1>1, <1>6 DEF NextState
<1>7. ASSUME v.state # "NROFF_BACKSPACE" PROVE w.state # "NROFF_CONTINUATION"
  BY <1>1, <1>7 DEF NextState
<1>8. ASSUME v.state # "NROFF_BACKSPACE", c \in Printable
      PROVE  /\ w.entry.cc_line = v.entry.cc_line /\ w.entry.cc_column > v.entry.cc_column
             /\ w.entry.cc_nroff_column = v.entry.cc_nroff_column + 1
  <2>1. c # CRet /\ c # Newline /\ c # Tab
    BY <1>8, ControlAssumption
  <2> QED BY <1>1, <1>8, <2>1 DEF NextIs
<1>9. CASE v.state # "NROFF_BACKSPACE" /\ w.state = "NROFF_BACKSPACE"
  <2>1. mcview_is_nroff_sequence(o) /\ c \in Printable
    BY <1>6, <1>9 DEF mcview_is_nroff_sequence
  <2>2. Under(w) = w.entry.cc_nroff_column - 1
    BY <1>9 DEF Under
  <2>6. /\ w.entry.cc_line = v.entry.cc_line /\ w.entry.cc_column > v.entry.cc_column
        /\ w.entry.cc_nroff_column = v.entry.cc_nroff_column + 1
    BY <1>8, <1>9, <2>1
  <2>7. Under(v) = v.entry.cc_nroff_column
    BY <1>5, <1>9
  <2>3. Weakly(v, w) /\ Under(w) >= 0 /\ w.entry.cc_line >= 0 /\ w.entry.cc_column >= 0
    BY SMTT(60), <1>2, <1>3, <2>2, <2>6, <2>7 DEF Weakly
  <2>4. ~CanSave(c, w.state)
    BY <1>9 DEF CanSave
  <2>5. Shape(o + 1)
    <3>1. o + 1 >= 1 /\ (o + 1) - 1 = o
      OBVIOUS
    <3> QED BY <1>3, <1>9, <2>1, <2>3, <3>1 DEF Shape
  <2> QED BY <2>3, <2>4, <2>5
<1>10. CASE v.state # "NROFF_BACKSPACE" /\ w.state # "NROFF_BACKSPACE"
  <2>1. w.state # "NROFF_CONTINUATION" /\ Under(w) = w.entry.cc_nroff_column
    BY <1>7, <1>10 DEF Under
  <2>2. v.entry.cc_nroff_column >= 0 /\ Under(v) = v.entry.cc_nroff_column
    BY <1>3, <1>5, <1>10
  <2>3. CASE /\ w.entry.cc_line = v.entry.cc_line + 1 /\ w.entry.cc_column = 0
             /\ w.entry.cc_nroff_column = 0
    <3>1. Strictly(v, w) /\ Weakly(v, w)
      BY <1>2, <2>3 DEF Strictly, Weakly
    <3> QED BY <1>2, <1>3, <1>10, <2>1, <2>3, <3>1 DEF Shape
  <2>4. CASE /\ c = CRet /\ w.entry.cc_line = v.entry.cc_line
             /\ w.entry.cc_column = v.entry.cc_column
             /\ w.entry.cc_nroff_column = v.entry.cc_nroff_column
    <3>1. Weakly(v, w)
      BY <1>2, <2>1, <2>2, <2>4 DEF Weakly
    <3>2. ~CanSave(c, w.state)
      BY <2>4 DEF CanSave
    <3> QED BY <1>2, <1>3, <1>10, <2>1, <2>2, <2>4, <3>1, <3>2 DEF Shape
  <2>5. CASE /\ w.entry.cc_line = v.entry.cc_line /\ w.entry.cc_column > v.entry.cc_column
             /\ w.entry.cc_nroff_column > v.entry.cc_nroff_column
    <3>1. Strictly(v, w) /\ Weakly(v, w)
      BY <1>2, <2>1, <2>2, <2>5 DEF Strictly, Weakly
    <3> QED BY <1>2, <1>3, <1>10, <2>1, <2>2, <2>5, <3>1 DEF Shape
  <2> QED BY <1>1, <1>10, <2>3, <2>4, <2>5 DEF NextIs
<1> QED BY <1>4, <1>9, <1>10

(* The further in the file, the further on the screen; and before a place   *)
(* that can be saved, all is before it on the screen as well.               *)
LEMMA WalkGoesUp ==
  ASSUME BytesOK
  PROVE  \A p \in 0 .. Len(bytes) :
           /\ Shape(p)
           /\ \A o \in 0 .. p : Weakly(Walk[o], Walk[p])
           /\ (p > 0 /\ CanSave(bytes[p], Walk[p].state)) =>
                \A o \in 0 .. p - 1 : Strictly(Walk[o], Walk[p])
<1> DEFINE n == Len(bytes)
           Up(p) == /\ Shape(p)
                    /\ \A o \in 0 .. p : Weakly(Walk[o], Walk[p])
                    /\ (p > 0 /\ CanSave(bytes[p], Walk[p].state)) =>
                         \A o \in 0 .. p - 1 : Strictly(Walk[o], Walk[p])
           T == {p \in Nat : p <= n => Up(p)}
<1>1. n \in Nat
  BY LenProperties DEF BytesOK
<1>2. ASSUME NEW o \in 0 .. n
      PROVE  /\ Walk[o].entry.cc_line \in Int /\ Walk[o].entry.cc_column \in Int
             /\ Walk[o].entry.cc_nroff_column \in Int /\ Under(Walk[o]) \in Int
  <2>1. Walk[o].entry \in Entries
    BY WalkIs DEF Steps
  <2>2. /\ Walk[o].entry.cc_line \in Int /\ Walk[o].entry.cc_column \in Int
        /\ Walk[o].entry.cc_nroff_column \in Int
    BY <2>1 DEF Entries
  <2> QED BY <2>2 DEF Under
<1>3. 0 \in T
  <2>1. Walk[0] = [entry |-> First, state |-> "NROFF_START"]
    BY WalkIs
  <2>2. Has4(First, 0, 0, 0, 0)
    BY EntryIs DEF First
  <2>3. Under(Walk[0]) = 0 /\ Walk[0].entry = First /\ Walk[0].state = "NROFF_START"
    BY <2>1, <2>2 DEF Under, Has4
  <2>4. Shape(0)
    BY <2>2, <2>3 DEF Shape, Has4
  <2>5. \A o \in 0 .. 0 : Weakly(Walk[o], Walk[0])
    BY <2>2, <2>3 DEF Weakly, Has4
  <2> QED BY <2>4, <2>5
<1>4. ASSUME NEW q \in Nat, q \in T PROVE q + 1 \in T
  <2> SUFFICES ASSUME q + 1 <= n PROVE Up(q + 1)
    OBVIOUS
  <2>1. q \in 0 .. n /\ q < n /\ Up(q)
    BY <1>1, <1>4
  <2>2. PICK p \in Nat : p = q + 1 /\ p \in 0 .. n /\ p > 0 /\ q = p - 1
    BY <1>1, <2>1
  <2>3. /\ Shape(p) /\ Weakly(Walk[q], Walk[p])
        /\ CanSave(bytes[p], Walk[p].state) => Strictly(Walk[q], Walk[p])
    BY <2>1, <2>2, StepUp
  <2>4. ASSUME NEW o \in 0 .. q
        PROVE  /\ Weakly(Walk[o], Walk[p])
               /\ Strictly(Walk[q], Walk[p]) => Strictly(Walk[o], Walk[p])
    <3>1. Weakly(Walk[o], Walk[q])
      BY <2>1
    <3>2. o \in 0 .. n
      BY <1>1, <2>1
    <3> DEFINE a == Walk[o]
               b == Walk[q]
               d == Walk[p]
    <3>3. /\ a.entry.cc_line \in Int /\ a.entry.cc_column \in Int /\ Under(a) \in Int
          /\ b.entry.cc_line \in Int /\ b.entry.cc_column \in Int /\ Under(b) \in Int
          /\ d.entry.cc_line \in Int /\ d.entry.cc_column \in Int /\ Under(d) \in Int
      BY <1>2, <2>1, <2>2, <3>2
    <3>4. Weakly(a, b) /\ Weakly(b, d)
      BY <2>3, <3>1
    <3> HIDE DEF a, b, d
    <3>5. Weakly(a, d) /\ (Strictly(b, d) => Strictly(a, d))
      BY SMTT(60), <3>3, <3>4 DEF Weakly, Strictly
    <3> QED BY <3>5 DEF a, b, d
  <2>5. \A o \in 0 .. p : o = p \/ o \in 0 .. q
    BY <2>2
  <2>6. Weakly(Walk[p], Walk[p])
    BY <1>2, <2>2 DEF Weakly
  <2>7. \A o \in 0 .. p : Weakly(Walk[o], Walk[p])
    BY <2>4, <2>5, <2>6
  <2>8. CanSave(bytes[p], Walk[p].state) => \A o \in 0 .. p - 1 : Strictly(Walk[o], Walk[p])
    BY <2>2, <2>3, <2>4
  <2> QED BY <2>2, <2>3, <2>7, <2>8
<1>5. ASSUME NEW p \in 0 .. n PROVE Up(p)
  <2> HIDE DEF Up
  <2>1. 0 \in T /\ \A m \in Nat : m \in T => m + 1 \in T
    BY <1>3, <1>4
  <2> HIDE DEF T
  <2>2. p \in T
    BY <1>1, <2>1, NatInduct
  <2> QED BY <1>1, <2>2 DEF T
<1> QED BY <1>5

-----------------------------------------------------------------------------
(* What is asked for, and the places of the walk that answer it.            *)
Kinds == {"CCACHE_LINECOL", "CCACHE_OFFSET"}
Asked(what, coord) ==
  /\ what \in Kinds /\ coord \in Entries /\ nroff \in BOOLEAN
  /\ coord.cc_offset >= 0 /\ coord.cc_line >= 0 /\ coord.cc_column >= 0
  /\ coord.cc_nroff_column >= 0

Settled(what, o) == (what = "CCACHE_OFFSET" /\ nroff) => Walk[o].state = "NROFF_START"
Hit(what, coord, o) == ~Before(what, Walk[o].entry, coord) /\ Settled(what, o)

LEMMA BeforeOrders ==
  ASSUME NEW what, NEW a \in Entries, NEW b \in Entries, NEW c \in Entries
  PROVE  /\ Before(what, a, b) /\ Before(what, b, c) => Before(what, a, c)
         /\ ~Before(what, a, b) /\ Before(what, c, b) => Before(what, c, a)
         /\ Before(what, a, b) => ~Before(what, b, a)
BY DEF Before, Entries

LEMMA SavedIs ==
  ASSUME BytesOK, NEW p \in SavedEntry
  PROVE  /\ p \in 0 .. Len(bytes) /\ Walk[p].state = "NROFF_START" /\ Walk[p].entry \in Entries
         /\ p > 0 => CanSave(bytes[p], Walk[p].state)
<1>1. Len(bytes) \in Nat
  BY LenProperties DEF BytesOK
<1>2. p \in 0 .. Len(bytes) /\ (p > 0 => CanSave(bytes[p], Walk[p].state))
  BY <1>1 DEF SavedEntry
<1>3. Walk[0].state = "NROFF_START"
  BY WalkIs
<1>4. Walk[p].state = "NROFF_START"
  BY <1>2, <1>3 DEF CanSave
<1> QED BY <1>2, <1>4, WalkIs DEF Steps

LEMMA BeforeSaved ==
  ASSUME BytesOK, NEW what \in Kinds, nroff \in BOOLEAN, NEW p \in SavedEntry,
         NEW o \in 0 .. p - 1, Settled(what, o)
  PROVE  Before(what, Walk[o].entry, Walk[p].entry)
<1> DEFINE v == Walk[o]
           w == Walk[p]
<1>1. p \in 0 .. Len(bytes) /\ p > 0 /\ CanSave(bytes[p], w.state) /\ w.state = "NROFF_START"
  BY SavedIs
<1>2. o \in 0 .. Len(bytes)
  BY <1>1
<1>3. Strictly(v, w) /\ Shape(o) /\ Shape(p)
  BY <1>1, <1>2, WalkGoesUp
<1>4. v.entry.cc_offset = o /\ w.entry.cc_offset = p
  BY <1>3 DEF Shape
<1>5. v.entry \in Entries /\ w.entry \in Entries
  BY <1>1, <1>2, WalkIs DEF Steps
<1>6. Under(w) = w.entry.cc_nroff_column
  BY <1>1 DEF Under
<1>7. what = "CCACHE_OFFSET" /\ nroff => Under(v) = v.entry.cc_nroff_column
  BY DEF Settled, Under
<1> SUFFICES Before(what, v.entry, w.entry)
  OBVIOUS
<1> HIDE DEF v, w
<1>8. CASE what = "CCACHE_LINECOL"
  BY <1>1, <1>4, <1>8 DEF Before
<1>9. CASE what = "CCACHE_OFFSET" /\ nroff
  BY <1>3, <1>5, <1>6, <1>7, <1>9 DEF Before, Strictly
<1>10. CASE what = "CCACHE_OFFSET" /\ ~nroff
  BY <1>3, <1>5, <1>10 DEF Before, Strictly
<1> QED BY <1>8, <1>9, <1>10 DEF Kinds

(* The bisection.                                                           *)
LEMMA HalfIs ==
  ASSUME NEW limit \in Nat, limit > 1
  PROVE  /\ limit \div 2 \in Nat /\ (limit + 1) \div 2 \in Nat
         /\ limit \div 2 + (limit + 1) \div 2 = limit
         /\ (limit + 1) \div 2 >= 1 /\ (limit + 1) \div 2 < limit
         /\ limit \div 2 <= (limit + 1) \div 2 /\ limit \div 2 < limit
OBVIOUS

(* The cache from base on, limit entries of it, has the one looked for.     *)
Window(what, coord, w, k) ==
  LET n == Len(coord_cache)
  IN  /\ w \in [limit : Nat, base : Nat] /\ w.limit >= 1 /\ w.base + w.limit <= n
      /\ ~Before(what, coord, coord_cache[w.base + 1])
      /\ w.base + w.limit < n => Before(what, coord, coord_cache[w.base + w.limit + 1])
      /\ w.limit = 1 \/ w.limit <= n - k

Growing(what, coord) ==
  \A j, k \in 1 .. Len(coord_cache) :
    j <= k /\ Before(what, coord, coord_cache[j]) => Before(what, coord, coord_cache[k])

LEMMA HalfPlaces ==
  ASSUME NEW n \in Nat, NEW k \in Nat, NEW b \in Nat, NEW m \in Nat, b + m <= n, m <= n - k,
         NEW h \in Nat, NEW l \in Nat, h + l = m, l >= 1, h <= l, l < m
  PROVE  /\ b + h \in Nat /\ b + h + l = b + m /\ b + l <= n /\ l <= n - (k + 1)
         /\ b + l < n => b + h + 1 \in 1 .. n /\ b + l + 1 \in 1 .. n /\ b + h + 1 <= b + l + 1
OBVIOUS

LEMMA HalfKeeps ==
  ASSUME NEW what, NEW coord, NEW k \in Nat, NEW w, Len(coord_cache) \in Nat,
         Growing(what, coord), Window(what, coord, w, k), w.limit > 1,
         NEW h \in Nat, NEW l \in Nat, h + l = w.limit, l >= 1, h <= l, l < w.limit,
         NEW i, i = w.base + h, NEW r,
         r = [limit |-> l, base |-> IF Before(what, coord, coord_cache[i + 1]) THEN w.base ELSE i]
  PROVE  Window(what, coord, r, k + 1)
<1>1. /\ w.limit \in Nat /\ w.base \in Nat /\ w.base + w.limit <= Len(coord_cache)
      /\ w.limit <= Len(coord_cache) - k
      /\ ~Before(what, coord, coord_cache[w.base + 1])
      /\ w.base + w.limit < Len(coord_cache) =>
           Before(what, coord, coord_cache[w.base + w.limit + 1])
  BY DEF Window
<1> DEFINE n == Len(coord_cache)
           b == w.base
<1>2. /\ i \in Nat /\ i + l = b + w.limit /\ b + l <= n /\ l <= n - (k + 1)
      /\ b + l < n => i + 1 \in 1 .. n /\ b + l + 1 \in 1 .. n /\ i + 1 <= b + l + 1
  <2>1. n \in Nat /\ b \in Nat /\ w.limit \in Nat /\ b + w.limit <= n /\ w.limit <= n - k
    BY <1>1
  <2> HIDE DEF n, b
  <2>2. /\ b + h \in Nat /\ b + h + l = b + w.limit /\ b + l <= n /\ l <= n - (k + 1)
        /\ b + l < n => b + h + 1 \in 1 .. n /\ b + l + 1 \in 1 .. n /\ b + h + 1 <= b + l + 1
    BY <2>1, HalfPlaces
  <2>3. i = b + h
    BY DEF b
  <2> QED BY <2>2, <2>3
<1> HIDE DEF n, b
<1>3. r.limit = l
  OBVIOUS
<1>4. CASE Before(what, coord, coord_cache[i + 1])
  <2>1. r.base = b
    BY <1>4 DEF b
  <2>2. r \in [limit : Nat, base : Nat]
    BY <1>1, <1>4
  <2>3. ASSUME b + l < n PROVE Before(what, coord, coord_cache[b + l + 1])
    BY <1>2, <1>4, <2>3 DEF Growing, n
  <2> QED BY <1>1, <1>2, <1>3, <2>1, <2>2, <2>3 DEF Window, n, b
<1>5. CASE ~Before(what, coord, coord_cache[i + 1])
  <2>1. r.base = i
    BY <1>5
  <2>2. r \in [limit : Nat, base : Nat]
    BY <1>2, <1>5
  <2> QED BY <1>1, <1>2, <1>3, <1>5, <2>1, <2>2 DEF Window, n, b
<1> QED BY <1>4, <1>5

LEMMA FindIs ==
  ASSUME NEW what, NEW coord, coord_cache \in Seq(Entries), coord_cache # << >>,
         Growing(what, coord), ~Before(what, coord, coord_cache[1])
  PROVE  LET k == mcview_ccache_find(what, coord)
             n == Len(coord_cache)
         IN  /\ k \in 1 .. n /\ ~Before(what, coord, coord_cache[k])
             /\ k < n => Before(what, coord, coord_cache[k + 1])
<1> DEFINE n == Len(coord_cache)
           half(w) ==
             LET i == w.base + w.limit \div 2
             IN [limit |-> (w.limit + 1) \div 2,
                 base |-> IF Before(what, coord, coord_cache[i + 1]) THEN w.base ELSE i]
           D(w) == IF w.limit > 1 THEN half(w) ELSE w
           start == [limit |-> n, base |-> 0]
           R(f) == [k \in 0 .. n |-> IF k = 0 THEN start ELSE D(f[k - 1])]
           C == CHOOSE f : f = R(f)
           S == [limit : Nat, base : Nat]
           st == [w \in S |-> D(w)]
<1>1. n \in Nat /\ n >= 1
  BY LenProperties, EmptySeq
<1>2. mcview_ccache_find(what, coord) = C[n].base + 1
  BY DEF mcview_ccache_find
<1>3. start \in S
  BY <1>1
<1>4. ASSUME NEW w \in S PROVE D(w) \in S
  <2>1. w.limit \in Nat /\ w.base \in Nat
    OBVIOUS
  <2>2. CASE w.limit > 1
    <3>1. w.limit \div 2 \in Nat /\ (w.limit + 1) \div 2 \in Nat
      BY <2>1, <2>2, HalfIs
    <3> QED BY <2>1, <2>2, <3>1
  <2> QED BY <2>2
<1>5. ASSUME NEW w, NEW k \in Nat, Window(what, coord, w, k) PROVE Window(what, coord, D(w), k + 1)
  <2>1. CASE w.limit > 1
    <3>0. w.limit \in Nat
      BY <1>5 DEF Window
    <3>2. PICK h \in Nat, l \in Nat : /\ h = w.limit \div 2 /\ l = (w.limit + 1) \div 2
                                      /\ h + l = w.limit /\ l >= 1 /\ h <= l /\ l < w.limit
      BY <2>1, <3>0, HalfIs
    <3>3. PICK i : i = w.base + h
      OBVIOUS
    <3>4. half(w) = [limit |-> l, base |-> IF Before(what, coord, coord_cache[i + 1])
                                           THEN w.base ELSE i]
      BY <3>2, <3>3
    <3> HIDE DEF half
    <3>1. Window(what, coord, half(w), k + 1)
      BY ZenonT(60), <1>1, <1>5, <2>1, <3>2, <3>3, <3>4, HalfKeeps DEF n
    <3> QED BY <2>1, <3>1
  <2>2. CASE ~(w.limit > 1)
    <3>1. w.limit = 1 /\ D(w) = w
      BY <1>5, <2>2 DEF Window
    <3> QED BY <1>5, <3>1 DEF Window
  <2> QED BY <2>1, <2>2
<1>6. Window(what, coord, start, 0)
  BY <1>1 DEF Window
<1> HIDE DEF n, D, start
<1>7. st \in [S -> S] /\ \A w \in S : st[w] = D(w)
  BY <1>4
<1> HIDE DEF st, S
<1>8. PICK F \in [0 .. n -> S] : Turns(F, n, start, st)
  BY <1>1, <1>3, <1>7, LoopHasValues
<1>9. F = R(F)
  <2>1. \A k \in 1 .. n : F[k] = D(F[k - 1])
    <3> SUFFICES ASSUME NEW k \in 1 .. n PROVE F[k] = D(F[k - 1])
      OBVIOUS
    <3>1. k - 1 \in 0 .. n
      BY <1>1
    <3> QED BY <1>7, <1>8, <3>1 DEF Turns
  <2>2. \A k \in 0 .. n : k = 0 \/ k \in 1 .. n
    BY <1>1
  <2> QED BY <1>8, <2>1, <2>2 DEF Turns
<1>10. C = R(C)
  <2> HIDE DEF R
  <2> QED BY <1>9
<1> HIDE DEF C
<1>11. C[0] = start /\ \A k \in 1 .. n : C[k] = D(C[k - 1])
  BY <1>1, <1>10
<1>12. Window(what, coord, C[n], n)
  <2> DEFINE T == {m \in Nat : m <= n => Window(what, coord, C[m], m)}
  <2>1. 0 \in T
    BY <1>6, <1>11
  <2>2. ASSUME NEW m \in Nat, m \in T PROVE m + 1 \in T
    <3> SUFFICES ASSUME m + 1 <= n PROVE Window(what, coord, C[m + 1], m + 1)
      OBVIOUS
    <3>1. PICK j \in 1 .. n : j = m + 1 /\ j - 1 = m
      BY <1>1
    <3>2. C[j] = D(C[m])
      BY <1>11, <3>1
    <3>3. Window(what, coord, C[m], m)
      BY <1>1, <2>2
    <3> QED BY <1>5, <3>1, <3>2, <3>3
  <2> HIDE DEF T
  <2>3. n \in T
    BY <1>1, <2>1, <2>2, NatInduct
  <2> QED BY <1>1, <2>3 DEF T
<1>13. C[n].limit = 1 /\ C[n].base \in Nat
  BY <1>1, <1>12 DEF Window, n
<1>14. /\ C[n].base + 1 \in 1 .. n /\ ~Before(what, coord, coord_cache[C[n].base + 1])
       /\ C[n].base + 1 < n => Before(what, coord, coord_cache[C[n].base + 1 + 1])
  BY <1>1, <1>12, <1>13 DEF Window, n
<1> QED BY <1>2, <1>14 DEF n

-----------------------------------------------------------------------------
(* The walk from an entry of the cache goes along the walk from the         *)
(* beginning, up to the first place where the loop ends.                    *)
Ends(what, coord, limit, t) == t >= limit \/ t >= Len(bytes) \/ Hit(what, coord, t)

(* The loop is at t, from f on, and s is the last place it saved.           *)
LastSaved(f, s, t) ==
  s \in f .. t /\ s \in SavedEntry /\ \A i \in s + 1 .. t : i \notin SavedEntry
IsAt(w, f, t) ==
  /\ w.current = Walk[t].entry /\ w.state = Walk[t].state
  /\ \E s \in f .. t : LastSaved(f, s, t) /\ w.entry = Walk[s].entry

Turned(what, coord, limit, w, f, k) ==
  \E t \in f .. Len(bytes) :
    /\ t <= f + k /\ IsAt(w, f, t)
    /\ t = f + k \/ Ends(what, coord, limit, t)
    /\ \A i \in f .. t - 1 : ~Ends(what, coord, limit, i)

Loops == [current : Entries, entry : Entries, state : States]

LoopEnds(what, coord, limit, w) ==
  \/ w.current.cc_offset >= limit \/ ~Has(w.current.cc_offset)
  \/ /\ ~Before(what, w.current, coord)
     /\ ~(what = "CCACHE_OFFSET" /\ nroff /\ w.state # "NROFF_START")

LoopTurn(w) ==
  LET e == NextEntry(w.current, w.state)
      state == NextState(w.state, w.current.cc_offset)
  IN [current |-> e, state |-> state,
      entry |-> IF CanSave(bytes[w.current.cc_offset + 1], state) THEN e ELSE w.entry]

LEMMA TurnTyped == ASSUME NEW w \in Loops PROVE LoopTurn(w) \in Loops
<1>1. w.current \in Entries /\ w.entry \in Entries /\ w.state \in States
  BY DEF Loops
<1>2. NextEntry(w.current, w.state) \in Entries
  BY <1>1, NextEntryIs DEF NextIs
<1> QED BY <1>1, <1>2, NextStateIs DEF LoopTurn, Loops

LEMMA EndsIs ==
  ASSUME BytesOK, NEW what, NEW coord, NEW limit \in Int, NEW f \in Nat, NEW t \in f .. Len(bytes),
         NEW w, IsAt(w, f, t)
  PROVE  LoopEnds(what, coord, limit, w) <=> Ends(what, coord, limit, t)
<1>1. Len(bytes) \in Nat
  BY LenProperties DEF BytesOK
<1>2. t \in 0 .. Len(bytes)
  BY <1>1
<1>3. w.current = Walk[t].entry /\ w.state = Walk[t].state /\ Walk[t].entry.cc_offset = t
  BY <1>2, WalkGoesUp DEF IsAt, Shape
<1>4. ~Has(t) <=> t >= Len(bytes)
  BY <1>1, <1>2 DEF Has
<1> QED BY <1>3, <1>4 DEF LoopEnds, Ends, Hit, Settled

LEMMA TurnIs ==
  ASSUME BytesOK, NEW f \in Nat, NEW t \in f .. Len(bytes), t < Len(bytes), NEW w, IsAt(w, f, t)
  PROVE  IsAt(LoopTurn(w), f, t + 1)
<1> DEFINE r == LoopTurn(w)
<1>1. Len(bytes) \in Nat
  BY LenProperties DEF BytesOK
<1>2. PICK p \in 1 .. Len(bytes) : p = t + 1 /\ p - 1 = t /\ p \in 0 .. Len(bytes) /\ t \in 0 .. Len(bytes)
  BY <1>1
<1>3. w.current = Walk[t].entry /\ w.state = Walk[t].state /\ Walk[t].entry.cc_offset = t
  BY <1>2, WalkGoesUp DEF IsAt, Shape
<1>4. /\ Walk[p].entry = NextEntry(w.current, w.state)
      /\ Walk[p].state = NextState(w.state, w.current.cc_offset)
  <2>1. Walk[p] = [entry |-> NextEntry(w.current, w.state),
                   state |-> NextState(w.state, w.current.cc_offset)]
    BY <1>2, <1>3, WalkIs
  <2> QED BY <2>1
<1>5. /\ r.current = Walk[p].entry /\ r.state = Walk[p].state
      /\ r.entry = IF CanSave(bytes[p], Walk[p].state) THEN Walk[p].entry ELSE w.entry
  BY <1>2, <1>3, <1>4 DEF LoopTurn
<1> HIDE DEF r
<1>6. p \in SavedEntry <=> CanSave(bytes[p], Walk[p].state)
  BY <1>2 DEF SavedEntry
<1>7. PICK s \in f .. t : LastSaved(f, s, t) /\ w.entry = Walk[s].entry
  BY DEF IsAt
<1>8. CASE CanSave(bytes[p], Walk[p].state)
  <2>1. LastSaved(f, p, p) /\ p \in f .. p
    BY <1>2, <1>6, <1>8 DEF LastSaved
  <2> QED BY <1>2, <1>5, <1>8, <2>1 DEF IsAt, r
<1>9. CASE ~CanSave(bytes[p], Walk[p].state)
  <2>1. \A i \in s + 1 .. p : i = p \/ i \in s + 1 .. t
    BY <1>2, <1>7
  <2>2. s \in f .. p
    BY <1>2, <1>7
  <2>3. LastSaved(f, s, p)
    BY <1>6, <1>7, <1>9, <2>1, <2>2 DEF LastSaved
  <2> QED BY <1>2, <1>5, <1>7, <1>9, <2>2, <2>3 DEF IsAt, r
<1> QED BY <1>8, <1>9

LEMMA WalkedIs ==
  ASSUME BytesOK, NEW what, NEW coord, NEW f \in SavedEntry, NEW from, from = Walk[f].entry,
         NEW limit \in Nat, limit > f
  PROVE  Turned(what, coord, limit, Walked(what, coord, from, limit), f, limit - f)
<1> DEFINE D(w) == IF LoopEnds(what, coord, limit, w) THEN w ELSE LoopTurn(w)
           n == limit - from.cc_offset
           start == [current |-> from, entry |-> from, state |-> "NROFF_START"]
           R(g) == [k \in 0 .. n |-> IF k = 0 THEN start ELSE D(g[k - 1])]
           C == CHOOSE g : g = R(g)
           st == [w \in Loops |-> D(w)]
<1>1. Len(bytes) \in Nat /\ f \in Nat /\ f \in 0 .. Len(bytes) /\ f \in f .. Len(bytes)
  BY SavedIs, LenProperties DEF BytesOK
<1>2. from.cc_offset = f /\ n = limit - f /\ n \in Nat
  <2>1. from.cc_offset = f
    BY <1>1, WalkGoesUp DEF Shape
  <2> QED BY <1>1, <2>1
<1>3. Walked(what, coord, from, limit) = C[n]
  BY DEF Walked, LoopEnds, LoopTurn
<1>4. start \in Loops /\ IsAt(start, f, f)
  <2>1. Walk[f].state = "NROFF_START" /\ Walk[f].entry \in Entries
    BY SavedIs
  <2>2. start \in Loops
    BY <2>1 DEF Loops, States
  <2>3. LastSaved(f, f, f) /\ f \in f .. f
    BY <1>1 DEF LastSaved
  <2>4. start.current = Walk[f].entry /\ start.state = Walk[f].state /\ start.entry = Walk[f].entry
    BY <2>1
  <2> HIDE DEF start
  <2> QED BY <2>2, <2>3, <2>4 DEF IsAt
<1>5. ASSUME NEW w, NEW k \in Nat, Turned(what, coord, limit, w, f, k)
      PROVE  Turned(what, coord, limit, D(w), f, k + 1)
  <2>1. PICK t \in f .. Len(bytes) :
          /\ t <= f + k /\ IsAt(w, f, t)
          /\ t = f + k \/ Ends(what, coord, limit, t)
          /\ \A i \in f .. t - 1 : ~Ends(what, coord, limit, i)
    BY <1>5 DEF Turned
  <2>2. LoopEnds(what, coord, limit, w) <=> Ends(what, coord, limit, t)
    BY <1>1, <2>1, EndsIs
  <2>3. t \in Int /\ t <= f + (k + 1)
    BY <1>1, <2>1
  <2>4. CASE Ends(what, coord, limit, t)
    <3>1. D(w) = w
      BY <2>2, <2>4
    <3> HIDE DEF D
    <3> QED BY <2>1, <2>3, <2>4, <3>1 DEF Turned
  <2>5. CASE ~Ends(what, coord, limit, t)
    <3>1. D(w) = LoopTurn(w)
      BY <2>2, <2>5
    <3> HIDE DEF D
    <3>2. t < Len(bytes) /\ t = f + k
      BY <1>1, <2>1, <2>3, <2>5 DEF Ends
    <3>3. IsAt(LoopTurn(w), f, t + 1)
      BY <1>1, <2>1, <3>2, TurnIs
    <3>4. PICK p \in f .. Len(bytes) : p = t + 1 /\ p = f + (k + 1)
      BY <1>1, <2>1, <3>2
    <3>5. \A i \in f .. p - 1 : i = t \/ i \in f .. t - 1
      BY <1>1, <2>3, <3>4
    <3>6. \A i \in f .. p - 1 : ~Ends(what, coord, limit, i)
      BY <2>1, <2>5, <3>5
    <3>7. p <= f + (k + 1)
      BY <1>1, <3>4
    <3> QED BY <3>1, <3>3, <3>4, <3>6, <3>7 DEF Turned
  <2> QED BY <2>4, <2>5
<1>6. Turned(what, coord, limit, start, f, 0)
  <2> HIDE DEF start
  <2>1. f <= f + 0 /\ f = f + 0 /\ f .. f - 1 = {}
    BY <1>1
  <2> QED BY <1>1, <1>4, <2>1 DEF Turned
<1>7. st \in [Loops -> Loops] /\ \A w \in Loops : st[w] = D(w)
  <2> SUFFICES ASSUME NEW w \in Loops PROVE D(w) \in Loops
    OBVIOUS
  <2> QED BY TurnTyped
<1> HIDE DEF st, D, start, n
<1>8. PICK F \in [0 .. n -> Loops] : Turns(F, n, start, st)
  BY <1>2, <1>4, <1>7, LoopHasValues
<1>9. F = R(F)
  <2>1. \A k \in 1 .. n : F[k] = D(F[k - 1])
    <3> SUFFICES ASSUME NEW k \in 1 .. n PROVE F[k] = D(F[k - 1])
      OBVIOUS
    <3>1. k - 1 \in 0 .. n
      BY <1>2
    <3> QED BY <1>7, <1>8, <3>1 DEF Turns
  <2>2. \A k \in 0 .. n : k = 0 \/ k \in 1 .. n
    BY <1>2
  <2> QED BY <1>8, <2>1, <2>2 DEF Turns
<1>10. C = R(C)
  <2> HIDE DEF R
  <2> QED BY <1>9
<1> HIDE DEF C
<1>11. C[0] = start /\ \A k \in 1 .. n : C[k] = D(C[k - 1])
  BY <1>2, <1>10
<1>12. Turned(what, coord, limit, C[n], f, n)
  <2> DEFINE T == {m \in Nat : m <= n => Turned(what, coord, limit, C[m], f, m)}
  <2>1. 0 \in T
    BY <1>6, <1>11
  <2>2. ASSUME NEW m \in Nat, m \in T PROVE m + 1 \in T
    <3> SUFFICES ASSUME m + 1 <= n PROVE Turned(what, coord, limit, C[m + 1], f, m + 1)
      OBVIOUS
    <3>1. PICK j \in 1 .. n : j = m + 1 /\ j - 1 = m
      BY <1>2
    <3>2. C[j] = D(C[m])
      BY <1>11, <3>1
    <3>3. Turned(what, coord, limit, C[m], f, m)
      BY <1>2, <2>2
    <3> QED BY <1>5, <3>1, <3>2, <3>3
  <2> HIDE DEF T
  <2>3. n \in T
    BY <1>2, <2>1, <2>2, NatInduct
  <2> QED BY <1>2, <2>3 DEF T
<1> QED BY <1>2, <1>3, <1>12

-----------------------------------------------------------------------------
(* The entries are places of the walk that can be saved, first to last.     *)
CacheTrue ==
  /\ coord_cache \in Seq(Entries)
  /\ coord_cache # << >> => coord_cache[1] = First
  /\ \A k \in 1 .. Len(coord_cache) :
       /\ coord_cache[k].cc_offset \in SavedEntry
       /\ coord_cache[k] = Walk[coord_cache[k].cc_offset].entry
  /\ \A j, k \in 1 .. Len(coord_cache) :
       j < k => coord_cache[j].cc_offset < coord_cache[k].cc_offset

CcInv ==
  /\ BytesOK /\ nroff \in BOOLEAN
  /\ lookup.at = "retry" => Asked(lookup.what, lookup.coord)
  /\ ~rewritten => CacheTrue /\ (lookup.at = "retry" => coord_cache # << >>)

LEMMA MinIs ==
  ASSUME NEW S \in SUBSET Int, NEW t \in S, \A y \in S : t <= y
  PROVE  Min(S) = t
<1>1. Min(S) \in S /\ \A y \in S : Min(S) <= y
  BY DEF Min
<1>2. Min(S) \in Int /\ t \in Int /\ Min(S) <= t /\ t <= Min(S)
  BY <1>1
<1> QED BY <1>2

LEMMA FirstFields == Has4(First, 0, 0, 0, 0)
BY EntryIs DEF First

(* What is asked for is not before the first entry, nor, when it is before  *)
(* an entry, behind a later one.                                            *)
LEMMA CacheGrows ==
  ASSUME BytesOK, CacheTrue, coord_cache # << >>, NEW what, NEW coord, Asked(what, coord)
  PROVE  Growing(what, coord) /\ ~Before(what, coord, coord_cache[1])
<1>1. ASSUME NEW j \in 1 .. Len(coord_cache), NEW k \in 1 .. Len(coord_cache), j <= k,
             Before(what, coord, coord_cache[j])
      PROVE  Before(what, coord, coord_cache[k])
  <2>1. CASE j = k
    BY <1>1, <2>1
  <2>2. CASE j # k
    <3>0. j < k
      BY <1>1, <2>2
    <3>1. PICK o \in SavedEntry, p \in SavedEntry :
            /\ coord_cache[j] = Walk[o].entry /\ coord_cache[k] = Walk[p].entry /\ o < p
      BY <3>0 DEF CacheTrue
    <3>2. o \in 0 .. p - 1 /\ Settled(what, o)
      BY <3>1, SavedIs DEF Settled
    <3>3. Before(what, coord_cache[j], coord_cache[k])
      BY <3>1, <3>2, BeforeSaved DEF Asked
    <3>4. coord \in Entries /\ coord_cache[j] \in Entries /\ coord_cache[k] \in Entries
      BY <3>1, SavedIs DEF Asked
    <3> QED BY <1>1, <3>3, <3>4, BeforeOrders
  <2> QED BY <2>1, <2>2
<1>2. ~Before(what, coord, First)
  BY FirstFields DEF Before, Asked, Has4, Entries, Kinds
<1>3. coord_cache[1] = First
  BY DEF CacheTrue
<1> QED BY <1>1, <1>2, <1>3 DEF Growing

(* No place before an entry answers what is not before the entry.           *)
LEMMA NoneBehind ==
  ASSUME BytesOK, NEW what, NEW coord, Asked(what, coord), NEW f \in SavedEntry,
         ~Before(what, coord, Walk[f].entry), NEW o \in 0 .. f - 1
  PROVE  ~Hit(what, coord, o)
<1> SUFFICES ASSUME Hit(what, coord, o) PROVE FALSE
  OBVIOUS
<1>1. f \in 0 .. Len(bytes) /\ Len(bytes) \in Nat
  BY SavedIs, LenProperties DEF BytesOK
<1>2. o \in 0 .. Len(bytes)
  BY <1>1
<1>3. Walk[o].entry \in Entries /\ Walk[f].entry \in Entries /\ coord \in Entries
  BY <1>1, <1>2, WalkIs DEF Steps, Asked
<1>4. Before(what, Walk[o].entry, Walk[f].entry)
  BY BeforeSaved DEF Hit, Asked
<1>5. Before(what, Walk[o].entry, coord)
  BY <1>3, <1>4, BeforeOrders
<1> QED BY <1>5 DEF Hit

(* The first place that answers is the one expected.                        *)
Answers(what, coord) == {Len(bytes)} \cup {o \in 0 .. Len(bytes) : Hit(what, coord, o)}

LEMMA ExpectedIs ==
  ASSUME BytesOK, NEW what, NEW coord, Asked(what, coord), NEW t \in Answers(what, coord),
         \A y \in Answers(what, coord) : t <= y
  PROVE  Expected(what, coord) = Walk[t].entry
<1>1. Len(bytes) \in Nat
  BY LenProperties DEF BytesOK
<1>2. t \in 0 .. Len(bytes) /\ t \in Int
  BY <1>1 DEF Answers
<1>3. CASE what = "CCACHE_LINECOL"
  <2>1. coord.cc_offset \in Nat
    BY DEF Asked, Entries
  <2>2. ASSUME NEW o \in 0 .. Len(bytes) PROVE Hit(what, coord, o) <=> o >= coord.cc_offset
    <3>1. Walk[o].entry.cc_offset = o
      BY <2>2, WalkGoesUp DEF Shape
    <3> QED BY <1>1, <1>3, <2>1, <3>1 DEF Hit, Settled, Before
  <2>3. t = Len(bytes) \/ t >= coord.cc_offset
    BY <1>2, <2>2 DEF Answers
  <2>4. coord.cc_offset <= Len(bytes) => t <= coord.cc_offset
    <3> SUFFICES ASSUME coord.cc_offset <= Len(bytes) PROVE t <= coord.cc_offset
      OBVIOUS
    <3>1. coord.cc_offset \in 0 .. Len(bytes)
      BY <1>1, <2>1
    <3>2. Hit(what, coord, coord.cc_offset)
      BY <2>1, <2>2, <3>1
    <3> QED BY <3>1, <3>2 DEF Answers
  <2>5. t \in {coord.cc_offset, Len(bytes)} /\ t <= coord.cc_offset /\ t <= Len(bytes)
    BY <1>1, <1>2, <2>1, <2>3, <2>4
  <2>6. Min({coord.cc_offset, Len(bytes)}) = t
    <3> DEFINE S == {coord.cc_offset, Len(bytes)}
    <3>1. S \in SUBSET Int /\ t \in S /\ \A y \in S : t <= y
      BY <1>1, <2>1, <2>5
    <3> HIDE DEF S
    <3>2. Min(S) = t
      BY <3>1, MinIs
    <3> QED BY <3>2 DEF S
  <2> QED BY <1>3, <2>6 DEF Expected
<1>4. CASE what = "CCACHE_OFFSET"
  <2> DEFINE S == {Len(bytes)} \cup
                  {o \in 0 .. Len(bytes) : /\ ~Before(what, Walk[o].entry, coord)
                                           /\ nroff => Walk[o].state = "NROFF_START"}
  <2>1. S = Answers(what, coord)
    BY <1>4 DEF Answers, Hit, Settled
  <2>2. Expected(what, coord) = Walk[Min(S)].entry
    BY <1>4 DEF Expected
  <2> HIDE DEF S
  <2>3. S \in SUBSET Int
    BY <1>1, <2>1 DEF Answers
  <2>4. Min(S) = t
    BY <2>1, <2>3, MinIs
  <2> QED BY <2>2, <2>4
<1> QED BY <1>3, <1>4 DEF Asked, Kinds

(* One turn of "retry:".                                                    *)
LEMMA RetryDoes ==
  ASSUME CcInv, ~rewritten, lookup.at = "retry", retry
  PROVE  /\ \/ coord_cache' = coord_cache
            \/ \E s \in SavedEntry :
                 /\ coord_cache' = Append(coord_cache, Walk[s].entry)
                 /\ \A j \in 1 .. Len(coord_cache) : coord_cache[j].cc_offset < s
         /\ lookup'.at \in {"retry", "found", "interrupted"}
         /\ lookup'.at = "retry" => lookup' = lookup
         /\ lookup'.at = "found" /\ Passable =>
              lookup'.coord = Expected(lookup.what, lookup.coord)
<1> DEFINE what == lookup.what
           coord == lookup.coord
           n == Len(coord_cache)
           k == mcview_ccache_find(what, coord)
           from == coord_cache[k]
           f == from.cc_offset
           limit == IF k < n THEN coord_cache[k + 1].cc_offset
                    ELSE from.cc_offset + VIEW_COORD_CACHE_GRANUL
           w == Walked(what, coord, from, limit)
           adds == k = n /\ w.entry.cc_offset # from.cc_offset
           returns(at) == lookup' = [at |-> at, what |-> "none", coord |-> w.current]
<1>1. BytesOK /\ CacheTrue /\ coord_cache # << >> /\ Asked(what, coord) /\ coord_cache \in Seq(Entries)
  BY DEF CcInv, CacheTrue
<1>2. /\ coord_cache' = IF adds THEN Append(coord_cache, w.entry) ELSE coord_cache
      /\ \/ adds /\ UNCHANGED lookup
         \/ adds /\ returns("interrupted")
         \/ ~adds /\ returns("found")
  BY DEF retry
<1>3. Len(bytes) \in Nat /\ n \in Nat
  BY <1>1, LenProperties DEF BytesOK
<1>4. Growing(what, coord) /\ ~Before(what, coord, coord_cache[1])
  BY <1>1, CacheGrows
<1> HIDE DEF what, coord
<1>5. /\ k \in 1 .. n /\ ~Before(what, coord, coord_cache[k])
      /\ k < n => Before(what, coord, coord_cache[k + 1])
  BY <1>1, <1>4, FindIs
<1> HIDE DEF k, n
<1>6. f \in SavedEntry /\ from = Walk[f].entry /\ f \in 0 .. Len(bytes)
  BY <1>1, <1>5, SavedIs DEF CacheTrue, n
<1>7. k < n => /\ limit \in SavedEntry /\ limit > f
               /\ coord_cache[k + 1] = Walk[limit].entry
  <2> SUFFICES ASSUME k < n PROVE /\ limit \in SavedEntry /\ limit > f
                                  /\ coord_cache[k + 1] = Walk[limit].entry
    OBVIOUS
  <2>1. PICK h \in 1 .. n : h = k + 1 /\ k < h
    BY <1>3, <1>5
  <2>2. /\ coord_cache[h].cc_offset \in SavedEntry /\ from.cc_offset < coord_cache[h].cc_offset
        /\ coord_cache[h] = Walk[coord_cache[h].cc_offset].entry
    BY <1>1, <1>5, <2>1 DEF CacheTrue, n
  <2>3. coord_cache[h].cc_offset \in Nat /\ from.cc_offset \in Nat
    BY <1>1, <1>6, <2>2, SavedIs
  <2> QED BY <2>1, <2>2, <2>3
<1>8. limit \in Nat /\ limit > f
  <2>1. CASE k < n
    BY <1>1, <1>7, <2>1, SavedIs
  <2>2. CASE ~(k < n)
    BY <1>6, <2>2, GranulAssumption
  <2> QED BY <2>1, <2>2
<1>9. k = n => limit = f + VIEW_COORD_CACHE_GRANUL
  BY <1>3
<1> HIDE DEF limit
<1>10. Turned(what, coord, limit, w, f, limit - f)
  <2> HIDE DEF f, from
  <2>1. \A c : \A l \in Nat : c \in SavedEntry /\ from = Walk[c].entry /\ l > c =>
          Turned(what, coord, l, Walked(what, coord, from, l), c, l - c)
    BY <1>1, WalkedIs
  <2> QED BY <1>6, <1>8, <2>1
<1> HIDE DEF f, from, w
<1>11. PICK t \in f .. Len(bytes) :
         /\ IsAt(w, f, t) /\ t <= limit
         /\ t = limit \/ Ends(what, coord, limit, t)
         /\ \A i \in f .. t - 1 : ~Ends(what, coord, limit, i)
  <2>1. f + (limit - f) = limit
    BY <1>6, <1>8
  <2> QED BY <1>10, <2>1 DEF Turned
<1>12. w.current = Walk[t].entry
  BY <1>11 DEF IsAt
<1>13. PICK s \in f .. t : LastSaved(f, s, t) /\ w.entry = Walk[s].entry
  BY <1>11 DEF IsAt
<1>14. s \in SavedEntry /\ w.entry.cc_offset = s /\ s \in 0 .. Len(bytes)
  <2>1. s \in SavedEntry
    BY <1>13 DEF LastSaved
  <2>2. s \in 0 .. Len(bytes)
    BY <1>1, <2>1, SavedIs
  <2> QED BY <1>1, <1>13, <2>1, <2>2, WalkGoesUp DEF Shape
<1>15. adds => \A j \in 1 .. n : coord_cache[j].cc_offset < s
  <2> SUFFICES ASSUME adds, NEW j \in 1 .. n PROVE coord_cache[j].cc_offset < s
    OBVIOUS
  <2>1. s # f /\ f < s
    BY <1>6, <1>13, <1>14 DEF f
  <2>2. coord_cache[k].cc_offset = f /\ j \in 1 .. k
    BY DEF f, from
  <2>3. coord_cache[j].cc_offset \in Int
    BY <1>1, SavedIs DEF CacheTrue, n
  <2>4. j = k \/ coord_cache[j].cc_offset < f
    BY <1>1, <1>5, <2>2 DEF CacheTrue, n
  <2> QED BY <1>6, <1>14, <2>1, <2>2, <2>3, <2>4
<1>16. ASSUME ~adds, Passable PROVE w.current = Expected(what, coord)
  <2>1. t \in Answers(what, coord)
    <3>1. CASE t = Len(bytes) \/ Hit(what, coord, t)
      BY <1>6, <1>11, <3>1 DEF Answers
    <3>2. CASE t # Len(bytes) /\ ~Hit(what, coord, t)
      <4>1. t = limit /\ t < Len(bytes)
        BY <1>3, <1>6, <1>8, <1>11, <3>2 DEF Ends
      <4>2. CASE k < n
        <5>1. limit \in SavedEntry /\ coord_cache[k + 1] = Walk[t].entry /\ Walk[t].entry \in Entries
          BY <1>1, <1>7, <4>1, <4>2, SavedIs
        <5>2. Settled(what, t)
          BY <1>1, <4>1, <5>1, SavedIs DEF Settled
        <5>3. ~Before(what, Walk[t].entry, coord)
          BY <1>1, <1>5, <4>2, <5>1, BeforeOrders DEF Asked
        <5> QED BY <3>2, <5>2, <5>3 DEF Hit
      <4>3. CASE ~(k < n)
        <5>1. k = n /\ limit = f + VIEW_COORD_CACHE_GRANUL
          BY <1>3, <1>5, <1>9, <4>3
        <5>2. s = f
          BY <1>14, <1>16, <5>1 DEF f
        <5>3. PICK o \in SavedEntry : f < o /\ o <= limit
          BY <1>6, <1>16, <4>1, <5>1 DEF Passable
        <5>4. o \in s + 1 .. t
          BY <1>1, <1>6, <4>1, <5>2, <5>3, SavedIs
        <5> QED BY <1>13, <5>3, <5>4 DEF LastSaved
      <4> QED BY <4>2, <4>3
    <3> QED BY <3>1, <3>2
  <2>2. ASSUME NEW y \in Answers(what, coord) PROVE t <= y
    <3> SUFFICES ASSUME ~(t <= y) PROVE FALSE
      OBVIOUS
    <3>1. y \in 0 .. Len(bytes) /\ y < t /\ Hit(what, coord, y)
      BY <1>3, <1>6, <1>11 DEF Answers
    <3>2. CASE y < f
      <4>1. y \in 0 .. f - 1
        BY <1>6, <3>1, <3>2
      <4>2. ~Before(what, coord, Walk[f].entry)
        BY <1>5, <1>6 DEF from
      <4> QED BY <1>1, <1>6, <3>1, <4>1, <4>2, NoneBehind
    <3>3. CASE ~(y < f)
      <4>1. y \in f .. t - 1
        BY <1>6, <3>1, <3>3
      <4> QED BY <1>11, <3>1, <4>1 DEF Ends
    <3> QED BY <3>2, <3>3
  <2> QED BY <1>1, <1>12, <2>1, <2>2, ExpectedIs
<1> HIDE DEF adds
<1>17. \/ coord_cache' = coord_cache
       \/ \E z \in SavedEntry :
            /\ coord_cache' = Append(coord_cache, Walk[z].entry)
            /\ \A j \in 1 .. Len(coord_cache) : coord_cache[j].cc_offset < z
  <2>1. CASE adds
    BY <1>2, <1>13, <1>14, <1>15, <2>1 DEF n
  <2>2. CASE ~adds
    BY <1>2, <2>2
  <2> QED BY <2>1, <2>2
<1>18. CASE adds /\ UNCHANGED lookup
  BY <1>17, <1>18
<1>19. CASE adds /\ returns("interrupted")
  <2>1. lookup'.at = "interrupted"
    BY <1>19
  <2> QED BY <1>17, <2>1
<1>20. CASE ~adds /\ returns("found")
  <2>1. lookup'.at = "found" /\ lookup'.coord = w.current
    BY <1>20
  <2> QED BY <1>16, <1>17, <1>20, <2>1 DEF what, coord
<1> QED BY <1>2, <1>18, <1>19, <1>20

(* The walk depends on the file alone.                                      *)
LEMMA SameWalk ==
  ASSUME bytes' = bytes PROVE Walk' = Walk /\ SavedEntry' = SavedEntry
BY DEF Walk, SavedEntry, NextEntry, NextState, mcview_is_nroff_sequence, Has, Byte0, CanSave

LEMMA SameCache ==
  ASSUME bytes' = bytes, coord_cache' = coord_cache, CacheTrue PROVE CacheTrue'
BY SameWalk DEF CacheTrue

LEMMA WalkHoldsThen == ASSUME BytesOK' PROVE WalkOK'
BY WalkHolds, PTL

(* A byte written does not disturb the walk in front of it, except for the  *)
(* two places from which it has been looked at.                             *)
LEMMA WalkKept ==
  ASSUME BytesOK, BytesOK', NEW i \in 1 .. Len(bytes), NEW c, bytes' = [bytes EXCEPT ![i] = c]
  PROVE  /\ Len(bytes') = Len(bytes) /\ Walk'[0].entry = First
         /\ \A o \in 0 .. Len(bytes) : o + 2 < i => Walk'[o] = Walk[o]
         /\ \A o \in 1 .. Len(bytes) : o < i => bytes'[o] = bytes[o]
<1> DEFINE n == Len(bytes)
           T == {m \in Nat : m <= n /\ m + 2 < i => Walk'[m] = Walk[m]}
<1>1. n \in Nat /\ DOMAIN bytes = 1 .. n
  BY LenProperties DEF BytesOK
<1>2. Len(bytes') = n
  <2>1. Len(bytes') \in Nat /\ DOMAIN bytes' = 1 .. Len(bytes')
    BY LenProperties DEF BytesOK
  <2>2. DOMAIN bytes' = DOMAIN bytes
    OBVIOUS
  <2> QED BY <1>1, <2>1, <2>2
<1>3. \A o \in 1 .. n : o # i => bytes'[o] = bytes[o]
  <2> HIDE DEF n
  <2> QED BY <1>1, Zenon
<1>4. WalkOK /\ WalkOK'
  BY WalkHolds, WalkHoldsThen
<1>5. Walk[0] = [entry |-> First, state |-> "NROFF_START"] /\ Walk'[0] = Walk[0]
  BY <1>4 DEF WalkOK, First, Entry
<1>6. ASSUME NEW m \in Nat, m \in T PROVE m + 1 \in T
  <2> SUFFICES ASSUME m + 1 <= n, m + 3 < i PROVE Walk'[m + 1] = Walk[m + 1]
    BY <1>6
  <2>1. PICK q \in 1 .. n : q = m + 1 /\ q - 1 = m /\ m \in 0 .. n /\ m < n
    BY <1>1
  <2>2. PICK v : v = Walk[m]
    OBVIOUS
  <2>3. Walk'[m] = v
    BY <1>1, <1>6, <2>2
  <2>4. Walk[q] = [entry |-> NextEntry(v.entry, v.state), state |-> NextState(v.state, v.entry.cc_offset)]
    BY <1>4, <2>1, <2>2 DEF WalkOK
  <2>5. Walk'[q] = [entry |-> NextEntry(v.entry, v.state)',
                    state |-> NextState(v.state, v.entry.cc_offset)']
    <3>1. \A o \in 1 .. Len(bytes') :
            Walk'[o] = [entry |-> NextEntry(Walk[o - 1].entry, Walk[o - 1].state)',
                        state |-> NextState(Walk[o - 1].state, Walk[o - 1].entry.cc_offset)']
      BY <1>4 DEF WalkOK
    <3>2. Walk'[q - 1] = v /\ q \in 1 .. Len(bytes')
      BY <1>2, <2>1, <2>3
    <3>3. /\ NextEntry(Walk[q - 1].entry, Walk[q - 1].state)' = NextEntry(v.entry, v.state)'
          /\ NextState(Walk[q - 1].state, Walk[q - 1].entry.cc_offset)'
               = NextState(v.state, v.entry.cc_offset)'
      BY <3>2 DEF NextEntry, NextState
    <3> QED BY <3>1, <3>2, <3>3
  <2>6. v.entry.cc_offset = m
    BY <2>1, <2>2, WalkGoesUp DEF Shape
  <2>7. /\ bytes'[m + 1] = bytes[m + 1] /\ (m + 1 < n => bytes'[m + 2] = bytes[m + 2])
        /\ (m + 2 < n => bytes'[m + 3] = bytes[m + 3])
    BY <1>1, <1>3, <2>1
  <2> HIDE DEF n
  <2>8. /\ Has(m + 1)' = Has(m + 1) /\ Has(m + 2)' = Has(m + 2)
        /\ Has(m + 1) => m + 1 < n
        /\ Has(m + 2) => m + 1 < n /\ m + 2 < n
    BY <1>1, <1>2, <2>1 DEF Has, n
  <2>9. NextEntry(v.entry, v.state)' = NextEntry(v.entry, v.state)
    <3>1. Byte0(m + 1)' = Byte0(m + 1)
      BY <2>7, <2>8 DEF Byte0
    <3> QED BY <2>6, <2>7, <3>1 DEF NextEntry
  <2>10. mcview_is_nroff_sequence(m)' = mcview_is_nroff_sequence(m)
    BY <2>7, <2>8 DEF mcview_is_nroff_sequence
  <2>11. NextState(v.state, v.entry.cc_offset)' = NextState(v.state, v.entry.cc_offset)
    BY <2>6, <2>10 DEF NextState
  <2> QED BY <2>1, <2>4, <2>5, <2>9, <2>11
<1>7. ASSUME NEW o \in 0 .. n, o + 2 < i PROVE Walk'[o] = Walk[o]
  <2>1. 0 \in T
    BY <1>5
  <2> HIDE DEF T
  <2>2. o \in T
    BY <1>1, <1>6, <2>1, NatInduct
  <2> QED BY <1>1, <1>7, <2>2 DEF T
<1> QED BY <1>2, <1>3, <1>5, <1>7

LEMMA LongerCache ==
  ASSUME BytesOK, bytes' = bytes, CacheTrue, coord_cache # << >>, NEW s \in SavedEntry,
         coord_cache' = Append(coord_cache, Walk[s].entry),
         \A j \in 1 .. Len(coord_cache) : coord_cache[j].cc_offset < s
  PROVE  CacheTrue' /\ coord_cache' # << >>
<1> DEFINE e == Walk[s].entry
           c == Append(coord_cache, e)
           n == Len(coord_cache)
<1>1. e \in Entries /\ e.cc_offset = s
  <2>1. s \in 0 .. Len(bytes)
    BY SavedIs
  <2> QED BY <2>1, SavedIs, WalkGoesUp DEF Shape
<1> HIDE DEF e
<1>2. coord_cache \in Seq(Entries) /\ n \in Nat /\ n >= 1
  BY LenProperties, EmptySeq DEF CacheTrue
<1>3. /\ c \in Seq(Entries) /\ Len(c) = n + 1 /\ c[n + 1] = e
      /\ \A i \in 1 .. n : c[i] = coord_cache[i]
  BY <1>1, <1>2, AppendProperties
<1> HIDE DEF c, n
<1>4. c # << >> /\ c[1] = First
  BY <1>2, <1>3, EmptySeq DEF CacheTrue
<1>5. \A i \in 1 .. n + 1 : i = n + 1 \/ i \in 1 .. n
  BY <1>2
<1>6. ASSUME NEW i \in 1 .. n + 1
      PROVE  c[i].cc_offset \in SavedEntry /\ c[i] = Walk[c[i].cc_offset].entry
  <2>1. CASE i = n + 1
    BY <1>1, <1>3, <2>1 DEF e
  <2>2. CASE i \in 1 .. n
    BY <1>3, <2>2 DEF CacheTrue, n
  <2> QED BY <1>5, <2>1, <2>2
<1>7. ASSUME NEW i \in 1 .. n + 1, NEW j \in 1 .. n + 1, i < j
      PROVE  c[i].cc_offset < c[j].cc_offset
  <2>1. i \in 1 .. n
    BY <1>2, <1>7
  <2>2. CASE j = n + 1
    BY <1>1, <1>3, <2>1, <2>2 DEF n
  <2>3. CASE j \in 1 .. n
    BY <1>3, <1>7, <2>1, <2>3 DEF CacheTrue, n
  <2> QED BY <1>5, <2>2, <2>3
<1>8. coord_cache' = c
  BY DEF c, e
<1> QED BY <1>3, <1>4, <1>6, <1>7, <1>8, SameWalk DEF CacheTrue

LEMMA OneEntry ==
  ASSUME BytesOK, bytes' = bytes, coord_cache' = <<First>> PROVE CacheTrue' /\ coord_cache' # << >>
<1> DEFINE c == <<First>>
<1>1. c \in Seq(Entries) /\ Len(c) = 1 /\ c[1] = First /\ c # << >>
  BY FirstFields DEF Has4
<1> HIDE DEF c
<1>2. First.cc_offset = 0 /\ 0 \in SavedEntry /\ First = Walk[0].entry
  BY FirstFields, WalkIs DEF Has4, SavedEntry
<1>3. coord_cache' = c
  BY DEF c
<1> QED BY <1>1, <1>2, <1>3, SameWalk DEF CacheTrue

(* Every step keeps the invariant, and every answer is the one expected.    *)
AnswerOK ==
  (lookup.at = "retry" /\ lookup'.at = "found" /\ ~rewritten /\ Passable) =>
    lookup'.coord = Expected(lookup.what, lookup.coord)

LEMMA CcInitInv == CcInit => CcInv
<1> SUFFICES ASSUME CcInit PROVE CcInv
  OBVIOUS
<1>1. BytesOK
  <2>1. PICK m \in Nat : bytes \in [1 .. m -> FileBytes]
    BY GranulAssumption DEF CcInit
  <2>2. bytes \in [1 .. m -> FileBytes \cup HexBytes]
    BY <2>1
  <2> QED BY <2>2, SeqDef DEF BytesOK
<1>2. CacheTrue
  BY EmptySeq DEF CcInit, CacheTrue
<1> QED BY <1>1, <1>2 DEF CcInit, CcInv

LEMMA CcStep == ASSUME CcInv, [CcNext]_cc_vars PROVE CcInv' /\ AnswerOK
<1>1. ASSUME NEW what \in Kinds, NEW coord, Asked(what, coord), mcview_ccache_lookup(what, coord)
      PROVE  CcInv' /\ AnswerOK
  <2>1. /\ bytes' = bytes /\ nroff' = nroff /\ rewritten' = rewritten /\ lookup.at # "retry"
        /\ lookup' = [at |-> "retry", what |-> what, coord |-> coord]
        /\ coord_cache' = IF coord_cache = << >> THEN <<First>> ELSE coord_cache
    BY <1>1 DEF mcview_ccache_lookup
  <2>2. BytesOK' /\ nroff' \in BOOLEAN
    BY <2>1 DEF CcInv, BytesOK
  <2>3. Asked(lookup.what, lookup.coord)'
    BY <1>1, <2>1 DEF Asked
  <2>4. ASSUME ~rewritten PROVE CacheTrue' /\ coord_cache' # << >>
    <3>1. CASE coord_cache = << >>
      BY <2>1, <3>1, OneEntry DEF CcInv
    <3>2. CASE coord_cache # << >>
      BY <2>1, <2>4, <3>2, SameCache DEF CcInv
    <3> QED BY <3>1, <3>2
  <2>5. AnswerOK
    BY <2>1 DEF AnswerOK
  <2> QED BY <2>1, <2>2, <2>3, <2>4, <2>5 DEF CcInv
<1>2. ASSUME NEW o \in 0 .. MaxFile, mcview_ccache_lookup("CCACHE_LINECOL", Entry(o, 0, 0, 0))
      PROVE  CcInv' /\ AnswerOK
  <2>1. Has4(Entry(o, 0, 0, 0), o, 0, 0, 0)
    BY GranulAssumption, EntryIs
  <2>2. Asked("CCACHE_LINECOL", Entry(o, 0, 0, 0)) /\ "CCACHE_LINECOL" \in Kinds
    BY <2>1 DEF Asked, Has4, Kinds, CcInv
  <2> QED BY <1>1, <1>2, <2>2
<1>3. ASSUME NEW l \in 0 .. 2, NEW c \in Columns, mcview_ccache_lookup("CCACHE_OFFSET", Entry(0, l, c, c))
      PROVE  CcInv' /\ AnswerOK
  <2>0. c \in Nat /\ l \in Nat
    BY ColumnsAssumption
  <2>1. Has4(Entry(0, l, c, c), 0, l, c, c)
    BY <2>0, EntryIs
  <2>2. Asked("CCACHE_OFFSET", Entry(0, l, c, c)) /\ "CCACHE_OFFSET" \in Kinds
    BY <2>0, <2>1 DEF Asked, Has4, Kinds, CcInv
  <2> QED BY <1>1, <1>3, <2>2
<1>4. ASSUME retry PROVE CcInv' /\ AnswerOK
  <2>1. bytes' = bytes /\ nroff' = nroff /\ rewritten' = rewritten /\ lookup.at = "retry"
    BY <1>4 DEF retry
  <2>2. BytesOK' /\ nroff' \in BOOLEAN /\ (Asked(lookup.what, lookup.coord))
    BY <2>1 DEF CcInv, BytesOK
  <2>3. CASE rewritten
    <3>1. lookup'.at = "retry" => lookup' = lookup
      BY <1>4 DEF retry
    <3>2. lookup'.at = "retry" => Asked(lookup.what, lookup.coord)'
      BY <2>1, <2>2, <3>1 DEF Asked
    <3> QED BY <2>1, <2>2, <2>3, <3>2 DEF CcInv, AnswerOK
  <2>4. CASE ~rewritten
    <3>1. /\ \/ coord_cache' = coord_cache
             \/ \E s \in SavedEntry :
                  /\ coord_cache' = Append(coord_cache, Walk[s].entry)
                  /\ \A j \in 1 .. Len(coord_cache) : coord_cache[j].cc_offset < s
          /\ lookup'.at = "retry" => lookup' = lookup
          /\ lookup'.at = "found" /\ Passable =>
               lookup'.coord = Expected(lookup.what, lookup.coord)
      BY <1>4, <2>1, <2>4, RetryDoes
    <3>2. CacheTrue /\ coord_cache # << >> /\ BytesOK
      BY <2>1, <2>4 DEF CcInv
    <3>3. CacheTrue' /\ coord_cache' # << >>
      <4>1. CASE coord_cache' = coord_cache
        BY <2>1, <3>2, <4>1, SameCache
      <4>2. CASE coord_cache' # coord_cache
        <5>1. PICK s \in SavedEntry :
                /\ coord_cache' = Append(coord_cache, Walk[s].entry)
                /\ \A j \in 1 .. Len(coord_cache) : coord_cache[j].cc_offset < s
          BY <3>1, <4>2
        <5> QED BY <2>1, <3>2, <5>1, LongerCache
      <4> QED BY <4>1, <4>2
    <3>4. lookup'.at = "retry" => Asked(lookup.what, lookup.coord)'
      BY <2>1, <2>2, <3>1 DEF Asked
    <3> QED BY <2>1, <2>2, <3>1, <3>3, <3>4 DEF CcInv, AnswerOK
  <2> QED BY <2>3, <2>4
<1>5. ASSUME mcview_toggle_nroff_mode PROVE CcInv' /\ AnswerOK
  <2>1. /\ bytes' = bytes /\ coord_cache' = coord_cache /\ lookup' = lookup
        /\ rewritten' = rewritten /\ nroff' = ~nroff /\ lookup.at # "retry"
    BY <1>5 DEF mcview_toggle_nroff_mode
  <2>2. nroff' \in BOOLEAN /\ BytesOK'
    BY <2>1 DEF CcInv, BytesOK
  <2>3. ~rewritten => CacheTrue'
    BY <2>1, SameCache DEF CcInv
  <2> QED BY <2>1, <2>2, <2>3 DEF CcInv, AnswerOK
<1>6. ASSUME mcview_set_byte PROVE CcInv' /\ AnswerOK
  <2>1. coord_cache' = coord_cache /\ lookup' = lookup /\ nroff' = nroff /\ lookup.at # "retry"
    BY <1>6 DEF mcview_set_byte
  <2>2. PICK o \in 0 .. Len(bytes) - 1, c \in HexBytes :
          /\ bytes' = [bytes EXCEPT ![o + 1] = c]
          /\ rewritten' = (rewritten \/ \E k \in 1 .. Len(coord_cache) : Behind(coord_cache[k], o))
    BY <1>6 DEF mcview_set_byte
  <2>3. PICK i \in 1 .. Len(bytes) : i = o + 1
    BY LenProperties DEF CcInv, BytesOK
  <2>4. bytes' = [bytes EXCEPT ![i] = c]
    BY <2>2, <2>3
  <2>5. BytesOK'
    <3> DEFINE S == FileBytes \cup HexBytes
    <3>1. bytes \in Seq(S) /\ c \in S
      BY DEF CcInv, BytesOK
    <3> HIDE DEF S
    <3>2. [bytes EXCEPT ![i] = c] \in Seq(S)
      BY <3>1, ExceptSeq
    <3> QED BY <2>4, <3>2 DEF BytesOK, S
  <2>6. ~rewritten' => CacheTrue'
    <3> SUFFICES ASSUME ~rewritten' PROVE CacheTrue'
      OBVIOUS
    <3>1. CacheTrue /\ ~rewritten /\ \A k \in 1 .. Len(coord_cache) : ~Behind(coord_cache[k], o)
      BY <2>2 DEF CcInv
    <3>2. /\ Len(bytes') = Len(bytes) /\ Walk'[0].entry = First
          /\ \A p \in 0 .. Len(bytes) : p + 2 < i => Walk'[p] = Walk[p]
          /\ \A p \in 1 .. Len(bytes) : p < i => bytes'[p] = bytes[p]
      BY <2>4, <2>5, WalkKept DEF CcInv
    <3>3. ASSUME NEW k \in 1 .. Len(coord_cache)
          PROVE  /\ coord_cache[k].cc_offset \in SavedEntry'
                 /\ coord_cache[k] = Walk'[coord_cache[k].cc_offset].entry
      <4> DEFINE p == coord_cache[k].cc_offset
      <4>1. p \in SavedEntry /\ coord_cache[k] = Walk[p].entry
        BY <3>1 DEF CacheTrue
      <4>2. CASE p = 0
        <5>1. Walk[0].entry = First
          BY WalkIs DEF CcInv
        <5> QED BY <3>2, <4>1, <4>2, <5>1 DEF SavedEntry
      <4>3. CASE p # 0
        <5>1. p \in 1 .. Len(bytes) /\ CanSave(bytes[p], Walk[p].state)
          BY <4>1, <4>3 DEF SavedEntry
        <5>2. p > 0 /\ p + 2 < i /\ p < i /\ p \in 0 .. Len(bytes)
          BY <2>3, <3>1, <5>1 DEF Behind
        <5> HIDE DEF p
        <5>3. Walk'[p] = Walk[p] /\ bytes'[p] = bytes[p]
          BY <3>2, <5>1, <5>2
        <5> QED BY <3>2, <4>1, <5>1, <5>3 DEF SavedEntry, CanSave, p
      <4> QED BY <4>2, <4>3
    <3> QED BY <2>1, <3>1, <3>3 DEF CacheTrue
  <2> QED BY <2>1, <2>2, <2>5, <2>6 DEF CcInv, AnswerOK
<1>7. ASSUME UNCHANGED cc_vars PROVE CcInv' /\ AnswerOK
  <2>1. /\ bytes' = bytes /\ coord_cache' = coord_cache /\ lookup' = lookup
        /\ rewritten' = rewritten /\ nroff' = nroff
    BY <1>7 DEF cc_vars
  <2>2. ~rewritten => CacheTrue'
    BY <2>1, SameCache DEF CcInv
  <2>3. Asked(lookup.what, lookup.coord) => Asked(lookup.what, lookup.coord)'
    BY <2>1 DEF Asked
  <2> QED BY <2>1, <2>2, <2>3 DEF CcInv, AnswerOK, BytesOK
<1> QED BY <1>2, <1>3, <1>4, <1>5, <1>6, <1>7 DEF CcNext

(* Lookups find what a walk over the whole file finds, for every file,      *)
(* every granule, and every order of lookups, interrupts and changes of the *)
(* mode (mcview_ccache_lookup).                                             *)
THEOREM AnswersAreTrue == CcSpec => AnswersTrue
<1>1. CcInv /\ [CcNext]_cc_vars => CcInv'
  BY CcStep
<1>2. CcInv /\ [CcNext]_cc_vars =>
        [(lookup.at = "retry" /\ lookup'.at = "found" /\ ~rewritten /\ Passable) =>
           lookup'.coord = Expected(lookup.what, lookup.coord)]_cc_vars
  BY CcStep DEF AnswerOK
<1> QED BY <1>1, <1>2, CcInitInv, PTL DEF CcSpec, AnswersTrue
=============================================================================
