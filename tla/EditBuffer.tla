----------------------------- MODULE EditBuffer -----------------------------
(***************************************************************************)
(* The gap buffer of src/editor/editbuffer.c.                              *)
(*                                                                         *)
(* The bytes in front of the cursor are in the blocks of b1, from the      *)
(* beginning of the file on; the bytes behind it are in the blocks of b2,  *)
(* from the end of the file back, each block filled from its last byte to  *)
(* its first.  A block holds EDIT_BUF_SIZE bytes and is allocated (zeroed) *)
(* and freed as the number of bytes on its side crosses a multiple of that *)
(* size.  A freed byte is not cleared: what a block holds beyond the bytes *)
(* in use is whatever was there.                                           *)
(*                                                                         *)
(* The GPtrArrays b1 and b2 are sequences of blocks, a block a function on *)
(* byte offsets.  index >> S_EDIT_BUF_SIZE and index & M_EDIT_BUF_SIZE are *)
(* the quotient and the remainder by EDIT_BUF_SIZE.                        *)
(***************************************************************************)
EXTENDS Integers, SequencesExt

CONSTANTS Byte,            \* the byte values told apart
          NL,              \* '\n'
          NUL,             \* what g_malloc0 fills a block with
          EDIT_BUF_SIZE,   \* bytes per block
          MaxSize          \* bound on the size of a text (the range of off_t)

ASSUME ByteAssumption == NL \in Byte /\ NUL \in Byte
ASSUME BlockSizeAssumption == EDIT_BUF_SIZE \in Nat \ {0}
ASSUME MaxSizeAssumption == MaxSize \in Nat

VARIABLES
  b1,      \* blocks of the bytes before the cursor
  b2,      \* blocks of the bytes after the cursor, the end of the file first
  curs1,   \* number of bytes before the cursor
  curs2,   \* number of bytes after the cursor
  size,    \* file size, as the buffer keeps it
  loaded,  \* edit_load_file has succeeded: the widget lives
  out,     \* the bytes the last edit_buffer_write_file wrote
  ret      \* the count it returned

vars == <<b1, b2, curs1, curs2, size, loaded, out, ret>>

Block == [0 .. EDIT_BUF_SIZE - 1 -> Byte]
Zeroed == [i \in 0 .. EDIT_BUF_SIZE - 1 |-> NUL]

Quot(p) == p \div EDIT_BUF_SIZE
Rem(p) == p % EDIT_BUF_SIZE

-----------------------------------------------------------------------------
(* Bytes of the two sides, p counting from the beginning of the file in b1  *)
(* and from its end in b2.                                                  *)

B1Byte(blocks, p) == blocks[Quot(p) + 1][Rem(p)]
B2Byte(blocks, p) == blocks[Quot(p) + 1][EDIT_BUF_SIZE - 1 - Rem(p)]

edit_buffer_get_byte(i) ==
  IF i >= curs1 + curs2 \/ i < 0 THEN NL
  ELSE IF i >= curs1 THEN B2Byte(b2, curs1 + curs2 - i - 1)
  ELSE B1Byte(b1, i)

(* The side that has n bytes, with a block more when all of them are full   *)
(* and with a block less when the last one is about to lose its only byte.  *)
Grown(blocks, n) == IF Rem(n) = 0 THEN Append(blocks, Zeroed) ELSE blocks

\* Mutant: the block is freed a byte late.
ShrunkLate(blocks, n) ==
  IF Rem(n) = 0 THEN SubSeq(blocks, 1, Len(blocks) - 1) ELSE blocks

Shrunk(blocks, n) ==
  IF Rem(n - 1) = 0 THEN SubSeq(blocks, 1, Len(blocks) - 1) ELSE blocks

(* A byte more on a side of n bytes, at the given place of its last block.  *)
Put(blocks, n, slot, c) == [Grown(blocks, n) EXCEPT ![Quot(n) + 1][slot] = c]

B1Put(blocks, n, c) == Put(blocks, n, Rem(n), c)
B2Put(blocks, n, c) == Put(blocks, n, EDIT_BUF_SIZE - 1 - Rem(n), c)

-----------------------------------------------------------------------------
(* The four alterations.  Callers look at curs1 or curs2 before they remove *)
(* a byte (edit_delete, edit_backspace, edit_cursor_move).                  *)

edit_buffer_insert(c) ==
  /\ loaded /\ curs1 + curs2 < MaxSize
  /\ b1' = B1Put(b1, curs1, c)
  /\ curs1' = curs1 + 1
  /\ size' = size + 1
  /\ UNCHANGED <<b2, curs2, loaded, out, ret>>

edit_buffer_insert_ahead(c) ==
  /\ loaded /\ curs1 + curs2 < MaxSize
  /\ b2' = B2Put(b2, curs2, c)
  /\ curs2' = curs2 + 1
  /\ size' = size + 1
  /\ UNCHANGED <<b1, curs1, loaded, out, ret>>

edit_buffer_delete ==
  /\ loaded /\ curs2 # 0
  /\ b2' = Shrunk(b2, curs2)
  /\ curs2' = curs2 - 1
  /\ size' = size - 1
  /\ UNCHANGED <<b1, curs1, loaded, out, ret>>

edit_buffer_backspace ==
  /\ loaded /\ curs1 # 0
  /\ b1' = Shrunk(b1, curs1)
  /\ curs1' = curs1 - 1
  /\ size' = size - 1
  /\ UNCHANGED <<b2, curs2, loaded, out, ret>>

(* edit_cursor_move by one byte: the byte passed over is put on one side    *)
(* and taken off the other.                                                 *)
cursor_move_left ==
  /\ loaded /\ curs1 # 0
  /\ b2' = B2Put(b2, curs2, edit_buffer_get_byte(curs1 - 1))
  /\ b1' = Shrunk(b1, curs1)
  /\ curs1' = curs1 - 1 /\ curs2' = curs2 + 1
  /\ UNCHANGED <<size, loaded, out, ret>>

\* Mutant: the byte copied is the one in front of the cursor.
cursor_move_right_previous ==
  /\ loaded /\ curs2 # 0
  /\ b1' = B1Put(b1, curs1, edit_buffer_get_byte(curs1 - 1))
  /\ b2' = Shrunk(b2, curs2)
  /\ curs1' = curs1 + 1 /\ curs2' = curs2 - 1
  /\ UNCHANGED <<size, loaded, out, ret>>

cursor_move_right ==
  /\ loaded /\ curs2 # 0
  /\ b1' = B1Put(b1, curs1, edit_buffer_get_byte(curs1))
  /\ b2' = Shrunk(b2, curs2)
  /\ curs1' = curs1 + 1 /\ curs2' = curs2 - 1
  /\ UNCHANGED <<size, loaded, out, ret>>

-----------------------------------------------------------------------------
(* Loading.  edit_load_file_fast asks for the size that stat reported: the  *)
(* first mc_read fills the partial block, the next ones a whole block each, *)
(* in the order of the file, and the array is then reversed.                *)

PartialBlock(data, n) ==
  IF Rem(n) = 0 THEN << >>
  ELSE << [o \in 0 .. EDIT_BUF_SIZE - 1 |->
             IF o < EDIT_BUF_SIZE - Rem(n) THEN NUL
             ELSE data[o - (EDIT_BUF_SIZE - Rem(n))]] >>

WholeBlocks(data, n) ==
  [k \in 1 .. Quot(n) |->
     [o \in 0 .. EDIT_BUF_SIZE - 1 |-> data[Rem(n) + (k - 1) * EDIT_BUF_SIZE + o]]]

\* Mutant: the blocks stay in the order in which they were read.
edit_load_file_unreversed(data, n, got) ==
  /\ ~loaded /\ got = n
  /\ loaded' = TRUE
  /\ b1' = << >> /\ curs1' = 0
  /\ b2' = PartialBlock(data, n) \o WholeBlocks(data, n) /\ curs2' = n
  /\ size' = n
  /\ UNCHANGED <<out, ret>>

(* A file of which mc_read delivers got bytes where stat promised n.  When  *)
(* they differ the widget is dropped (edit_load_file calls edit_clean) and  *)
(* there is nothing to edit.                                                *)
edit_load_file(data, n, got) ==
  /\ ~loaded /\ got = n
  /\ loaded' = TRUE
  /\ b1' = << >> /\ curs1' = 0
  /\ b2' = Reverse(PartialBlock(data, n) \o WholeBlocks(data, n)) /\ curs2' = n
  /\ size' = n
  /\ UNCHANGED <<out, ret>>

edit_load_file_short(n, got) ==
  /\ ~loaded /\ got < n
  /\ UNCHANGED vars

-----------------------------------------------------------------------------
(* Writing: one mc_write per chunk, from the beginning of b1 to its partial *)
(* last block, then from the partial last block of b2 back to its first.    *)

BlockBytes(block, first, count) == [j \in 1 .. count |-> block[first + j - 1]]

WholeChunks(blocks) == [k \in 1 .. Len(blocks) |-> BlockBytes(blocks[k], 0, EDIT_BUF_SIZE)]

B1Chunks ==
  IF b1 = << >> THEN << >>
  ELSE WholeChunks(Front(b1)) \o << BlockBytes(Last(b1), 0, Rem(curs1 - 1) + 1) >>

\* Mutant: the blocks of b2 are written in the order they are stored in.
B2ChunksForward ==
  IF b2 = << >> THEN << >>
  ELSE LET count == Rem(curs2 - 1) + 1
       IN  << BlockBytes(Last(b2), EDIT_BUF_SIZE - count, count) >>
             \o WholeChunks(Front(b2))

B2Chunks ==
  IF b2 = << >> THEN << >>
  ELSE LET count == Rem(curs2 - 1) + 1
       IN  << BlockBytes(Last(b2), EDIT_BUF_SIZE - count, count) >>
             \o WholeChunks(Reverse(Front(b2)))

Chunks == B1Chunks \o B2Chunks

(* Every mc_write takes its chunk whole. *)
edit_buffer_write_file ==
  /\ loaded
  /\ out' = FlattenSeq(Chunks)
  /\ ret' = Len(out')
  /\ UNCHANGED <<b1, b2, curs1, curs2, size, loaded>>

(* The k-th mc_write takes n bytes only, or fails with -1, and is the last. *)
edit_buffer_write_file_short(k, n) ==
  /\ loaded /\ n < Len(Chunks[k])
  /\ out' = FlattenSeq(SubSeq(Chunks, 1, k - 1) \o << SubSeq(Chunks[k], 1, n) >>)
  /\ ret' = IF n = -1 /\ k = 1 /\ Len(b1) > 1 THEN -1 ELSE Len(out')
  /\ UNCHANGED <<b1, b2, curs1, curs2, size, loaded>>

-----------------------------------------------------------------------------
Init ==
  /\ b1 = << >> /\ b2 = << >>
  /\ curs1 = 0 /\ curs2 = 0 /\ size = 0
  /\ loaded = FALSE
  /\ out = << >> /\ ret = 0

Load ==
  \E n \in 0 .. MaxSize :
    \/ \E data \in [0 .. n - 1 -> Byte] : edit_load_file(data, n, n)
    \/ \E got \in 0 .. n : edit_load_file_short(n, got)

Alter ==
  \/ \E c \in Byte : edit_buffer_insert(c) \/ edit_buffer_insert_ahead(c)
  \/ edit_buffer_delete
  \/ edit_buffer_backspace
  \/ cursor_move_left
  \/ cursor_move_right

Write ==
  \/ edit_buffer_write_file
  \/ \E k \in DOMAIN Chunks : \E n \in -1 .. EDIT_BUF_SIZE - 1 :
       edit_buffer_write_file_short(k, n)

Next == Load \/ Alter \/ Write

Spec == Init /\ [][Next]_vars

-----------------------------------------------------------------------------
(* The blocks hold exactly the bytes in use: no block is missing, and none  *)
(* stays allocated once its side no longer reaches it (the g_ptr_array_add  *)
(* and g_ptr_array_remove_index at the block boundary).                     *)
BlocksCover(blocks, n) ==
  Len(blocks) = Quot(n) + (IF Rem(n) = 0 THEN 0 ELSE 1)

TypeOK ==
  /\ curs1 \in Nat /\ curs2 \in Nat
  /\ curs1 + curs2 <= MaxSize
  /\ size = curs1 + curs2
  /\ b1 \in Seq(Block) /\ BlocksCover(b1, curs1)
  /\ b2 \in Seq(Block) /\ BlocksCover(b2, curs2)
  /\ loaded \in BOOLEAN

(* What the buffer stands for: the bytes edit_buffer_get_byte yields.       *)
TextOf == [i \in 0 .. curs1 + curs2 - 1 |-> edit_buffer_get_byte(i)]

Text == INSTANCE EditText
          WITH text <- TextOf, cursor <- curs1, size <- size

(* The gap buffer is a text with a cursor: every alteration of the blocks   *)
(* has the effect on the visible bytes that its caller asked for, across    *)
(* every block boundary.                                                    *)
ImplementsText == Text!Spec

(* Loading puts the bytes of the file, in their order, behind the cursor:   *)
(* the chunks are read front to back and stored back to front.              *)
LoadedIsFile ==
  [][loaded' # loaded =>
       \A n \in 0 .. MaxSize : \A data \in [0 .. n - 1 -> Byte] :
         edit_load_file(data, n, n) => TextOf' = data]_vars

(* What reached the file is a beginning of the text, and the count returned *)
(* equals the size, which is what edit_save_file takes for success, only    *)
(* when it is all of the text.                                              *)
TextSeq == [i \in 1 .. size |-> TextOf[i - 1]]

WrittenIsText ==
  [][<<out', ret'>> # <<out, ret>> =>
       IsPrefix(out', TextSeq) /\ (ret' = size <=> out' = TextSeq)]_vars
=============================================================================
