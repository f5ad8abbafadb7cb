------------------------------ MODULE EditText ------------------------------
(***************************************************************************)
(* What the editor's text buffer promises its callers, with the storage    *)
(* left out: a text addressed by byte offset, 0 being the first byte, and  *)
(* a cursor standing between two bytes.  Callers see it only through       *)
(* edit_buffer_get_byte and the four alterations at the cursor.            *)
(*                                                                         *)
(* EditBuffer implements this specification with two arrays of blocks;     *)
(* EditUndo records and replays its alterations.                           *)
(***************************************************************************)
EXTENDS Integers

CONSTANTS Byte,     \* the byte values told apart
          NL,       \* '\n'
          MaxSize   \* bound on the size of a text (the range of off_t)

ASSUME MaxSizeAssumption == MaxSize \in Nat

VARIABLES text,     \* 0-based: a function on 0 .. size - 1
          size,     \* number of bytes of the text
          cursor    \* number of bytes in front of the cursor

textVars == <<text, size, cursor>>

-----------------------------------------------------------------------------
(* Texts as values.                                                         *)

TextsOfSize(n) == [0 .. n - 1 -> Byte]

(* The text t of n bytes with one byte more, or one byte less, at offset p. *)
WithByteAt(t, n, p, c) ==
  [i \in 0 .. n |-> IF i < p THEN t[i] ELSE IF i = p THEN c ELSE t[i - 1]]

WithoutByteAt(t, n, p) ==
  [i \in 0 .. n - 2 |-> IF i < p THEN t[i] ELSE t[i + 1]]

-----------------------------------------------------------------------------
(* Alterations at the cursor.                                               *)

Insert(c) ==
  /\ size < MaxSize
  /\ text' = WithByteAt(text, size, cursor, c)
  /\ size' = size + 1
  /\ cursor' = cursor + 1

InsertAhead(c) ==
  /\ size < MaxSize
  /\ text' = WithByteAt(text, size, cursor, c)
  /\ size' = size + 1
  /\ UNCHANGED cursor

Delete ==
  /\ cursor < size
  /\ text' = WithoutByteAt(text, size, cursor)
  /\ size' = size - 1
  /\ UNCHANGED cursor

Backspace ==
  /\ cursor > 0
  /\ text' = WithoutByteAt(text, size, cursor - 1)
  /\ size' = size - 1
  /\ cursor' = cursor - 1

CursorRight == cursor < size /\ cursor' = cursor + 1 /\ UNCHANGED <<text, size>>

CursorLeft == cursor > 0 /\ cursor' = cursor - 1 /\ UNCHANGED <<text, size>>

(* A file has been loaded, with the cursor in front of it. *)
Load ==
  /\ size' \in 0 .. MaxSize
  /\ text' \in TextsOfSize(size')
  /\ cursor' = 0

-----------------------------------------------------------------------------
Init == size = 0 /\ text \in TextsOfSize(0) /\ cursor = 0

Next ==
  \/ Load
  \/ \E c \in Byte : Insert(c) \/ InsertAhead(c)
  \/ Delete
  \/ Backspace
  \/ CursorRight
  \/ CursorLeft

Spec == Init /\ [][Next]_textVars
=============================================================================
