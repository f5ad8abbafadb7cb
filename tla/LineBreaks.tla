----------------------------- MODULE LineBreaks -----------------------------
(***************************************************************************)
(* edit_write_stream (src/editor/edit.c): a text is written byte by byte   *)
(* with its line breaks converted.  Any fputc may fail; the count returned *)
(* tells edit_save_file whether all was written.                           *)
(***************************************************************************)
EXTENDS Integers, SequencesExt

CONSTANTS
  LF, CR,       \* '\n', '\r'
  Other,        \* the other bytes told apart
  MaxText       \* bound: bytes of a text

ASSUME BreaksAssumption == LF # CR /\ LF \notin Other /\ CR \notin Other
ASSUME MaxTextAssumption == MaxText \in Nat

VARIABLES
  lb,           \* edit->lb
  lb_text,      \* what the buffer holds
  lb_at,        \* the loop's index
  lb_file,      \* what was written
  lb_count      \* the value returned; -1: not yet

lb_vars == <<lb, lb_text, lb_at, lb_file, lb_count>>

(* edit_buffer_get_byte: a newline past the end.                            *)
GetByte(k) == IF k < Len(lb_text) THEN lb_text[k + 1] ELSE LF

IsBreak(c) == c \in {LF, CR}
LineBreak == CASE lb = "LB_UNIX" -> <<LF>> [] lb = "LB_MAC" -> <<CR>> [] OTHER -> <<CR, LF>>

(* The fputc calls of a turn of the loop: all succeed, or one fails.  With  *)
(* LB_UNIX and LB_MAC the index is counted up behind the first of them.     *)
Puts(bytes, next) ==
  \/ lb_file' = lb_file \o bytes /\ lb_at' = next /\ UNCHANGED lb_count
  \/ \E k \in 0 .. Len(bytes) - 1 :
       /\ lb_file' = lb_file \o SubSeq(bytes, 1, k)
       /\ lb_count' = IF k > 0 /\ lb # "LB_WIN" THEN lb_at + 1 ELSE lb_at
       /\ UNCHANGED lb_at

More == lb_count = -1 /\ lb_at < Len(lb_text) /\ UNCHANGED <<lb, lb_text>>

put_byte == More /\ (lb = "LB_ASIS" \/ ~IsBreak(GetByte(lb_at))) /\ Puts(<<GetByte(lb_at)>>, lb_at + 1)

\* Mutant: a second line break is put as it is.
SecondAsIs(c, c1) == IF c = CR /\ c1 = LF THEN << >> ELSE <<c1>>

(* What follows the line break put unconditionally: nothing behind a        *)
(* Windows break, another line break, or the next byte as it is.            *)
Second(c, c1) ==
  IF c = CR /\ c1 = LF THEN << >>
  ELSE IF (lb = "LB_UNIX" /\ c = CR /\ c1 = CR) \/ (lb = "LB_MAC" /\ c = LF /\ c1 = LF)
  THEN LineBreak ELSE <<c1>>

put_break ==
  /\ More /\ lb # "LB_ASIS" /\ IsBreak(GetByte(lb_at))
  /\ LET c == GetByte(lb_at)
         c1 == GetByte(lb_at + 1)
     IN IF lb = "LB_WIN"
        THEN Puts(LineBreak, IF c = CR /\ c1 = LF THEN lb_at + 2 ELSE lb_at + 1)
        ELSE Puts(LineBreak \o Second(c, c1), lb_at + 2)

edit_write_stream_returns ==
  /\ lb_count = -1 /\ lb_at >= Len(lb_text) /\ lb_count' = Len(lb_text)
  /\ UNCHANGED <<lb, lb_text, lb_at, lb_file>>

-----------------------------------------------------------------------------
LbInit ==
  /\ lb \in {"LB_ASIS", "LB_UNIX", "LB_WIN", "LB_MAC"}
  /\ \E n \in 0 .. MaxText : lb_text \in [1 .. n -> {LF, CR} \cup Other]
  /\ lb_at = 0 /\ lb_file = << >> /\ lb_count = -1

LbNext == put_byte \/ put_break \/ edit_write_stream_returns

LbSpec == LbInit /\ [][LbNext]_lb_vars

-----------------------------------------------------------------------------
(* The text with each of its line breaks, "\r\n", '\r' or '\n', replaced.   *)
Replaced ==
  FlattenSeq([k \in 1 .. Len(lb_text) |->
    IF lb_text[k] = LF /\ k > 1 /\ lb_text[k - 1] = CR THEN << >>
    ELSE IF IsBreak(lb_text[k]) THEN LineBreak
    ELSE <<lb_text[k]>>])

Converted == IF lb = "LB_ASIS" THEN lb_text ELSE Replaced

(* Bytes are taken in pairs from a line break on.  That goes wrong with     *)
(* breaks of several kinds one behind the other, and with a '\n' that ends  *)
(* the text, when the byte looked at behind it is a newline that is not     *)
(* there.                                                                   *)
Plain ==
  /\ \A k \in 1 .. Len(lb_text) - 1 : ~(lb_text[k] = LF /\ lb_text[k + 1] = CR)
  /\ \A k \in 1 .. Len(lb_text) - 2 : ~(lb_text[k] = CR /\ lb_text[k + 1] = CR /\ lb_text[k + 2] = LF)
  /\ lb_text # << >> /\ Last(lb_text) = LF => Len(lb_text) > 1 /\ lb_text[Len(lb_text) - 1] = CR

(* When edit_save_file is told that all was written, the file is the text   *)
(* with its line breaks converted and nothing else; of any text, to Windows *)
(* line breaks.                                                             *)
BreaksConverted ==
  (lb_count = Len(lb_text) /\ (lb \in {"LB_ASIS", "LB_WIN"} \/ Plain)) => lb_file = Converted

(* "replace "\r\n" or '\r' to '\n'": a text that has '\n' only is written   *)
(* as it is.                                                                *)
UnixStaysUnix ==
  (lb = "LB_UNIX" /\ lb_count = Len(lb_text) /\ ~Contains(lb_text, CR)) => lb_file = lb_text
=============================================================================
