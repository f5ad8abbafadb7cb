------------------------------- MODULE FileOp -------------------------------
(***************************************************************************)
(* Copying and moving files (src/filemanager/file.c, filegui.c): several   *)
(* marked files, each copied by copy_file_file or moved by move_file_file, *)
(* or the files of one directory, copied or moved by copy_dir_dir and      *)
(* do_move_dir_dir.                                                        *)
(*                                                                         *)
(* Each call of the system may fail, at each dialog the user may give any  *)
(* answer (a Retry repeats the call and is no step), a button of the       *)
(* progress dialog may be pressed where it is looked at, and another       *)
(* process may create a target between any two steps.                      *)
(*                                                                         *)
(* A file is a sequence of chunks of two; the sources hold two chunks      *)
(* each.                                                                   *)
(***************************************************************************)
EXTENDS Integers, SequencesExt

CONSTANTS
  Sources,    \* names of the files of the operation
  Setups,   \* the operations tried, see Setup
  NoSource,
  Gone,                \* in place of the contents of a file that is not there
  Old, Other, Zero     \* chunks: of a target that exists, of another process, zeros

(* What is fixed when panel_operate starts.  exdev: the target is on        *)
(* another file system.  linked: the sources are hard links of one file.    *)
(* preallocate: the option preallocate_space.                               *)
Setup == [operation : {"copy", "move"}, dir : BOOLEAN, background : BOOLEAN,
          linked : BOOLEAN, exdev : BOOLEAN, preallocate : BOOLEAN]

ASSUME SetupAssumption == Setups \subseteq Setup

(* What files consist of; the other values are none of a source's chunks.   *)
Chunk == (Sources \X {1, 2}) \union {Old, Other, Zero}

ASSUME ChunkAssumption ==
  /\ {Old, Other, Zero} \intersect (Sources \X {1, 2}) = {}
  /\ Old # Other /\ Zero \notin {Old, Other}
  /\ Gone \notin Seq(Chunk) /\ NoSource \notin Sources

VARIABLES
  setup,
  src, dst,        \* contents under each name, Gone where there is no file
  skip_all, do_append, do_reget,       \* of file_op_context_t
  replace_result,  \* "ask", or what later questions are answered with
  file, pc,        \* the file in hand and what is done next with it
  dst_exists, appending, dst_status, return_status,   \* of copy_file_file
  n,               \* chunks read
  linklist,        \* the file whose inode is cached for check_hardlinks
  erase_list,      \* sources to be erased when a directory has been copied
  result,          \* what was returned for each file
  first,           \* for the properties: the targets before the operation
  answer,          \* and what the user said about the target in hand
  mishap           \* files of which FILE_CONT does not say the truth, see Mishaps

config == <<setup, first>>
context == <<skip_all, do_append, do_reget, replace_result>>
locals == <<dst_exists, appending, dst_status, n>>
history == <<answer, mishap>>
op_vars == <<config, src, dst, context, file, pc, locals, return_status, linklist,
          erase_list, result, history>>

Inode(f) == IF setup.linked THEN CHOOSE g \in Sources : TRUE ELSE f
Data(f) == << <<Inode(f), 1>>, <<Inode(f), 2>> >>

Moving == setup.operation = "move"
(* move_file_file is used for files, and copies by itself.                  *)
MoveFile == Moving /\ ~setup.dir

(* file_error, and what is returned without asking once skip_all is set.    *)
Errors == IF skip_all THEN {"SKIPALL"} ELSE {"SKIP", "SKIPALL", "ABORT"}
file_error(s) == skip_all' = (skip_all \/ s = "SKIPALL")

(* check_progress_buttons: a background process has no buttons.             *)
Buttons == IF setup.background THEN {"CONT"} ELSE {"CONT", "SKIP", "ABORT"}

-----------------------------------------------------------------------------
(* The loops over the files, after one of them is done with result s: those *)
(* of panel_operate and of copy_dir_dir.                                    *)

NoAnswer == [how |-> "none", was |-> Gone]

(* Mishaps.  What the code itself gets wrong, file by file; each is noted   *)
(* where it happens, and all the properties say is said of other files.     *)
(*  - check_hardlinks links to the target of a file copied before, though   *)
(*    that target is cut short, or is still the old file (the user said No, *)
(*    or the copy failed);                                                  *)
(*  - read_write leaves out a chunk whose write failed and was skipped;     *)
(*  - close under skip_all tells nobody that the last chunk was lost;       *)
(*  - settle takes a failed close, of which the user was told, for a copy,  *)
(*    because the owner or the mode could not be set either and that was    *)
(*    skipped;                                                              *)
(*  - do_append is left over from a file before (open_target), or the       *)
(*    space was allocated in front of what is appended (prepare), or the    *)
(*    file to be appended to is removed (PreallocateAborted).               *)

(* The locals of copy_file_file are gone when it returns.                   *)
Forget == dst_exists' = FALSE /\ appending' = FALSE /\ dst_status' = "NONE" /\ n' = 0

LoopEnds(f, s) ==
  \/ s = "ABORT"
  \/ \A g \in Sources \ {f} : result[g] # "none"

Done(f, s) ==
  /\ result' = [result EXCEPT ![f] = s]
  /\ return_status' = s
  /\ erase_list' = IF Moving /\ setup.dir /\ s = "CONT" THEN erase_list \union {f} ELSE erase_list
  /\ pc' \in (IF LoopEnds(f, s) THEN {"end"} ELSE {"idle"})
               \union (IF setup.dir \/ setup.background THEN {} ELSE {"end"})
  /\ file' = NoSource /\ Forget /\ answer' = NoAnswer

Fail(f, s) ==
  /\ Done(f, s)
  /\ UNCHANGED <<config, src, dst, linklist, mishap>>

(* The next file; Abort may have been pressed.                              *)
Take(f) ==
  /\ pc = "idle" /\ result[f] = "none"
  /\ \/ /\ pc' = IF MoveFile THEN "move" ELSE "copy"
        /\ file' = f
        /\ UNCHANGED <<config, src, dst, context, locals, return_status, linklist,
                       erase_list, result, history>>
     \/ "ABORT" \in Buttons /\ Fail(f, "ABORT") /\ UNCHANGED context

-----------------------------------------------------------------------------
(* query_replace.  In a background process, and in its parent, which gets a *)
(* copy of its context, ctx->ui is NULL and nobody is asked.  An answer     *)
(* that holds for all files is asked for once; so, in fact, is Reget.       *)

CanReget(f) ==
  /\ ~Moving /\ dst[f] # << >> /\ Len(dst[f]) < Len(src[f])

\* Mutant: Append is taken for Yes.
Agree_replace(f, how, append, reget) ==
  /\ answer' = [how |-> how, was |-> dst[f]]
  /\ do_reget' = reget
  /\ UNCHANGED do_append

Agree(f, how, append, reget) ==
  /\ answer' = [how |-> how, was |-> dst[f]]
  /\ do_append' = (append \/ do_append)
  /\ do_reget' = reget

query_replace_CONT(f) ==
  \/ /\ setup.background
     /\ Agree(f, "unasked", FALSE, 0) /\ UNCHANGED replace_result
  \/ /\ ~setup.background
     /\ \/ /\ replace_result = "ask"
           /\ \/ Agree(f, "yes", FALSE, 0) /\ UNCHANGED replace_result
              \/ Agree(f, "append", TRUE, 0) /\ UNCHANGED replace_result
              \/ CanReget(f) /\ Agree(f, "reget", TRUE, Len(dst[f])) /\ replace_result' = "reget"
              \/ Agree(f, "yes", FALSE, 0) /\ replace_result' = "rule"
        \/ replace_result = "rule" /\ Agree(f, "yes", FALSE, 0) /\ UNCHANGED replace_result
        \/ replace_result = "reget" /\ Agree(f, "unasked", TRUE, Len(dst[f])) /\ UNCHANGED replace_result

(* No, a rule that leaves this file alone, or Abort.                        *)
query_replace_stops(f) ==
  /\ ~setup.background
  /\ \/ /\ replace_result = "ask"
        /\ \/ \E s \in {"SKIP", "ABORT"} : Fail(f, s) /\ UNCHANGED replace_result
           \/ Fail(f, "SKIP") /\ replace_result' = "rule"
     \/ replace_result = "rule" /\ Fail(f, "SKIP") /\ UNCHANGED replace_result
  /\ do_reget' = 0 /\ UNCHANGED <<skip_all, do_append>>

(* move_file_file up to the rename.                                         *)
move_file_file ==
  LET f == file IN
  /\ pc = "move"
  /\ \/ \E s \in Errors : Fail(f, s) /\ file_error(s) /\ UNCHANGED <<do_append, do_reget, replace_result>>
     \/ dst[f] # Gone /\ query_replace_stops(f)
     \/ /\ IF dst[f] # Gone THEN query_replace_CONT(f)
           ELSE UNCHANGED <<answer, do_append, do_reget, replace_result>>
        /\ pc' = "rename"
        /\ UNCHANGED <<config, src, dst, skip_all, file, locals, return_status, linklist,
                       erase_list, result, mishap>>

(* The rename, unless the user wants to append; where it fails, whatever    *)
(* the reason, the file is copied.  It replaces a target created meanwhile. *)
rename ==
  LET f == file IN
  /\ pc = "rename"
  /\ \/ /\ ~do_append /\ ~setup.exdev
        /\ dst' = [dst EXCEPT ![f] = src[f]]
        /\ src' = [src EXCEPT ![f] = Gone]
        /\ \E s \in Buttons : Done(f, s)
        /\ UNCHANGED <<config, context, linklist, mishap>>
     \/ /\ pc' = "copy"
        /\ UNCHANGED <<config, src, dst, context, file, locals, return_status, linklist,
                       erase_list, result, history>>

-----------------------------------------------------------------------------
(* copy_file_file up to the hard links: both names are looked at, and the   *)
(* user is asked unless move_file_file has done so.                         *)
copy_file_file ==
  LET f == file
      ask == dst[f] # Gone /\ ~MoveFile
  IN
  /\ pc = "copy"
  /\ \/ \E s \in Errors : Fail(f, s) /\ file_error(s) /\ UNCHANGED <<do_append, do_reget, replace_result>>
     \/ ask /\ query_replace_stops(f)
     \/ /\ IF ask THEN query_replace_CONT(f)
           ELSE do_reget' = 0 /\ UNCHANGED <<answer, do_append, replace_result>>
        /\ dst_exists' = (dst[f] # Gone)
        /\ appending' = FALSE /\ dst_status' = "NONE" /\ n' = 0
        /\ return_status' = "RETRY"
        /\ pc' = IF do_append' THEN "open" ELSE "link"
        /\ UNCHANGED <<config, src, dst, skip_all, file, linklist, erase_list, result, mishap>>

(* check_hardlinks: the target of a file copied before is linked to, if     *)
(* the source of that file is still there, else the file is copied by       *)
(* itself.  What that target holds by now is not looked at.                 *)
check_hardlinks ==
  LET f == file IN
  /\ pc = "link"
  /\ \/ /\ setup.linked /\ linklist # NoSource
        /\ src[linklist] # Gone /\ dst[linklist] # Gone /\ dst[f] = Gone
        /\ dst' = [dst EXCEPT ![f] = dst[linklist]]
        /\ mishap' = IF dst[linklist] # Data(f) THEN mishap \union {f} ELSE mishap
        /\ IF MoveFile
           THEN pc' = "remove" /\ Forget /\ return_status' = "CONT"
                /\ UNCHANGED <<file, erase_list, result, answer>>
           ELSE Done(f, "CONT")
        /\ UNCHANGED <<config, src, context, linklist>>
     \/ /\ setup.linked /\ linklist # NoSource /\ ~skip_all
        /\ Fail(f, "ABORT") /\ UNCHANGED context
     \/ /\ pc' = "open"
        /\ linklist' = IF setup.linked /\ linklist = NoSource THEN f ELSE linklist
        /\ setup.linked /\ linklist # NoSource => skip_all' \in {skip_all, TRUE}
        /\ ~setup.linked \/ linklist = NoSource => UNCHANGED skip_all
        /\ UNCHANGED <<config, src, dst, do_append, do_reget, replace_result, file, locals,
                       return_status, erase_list, result, history>>

(* The source is opened; do_append outlives a failure once skip_all is set. *)
open_source ==
  LET f == file IN
  /\ pc = "open"
  /\ \/ /\ pc' = "create"
        /\ \/ n' = do_reget /\ UNCHANGED <<do_append, do_reget>>
           \/ do_reget # 0 /\ n' = 0 /\ do_reget' = 0 /\ do_append' = FALSE  \* lseek fails
        /\ UNCHANGED <<skip_all, return_status, file, erase_list, result, dst_exists, appending,
                       dst_status, answer>>
     \/ /\ \E s \in Errors : Done(f, s) /\ file_error(s)
        /\ do_append' = (do_append /\ skip_all)
        /\ UNCHANGED do_reget
  /\ UNCHANGED <<config, src, dst, replace_result, linklist, mishap>>

\* Mutant: O_CREAT without O_EXCL.
Refused_never(f) == FALSE

(* O_CREAT | O_EXCL where the target was not there when it was looked at.   *)
Refused(f) == ~dst_exists /\ dst[f] # Gone

\* Mutant: the file counts as copied as soon as it is opened.
OpenedTarget_full(f) ==
  /\ dst' = [dst EXCEPT ![f] = IF dst_exists /\ do_append THEN @ ELSE << >>]
  /\ appending' = do_append /\ do_append' = FALSE
  /\ dst_status' = "FULL"
  /\ mishap' = IF do_append /\ dst_exists /\ answer.how \in {"none", "yes"}
             THEN mishap \union {f} ELSE mishap

(* Created, truncated, or left to be appended to.  A do_append left over    *)
(* from an earlier file makes a mishap of a replacement.                    *)
OpenedTarget(f) ==
  /\ dst' = [dst EXCEPT ![f] = IF dst_exists /\ do_append THEN @ ELSE << >>]
  /\ appending' = do_append /\ do_append' = FALSE
  /\ dst_status' = "SHORT"
  /\ mishap' = IF do_append /\ dst_exists /\ answer.how \in {"none", "yes"}
             THEN mishap \union {f} ELSE mishap

open_target ==
  LET f == file IN
  /\ pc = "create"
  /\ \/ /\ Refused(f) /\ pc' = "close"
        /\ UNCHANGED <<dst, appending, do_append, skip_all, dst_status, return_status, mishap>>
     \/ \E s \in Errors :
          /\ file_error(s) /\ do_append' = (do_append /\ skip_all)
          /\ return_status' = s /\ pc' = "close"
          /\ UNCHANGED <<dst, appending, dst_status, mishap>>
     \/ /\ ~Refused(f) /\ OpenedTarget(f) /\ pc' = "prepare"
        /\ UNCHANGED <<skip_all, return_status>>
  /\ UNCHANGED <<config, src, do_reget, replace_result, file, dst_exists, n, linklist,
                 erase_list, result, answer>>

-----------------------------------------------------------------------------
(* Before the data: the file may be cloned, fstat may fail, space may be    *)
(* allocated, and the buttons are looked at.  posix_fallocate fills the     *)
(* target up with zeros, and O_APPEND writes behind them.                   *)

Padded(f) == dst[f] \o [i \in 1 .. Len(src[f]) - Len(dst[f]) |-> Zero]

(* vfs_preallocate fails and the user chooses Abort: the target goes, even  *)
(* one to be appended to.                                                   *)
PreallocateAborted(f) ==
  /\ dst' = [dst EXCEPT ![f] = Gone]
  /\ dst_status' = "NONE" /\ return_status' = "ABORT" /\ pc' = "close"
  /\ mishap' = IF appending THEN mishap \union {f} ELSE mishap

prepare ==
  LET f == file IN
  /\ pc = "prepare"
  /\ \/ /\ ~appending                                        \* vfs_clone_file
        /\ dst' = [dst EXCEPT ![f] = src[f]]
        /\ dst_status' = "FULL" /\ return_status' = "CONT" /\ pc' = "close"
        /\ UNCHANGED <<skip_all, mishap>>
     \/ /\ \E s \in Errors : file_error(s) /\ return_status' = s   \* fstat
        /\ pc' = "close"
        /\ UNCHANGED <<dst, dst_status, mishap>>
     \/ setup.preallocate /\ ~skip_all /\ PreallocateAborted(f) /\ UNCHANGED skip_all
     \/ /\ \/ ~setup.preallocate /\ UNCHANGED <<dst, skip_all, mishap>>
           \/ setup.preallocate /\ skip_all' \in {skip_all, TRUE} /\ UNCHANGED <<dst, mishap>>
           \/ /\ setup.preallocate /\ dst' = [dst EXCEPT ![f] = Padded(f)]
              /\ mishap' = IF appending THEN mishap \union {f} ELSE mishap
              /\ UNCHANGED skip_all
        /\ return_status' \in Buttons
        /\ pc' = IF return_status' = "CONT" THEN "read" ELSE "close"
        /\ UNCHANGED dst_status
  /\ UNCHANGED <<config, src, do_append, do_reget, replace_result, file, dst_exists,
                 appending, n, linklist, erase_list, result, answer>>

(* A chunk goes behind what has been written, or to the end of the file.    *)
ChunksWritten(f) == Cardinality({i \in DOMAIN dst[f] : dst[f][i] # Zero})
WithChunk(f, c) ==
  IF appending \/ ChunksWritten(f) = Len(dst[f]) THEN Append(dst[f], c)
  ELSE [dst[f] EXCEPT ![ChunksWritten(f) + 1] = c]

(* One turn of the loop.  A read that fails under skip_all is tried again   *)
(* without end.  A write that fails for another reason than a full disk,    *)
(* and is skipped, is skipped in fact: the copy goes on with the next chunk *)
(* and counts as full.                                                      *)
read_write ==
  LET f == file IN
  /\ pc = "read"
  /\ \/ /\ n >= Len(src[f])
        /\ dst_status' = "FULL" /\ pc' = "close"
        /\ UNCHANGED <<dst, n, skip_all, return_status, mishap>>
     \/ /\ n < Len(src[f])
        /\ \/ /\ dst' = [dst EXCEPT ![f] = WithChunk(f, src[f][n + 1])]
              /\ n' = n + 1
              /\ return_status' \in Buttons
              /\ UNCHANGED <<skip_all, mishap>>
           \/ /\ ~skip_all                                   \* the write is skipped
              /\ n' = n + 1
              /\ return_status' \in Buttons
              /\ mishap' = mishap \union {f}
              /\ UNCHANGED <<dst, skip_all>>
           \/ /\ \E s \in Errors : file_error(s) /\ return_status' = s
              /\ UNCHANGED <<dst, n, mishap>>
        /\ pc' = IF return_status' = "CONT" THEN "read" ELSE "close"
        /\ UNCHANGED dst_status
  /\ UNCHANGED <<config, src, do_append, do_reget, replace_result, file, dst_exists,
                 appending, linklist, erase_list, result, answer>>

(* Both files are closed.  Closing the target may show that the last chunk  *)
(* has not reached the disk, and under skip_all, which may have been chosen *)
(* at the source just now, nobody is told.                                  *)
LosesLastChunk(f) == dst[f] # << >> /\ dst' = [dst EXCEPT ![f] = Front(@)]

close ==
  LET f == file IN
  /\ pc = "close"
  /\ \/ /\ skip_all' \in {skip_all, TRUE}                    \* of the source
        /\ UNCHANGED <<dst, return_status, mishap>>
     \/ /\ ~skip_all /\ return_status' = "ABORT"
        /\ UNCHANGED <<dst, skip_all, mishap>>
     \/ /\ dst_status # "NONE"                               \* of the target
        /\ \/ /\ ~skip_all
              /\ \E s \in Errors : file_error(s) /\ return_status' = s
              /\ UNCHANGED dst \/ LosesLastChunk(f)
              /\ UNCHANGED mishap
           \/ /\ skip_all' = TRUE /\ UNCHANGED return_status
              /\ LosesLastChunk(f) /\ mishap' = mishap \union {f}
  /\ pc' = "settle"
  /\ UNCHANGED <<config, src, do_append, do_reget, replace_result, file, locals, linklist,
                 erase_list, result, answer>>

\* Mutant: the source goes whatever the copy returned.
Removes_any(s) == MoveFile

Removes(s) == MoveFile /\ s = "CONT"

(* A short target is kept or deleted; a full one gets owner and mode, and   *)
(* an error there that is skipped makes the copy a success, whatever close  *)
(* has returned.                                                            *)
settle ==
  LET f == file
      after(s) == IF Removes(s)
                  THEN pc' = "remove" /\ Forget /\ return_status' = "CONT"
                       /\ UNCHANGED <<file, erase_list, result, answer>>
                  ELSE Done(f, s)
      finish(s) == IF s = "CONT" THEN \E b \in Buttons : after(b) ELSE after(s)
  IN
  /\ pc = "settle"
  /\ \/ /\ dst_status = "SHORT"
        /\ dst' \in {dst, [dst EXCEPT ![f] = Gone]}
        /\ finish(return_status) /\ UNCHANGED <<skip_all, mishap>>
     \/ /\ dst_status # "SHORT"
        /\ finish(return_status) /\ UNCHANGED <<skip_all, dst, mishap>>
     \/ /\ dst_status = "FULL" /\ ~appending /\ ~skip_all
        /\ skip_all' \in BOOLEAN
        /\ mishap' = IF return_status # "CONT" /\ dst[f] # Data(f)
                     THEN mishap \union {f} ELSE mishap
        /\ finish("CONT") /\ UNCHANGED dst
  /\ UNCHANGED <<config, src, do_append, do_reget, replace_result, linklist>>

-----------------------------------------------------------------------------
(* The sources of a move: move_file_file removes each after its copy.       *)
try_remove_file ==
  LET f == file IN
  /\ pc = "remove"
  /\ \/ \E s \in Buttons \ {"CONT"} : Done(f, s) /\ UNCHANGED <<src, skip_all>>
     \/ src' = [src EXCEPT ![f] = Gone] /\ Done(f, "CONT") /\ UNCHANGED skip_all
     \/ /\ IF skip_all THEN Done(f, "CONT") /\ UNCHANGED skip_all
           ELSE \E s \in Errors : file_error(s) /\ Done(f, s)
        /\ UNCHANGED src
  /\ UNCHANGED <<config, dst, do_append, do_reget, replace_result, linklist, mishap>>

(* do_move_dir_dir erases them after the whole directory, if its last file  *)
(* was copied (return_status), and no button is pressed.                    *)
erase_dir_after_copy ==
  /\ pc = "end" /\ erase_list # {}
  /\ \/ /\ return_status = "CONT"
        /\ \E f \in erase_list :
             /\ erase_list' = erase_list \ {f}
             /\ \/ src' = [src EXCEPT ![f] = Gone] /\ UNCHANGED <<skip_all, return_status>>
                \/ UNCHANGED src
                   /\ \E s \in Errors : /\ file_error(s)
                                        /\ return_status' = IF s = "ABORT" THEN s ELSE "CONT"
     \/ /\ return_status # "CONT" \/ "ABORT" \in Buttons
        /\ erase_list' = {} /\ UNCHANGED <<src, skip_all, return_status>>
  /\ UNCHANGED <<config, dst, do_append, do_reget, replace_result, file, pc, locals, linklist,
                 result, history>>

(* Another process makes a file where a target is going to be.              *)
Appear(f) ==
  /\ result[f] = "none" /\ dst[f] = Gone
  /\ \A g \in Sources : dst[g] # <<Other>>
  /\ dst' = [dst EXCEPT ![f] = <<Other>>]
  /\ UNCHANGED <<config, src, context, file, pc, locals, return_status, linklist, erase_list,
                 result, history>>

-----------------------------------------------------------------------------
OpInit ==
  /\ setup \in Setups
  /\ src = [f \in Sources |-> Data(f)]
  /\ \E there \in SUBSET Sources, partly \in SUBSET Sources :
       dst = [f \in Sources |-> IF f \notin there THEN Gone
                             ELSE IF f \in partly THEN SubSeq(src[f], 1, 1) ELSE <<Old>>]
  /\ first = dst
  /\ skip_all = FALSE /\ do_append = FALSE /\ do_reget = 1 /\ replace_result = "ask"
  /\ file = NoSource /\ pc = "idle"
  /\ dst_exists = FALSE /\ appending = FALSE /\ dst_status = "NONE" /\ n = 0
  /\ return_status = "CONT"
  /\ linklist = NoSource /\ erase_list = {}
  /\ result = [f \in Sources |-> "none"]
  /\ answer = NoAnswer /\ mishap = {}

OpNext ==
  \/ \E f \in Sources : Take(f) \/ Appear(f)
  \/ move_file_file \/ rename
  \/ copy_file_file \/ check_hardlinks \/ open_source \/ open_target
  \/ prepare \/ read_write \/ close \/ settle
  \/ try_remove_file \/ erase_dir_after_copy

OpSpec == OpInit /\ [][OpNext]_op_vars

-----------------------------------------------------------------------------
(* What the user agreed to: the source, or the source behind what was there *)
(* or, for a Reget, the rest of it.                                         *)
Wanted(f) ==
  LET was == answer.was
  IN  IF answer.how = "append" THEN {was \o Data(f)}
      ELSE {Data(f)} \union
           (IF answer.how \in {"reget", "unasked"}
            THEN {was \o SubSeq(Data(f), Len(was) + 1, 2)} ELSE {})

(* A move never loses data but by a mishap: a source is removed only when   *)
(* all of it is in the target, whatever other call failed, was skipped,     *)
(* interrupted or retried.  The mishaps are the code's own and do lose      *)
(* data: move_file_file goes by the FILE_CONT that copy_file_file returns.  *)
SourceSurvives ==
  \A f \in Sources : src[f] = Gone =>
    f \in mishap \/ (dst[f] # Gone /\ IsSuffix(Data(f), dst[f]))

(* A file for which FILE_CONT is returned, and which panel_operate unmarks, *)
(* is the file the user asked for, but for a mishap.                        *)
ReportIsTrue ==
  [][\A f \in Sources : result[f] # result'[f] /\ result'[f] = "CONT" =>
       f \in mishap' \/ dst'[f] \in Wanted(f)]_op_vars

(* A full copy that could not be closed, of which the user was told: it is  *)
(* kept without the last chunk, and nobody is asked.                        *)
CloseReported(f, d) ==
  /\ dst_status = "FULL" /\ return_status # "CONT"
  /\ d \in {Front(w) : w \in Wanted(f)}

(* When a file is done with, its target is untouched, or as wanted, or      *)
(* gone, or the user was asked whether to keep what there is of it, or told *)
(* that it could not be closed, or it is the file of a mishap.              *)
NothingHalfDone ==
  [][\A f \in Sources : result[f] # result'[f] =>
       \/ f \in mishap' \/ dst_status = "SHORT" \/ CloseReported(f, dst'[f])
       \/ dst'[f] \in {first[f], Gone, <<Other>>} \union Wanted(f)]_op_vars

(* What stands under the name of a target, before the operation or put      *)
(* there by another process meanwhile, is not altered unless query_replace  *)
(* was asked.  Only move_file_file, which asks before copy_file_file looks  *)
(* at the target, may hit one it has not seen.                              *)
AgreedOverwrite ==
  [][\A f \in Sources : dst[f] \in {<<Old>>, <<Other>>} /\ dst'[f] # dst[f] =>
       answer.how # "none" \/ (MoveFile /\ dst[f] = <<Other>>)]_op_vars

(* mc.1 on the replace dialog: nothing is overwritten without it.           *)
AskedBeforeReplaced ==
  [][\A f \in Sources : dst[f] \in {<<Old>>, <<Other>>} /\ dst'[f] # dst[f] =>
       answer.how # "unasked"]_op_vars

(* DEST_FULL: "Created, fully copied".                                      *)
FullIsWhole ==
  dst_status = "FULL" /\ pc = "close" /\ ~appending => dst[file] = Data(file)
=============================================================================
