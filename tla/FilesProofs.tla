---------------------------- MODULE FilesProofs -----------------------------
(***************************************************************************)
(* File operations, and the archives whose files they read and write: two  *)
(* modules that MCFiles checks in one state space, each proved by itself.  *)
(***************************************************************************)
EXTENDS FileOp, VfsStamps, SequenceTheorems, FiniteSetTheorems, WellFoundedInduction, TLAPS

-----------------------------------------------------------------------------
(***************************************************************************)
(* For every number of files and every setup: a copy or move of files      *)
(* loses no data, reports no file as copied that is not, leaves no half of *)
(* a target unasked, and overwrites nothing the user was not asked about.  *)
(*                                                                         *)
(* The invariant follows the file in hand from place to place; each action *)
(* has a lemma that it preserves the invariant and takes a step as the     *)
(* action properties demand.                                               *)
(***************************************************************************)
(* The results of a file, and the places of pc, by what the file in hand    *)
(* has been through: Early, its target has been looked at; Late, it is      *)
(* open; Ending, it is being closed.                                        *)
Status == {"CONT", "SKIP", "SKIPALL", "ABORT", "RETRY"}
Early == {"link", "open", "create"}
Late == {"prepare", "read"}
Ending == {"close", "settle"}
FilePlaces == {"idle", "end", "move", "rename", "copy", "remove"} \cup Early \cup Late \cup Ending
Contents == Seq(Chunk) \cup {Gone}

(* The types of what is local to the file in hand and of the context.       *)
WorkOK ==
  /\ skip_all \in BOOLEAN /\ do_append \in BOOLEAN /\ do_reget \in 0 .. 1
  /\ replace_result \in {"ask", "rule", "reget"}
  /\ dst_exists \in BOOLEAN /\ appending \in BOOLEAN
  /\ dst_status \in {"NONE", "SHORT", "FULL"} /\ return_status \in Status
  /\ n \in 0 .. 2
  /\ linklist \in Sources \cup {NoSource}
  /\ answer \in [how : {"none", "yes", "append", "reget", "unasked"}, was : Contents]

(* The type of the whole state.                                             *)
OpTypeOK ==
  /\ setup \in Setup
  /\ src \in [Sources -> Contents] /\ dst \in [Sources -> Contents]
  /\ first \in [Sources -> Contents] /\ result \in [Sources -> Status \cup {"none"}]
  /\ pc \in FilePlaces
  /\ pc \in {"idle", "end"} => file = NoSource
  /\ pc \notin {"idle", "end"} => file \in Sources
  /\ erase_list \subseteq Sources /\ mishap \subseteq Sources
  /\ WorkOK

(* All of the source ends the contents d; the source may go then.           *)
WholeIn(f, d) == \E s \in Seq(Chunk) : d = s \o Data(f)
Safe(f) == f \in mishap \/ WholeIn(f, dst[f])
Targets(f) == {first[f], <<Other>>}

(* A source is as it was or gone; it goes, and is noted to go later, only   *)
(* when its target holds it.                                                *)
SourcesKept ==
  /\ \A f \in Sources :
       /\ src[f] \in {Data(f), Gone}
       /\ src[f] = Gone => Safe(f) /\ result[f] # "none"
       /\ first[f] = Gone \/ \E c \in Chunk : first[f] = <<c>>
  /\ \A f \in erase_list : Safe(f) /\ result[f] # "none"

(* Until a target is opened it is as it was before, or another's.           *)
Untouched ==
  \A f \in Sources :
    result[f] = "none" /\ (f = file => pc \notin Late \cup Ending \cup {"remove"})
      => dst[f] \in Targets(f)

(* A move does not reget, and a background process, which asks nobody, does *)
(* not append.                                                              *)
Modes ==
  /\ Moving => replace_result # "reget"
  /\ setup.background => ~do_append
  /\ erase_list # {} => Moving

(* No answer is left over from the file before.                             *)
Quiet ==
  pc \in {"idle", "end", "move"} \/ (pc = "copy" /\ ~MoveFile) => answer = NoAnswer

(* What move_file_file knows of the target when copy_file_file begins: it   *)
(* was asked about, or was not there when move_file_file looked.            *)
AskedFirst(f) ==
  /\ answer.how = "none" => dst[f] \in {Gone, <<Other>>}
  /\ answer.how # "none" => dst[f] # Gone /\ answer.was = dst[f]
  /\ answer.how = "append" => do_append
  /\ answer.how = "unasked" => ~do_append
  /\ answer.how # "reget"

(* What copy_file_file knows of the target until it opens it.               *)
LookedAt(f) ==
  /\ answer.how = "none" => do_reget = 0 /\ (dst_exists => MoveFile /\ dst[f] = <<Other>>)
  /\ answer.how # "none" => dst_exists /\ answer.was = dst[f]
  /\ dst_exists => dst[f] # Gone
  /\ answer.how \in {"append", "yes"} => do_reget = 0
  /\ answer.how = "append" => do_append
  /\ answer.how \in {"reget", "unasked"} =>
       (do_append /\ do_reget = Len(answer.was)) \/ (~do_append /\ do_reget = 0)
  /\ Moving => do_reget = 0
  /\ return_status = "RETRY" /\ dst_status = "NONE"

(* What has been copied: the chunks do_reget to n, behind what was there,   *)
(* or, where nothing is appended to, at the head of the target, of which    *)
(* the rest may have been allocated.                                        *)
Begun(f) ==
  /\ appending =>
       \E b \in Seq(Chunk) :
         /\ b \o SubSeq(Data(f), do_reget + 1, 2) \in Wanted(f)
         /\ dst[f] = b \o SubSeq(Data(f), do_reget + 1, n)
  /\ ~appending =>
       dst[f] \in {SubSeq(Data(f), 1, n), [i \in 1 .. 2 |-> IF i <= n THEN Data(f)[i] ELSE Zero]}

(* Of a target nobody was asked about nothing is left: it was another's,    *)
(* and a move that had not seen it truncated it.                            *)
NotTheirs(d) == \A i \in DOMAIN d : d[i] # Old /\ (d[i] # Other \/ MoveFile)

(* What the user asked for, and in a move all of the source too.            *)
GoodIn(f, d) == d \in Wanted(f) /\ (Moving => WholeIn(f, d))
Good(f) == f \in mishap \/ GoodIn(f, dst[f])

(* The target is open: it is short, and holds what was copied so far.       *)
Started(f) ==
  /\ dst[f] # Gone /\ dst_status = "SHORT"
  /\ do_reget <= n /\ (Moving => do_reget = 0)
  /\ ~appending => answer.how # "append" /\ do_reget = 0
  /\ answer.how = "none" => NotTheirs(dst[f])
  /\ f \in mishap \/ Begun(f)

(* The target is being closed, or never was opened; a full one is good.     *)
Closing(f) ==
  /\ return_status = "CONT" => dst_status = "FULL"
  /\ dst_status = "NONE" => f \in mishap \/ dst[f] \in Targets(f) \cup {Gone}
  /\ dst_status # "NONE" => dst[f] # Gone /\ (answer.how = "none" => NotTheirs(dst[f]))
  /\ dst_status = "FULL" =>
       /\ ~appending => answer.how # "append"
       /\ Good(f) \/ (pc = "settle" /\ CloseReported(f, dst[f]))

(* The file in hand, at each place.                                         *)
HandOK(f) ==
  /\ result[f] = "none"
  /\ pc \in {"move", "rename", "remove"} => MoveFile
  /\ pc = "rename" \/ (pc = "copy" /\ MoveFile) => AskedFirst(f)
  /\ pc \in Early => LookedAt(f)
  /\ pc = "create" => n = do_reget
  /\ pc = "prepare" => n = do_reget /\ (~appending => dst[f] = << >>)
  /\ pc \in Late => Started(f)
  /\ pc \in Ending => Closing(f)
  /\ pc = "remove" => dst[f] # Gone /\ Good(f)

(* The inductive invariant.                                                 *)
OpInv ==
  /\ OpTypeOK /\ SourcesKept /\ Untouched /\ Modes /\ Quiet
  /\ \A f \in Sources : f = file => HandOK(f)

(* What a step promises: the three action properties of FileOp.             *)
Reports ==
  \A f \in Sources : result[f] # result'[f] /\ result'[f] = "CONT" =>
    f \in mishap' \/ dst'[f] \in Wanted(f)
Halves ==
  \A f \in Sources : result[f] # result'[f] =>
    \/ f \in mishap' \/ dst_status = "SHORT" \/ CloseReported(f, dst'[f])
    \/ dst'[f] \in {first[f], Gone, <<Other>>} \cup Wanted(f)
AgreesAt(f) ==
  dst[f] \in {<<Old>>, <<Other>>} /\ dst'[f] # dst[f] =>
    answer.how # "none" \/ (MoveFile /\ dst[f] = <<Other>>)
StepOK == Reports /\ Halves /\ \A f \in Sources : AgreesAt(f)

(* The data of a source are two chunks, none of them another's or a zero.   *)
LEMMA DataFacts ==
  ASSUME NEW f \in Sources
  PROVE  /\ Data(f) \in Seq(Chunk) /\ Len(Data(f)) = 2 /\ Data(f) # Gone
         /\ \A i \in 1 .. 2 : Data(f)[i] \in Sources \X {1, 2}
         /\ \A i \in 1 .. 2 : Data(f)[i] \in Chunk \ {Old, Other, Zero}
<1>1. Inode(f) \in Sources
  BY DEF Inode
<1>2. <<Inode(f), 1>> \in Sources \X {1, 2} /\ <<Inode(f), 2>> \in Sources \X {1, 2}
  BY <1>1
<1> DEFINE x == <<Inode(f), 1>>
           y == <<Inode(f), 2>>
<1>3. x \in Sources \X {1, 2} /\ y \in Sources \X {1, 2} /\ Data(f) = <<x, y>>
  BY <1>2 DEF Data
<1> HIDE DEF x, y
<1>4. x \in Chunk \ {Old, Other, Zero} /\ y \in Chunk \ {Old, Other, Zero}
  BY <1>3, ChunkAssumption DEF Chunk
<1>5. <<x, y>> \in Seq(Chunk) /\ Len(<<x, y>>) = 2 /\ <<x, y>>[1] = x /\ <<x, y>>[2] = y
  BY <1>4
<1>6. Data(f) # Gone
  BY <1>3, <1>5, ChunkAssumption
<1> QED
  BY <1>3, <1>4, <1>5, <1>6

(* Parts of two chunks, and the part with the next chunk behind it.         *)
LEMMA Slices ==
  ASSUME NEW d \in Seq(Chunk), Len(d) = 2
  PROVE  /\ SubSeq(d, 1, 0) = << >> /\ SubSeq(d, 2, 1) = << >> /\ SubSeq(d, 1, 2) = d
         /\ \A r \in 0 .. 1, m \in 0 .. 2 : SubSeq(d, r + 1, m) \in Seq(Chunk)
         /\ \A r \in 0 .. 1, m \in 0 .. 1 : r <= m =>
              Append(SubSeq(d, r + 1, m), d[m + 1]) = SubSeq(d, r + 1, m + 1)
<1>1. SubSeq(d, 1, 0) = << >> /\ SubSeq(d, 2, 1) = << >>
  BY SubSeqEmpty
<1>2. SubSeq(d, 1, 2) = d
  <2>1. SubSeq(d, 1, Len(d)) = d
    BY SubSeqFull
  <2> QED BY <2>1
<1>3. ASSUME NEW r \in 0 .. 1, NEW m \in 0 .. 2 PROVE SubSeq(d, r + 1, m) \in Seq(Chunk)
  <2>1. r + 1 \in Int /\ m \in Int /\ \A i \in (r + 1) .. m : d[i] \in Chunk
    <3>1. d \in [1 .. 2 -> Chunk] /\ \A i \in (r + 1) .. m : i \in 1 .. 2
      <4>1. d \in [1 .. Len(d) -> Chunk]
        BY LenProperties
      <4> QED BY <4>1
    <3> QED BY <3>1
  <2> QED BY <2>1, SubSeqProperties
<1>4. ASSUME NEW r \in 0 .. 1, NEW m \in 0 .. 1, r <= m
      PROVE  Append(SubSeq(d, r + 1, m), d[m + 1]) = SubSeq(d, r + 1, m + 1)
  <2>1. r + 1 \in 1 .. 2 /\ m + 1 \in 1 .. 2 /\ m + 1 \in (r + 1) .. Len(d)
    BY <1>4
  <2> QED
    BY <2>1, <1>4, SubSeqRecursiveFirst, SubSeqRecursiveSecond
<1> QED
  BY <1>1, <1>2, <1>3, <1>4

(* What depends on the setup alone does not change in an operation.         *)
LEMMA SameData ==
  ASSUME setup' = setup
  PROVE  /\ Moving' = Moving /\ MoveFile' = MoveFile
         /\ \A f : Data(f)' = Data(f)
         /\ \A f, d : WholeIn(f, d)' = WholeIn(f, d)
         /\ \A d : NotTheirs(d)' = NotTheirs(d)
         /\ answer' = answer => \A f : Wanted(f)' = Wanted(f) /\ \A d : GoodIn(f, d)' = GoodIn(f, d)
<1>1. Moving' = Moving /\ MoveFile' = MoveFile /\ \A f : Data(f)' = Data(f)
  BY DEF Moving, MoveFile, Data, Inode
<1>2. \A f, d : WholeIn(f, d)' = WholeIn(f, d)
  BY <1>1 DEF WholeIn
<1>3. \A d : NotTheirs(d)' = NotTheirs(d)
  BY <1>1 DEF NotTheirs
<1>4. ASSUME answer' = answer
      PROVE  \A f : Wanted(f)' = Wanted(f) /\ \A d : GoodIn(f, d)' = GoodIn(f, d)
  <2>1. \A f : Wanted(f)' = Wanted(f)
    BY <1>1, <1>4 DEF Wanted
  <2> QED BY <1>1, <1>2, <2>1 DEF GoodIn
<1> QED BY <1>1, <1>2, <1>3, <1>4

(* A step that is done with the file in hand, whatever the result: the      *)
(* target is settled, and if the file counts as copied, or its source goes, *)
(* the target is good.                                                      *)
LEMMA DoneKeeps ==
  ASSUME OpInv, NEW f \in Sources, NEW s \in Status, Done(f, s), result[f] = "none",
         file \in {f, NoSource}, setup' = setup, first' = first, NEW d \in Contents,
         dst' = [dst EXCEPT ![f] = d], mishap' \in {mishap, mishap \cup {f}},
         src' = src \/ (Moving /\ src' = [src EXCEPT ![f] = Gone]), linklist' = linklist,
         skip_all' \in BOOLEAN, do_append' \in BOOLEAN, do_append' => do_append, do_reget' \in {do_reget, 0},
         replace_result' \in {replace_result, "rule"},
         s = "CONT" \/ src' # src => f \in mishap' \/ GoodIn(f, d),
         \/ f \in mishap' \/ dst_status = "SHORT" \/ CloseReported(f, d)
         \/ d \in Targets(f) \cup {Gone} \cup Wanted(f),
         AgreesAt(f)
  PROVE  OpInv' /\ StepOK
<1>1. /\ result' = [result EXCEPT ![f] = s] /\ return_status' = s /\ pc' \in {"idle", "end"}
      /\ erase_list' = (IF Moving /\ setup.dir /\ s = "CONT" THEN erase_list \cup {f} ELSE erase_list)
      /\ file' = NoSource /\ dst_exists' = FALSE /\ appending' = FALSE /\ dst_status' = "NONE"
      /\ n' = 0 /\ answer' = NoAnswer
  BY DEF Done, Forget
<1>2. OpTypeOK' /\ WorkOK'
  <2>1. NoAnswer \in [how : {"none", "yes", "append", "reget", "unasked"}, was : Contents]
    BY DEF NoAnswer, Contents
  <2>2. WorkOK'
    <3>1. WorkOK
      BY DEF OpInv, OpTypeOK
    <3>2. do_reget' \in 0 .. 1 /\ replace_result' \in {"ask", "rule", "reget"}
          /\ linklist' \in Sources \cup {NoSource}
      BY <3>1 DEF WorkOK
    <3>3. dst_exists' \in BOOLEAN /\ appending' \in BOOLEAN
      BY <1>1
    <3> QED BY <1>1, <2>1, <3>2, <3>3 DEF WorkOK
  <2>3. Gone \in Contents
    BY DEF Contents
  <2>4. src' \in [Sources -> Contents] /\ dst' \in [Sources -> Contents]
        /\ result' \in [Sources -> Status \cup {"none"}]
    BY <1>1, <2>3 DEF OpInv, OpTypeOK
  <2> QED
    BY <1>1, <2>2, <2>4 DEF OpInv, OpTypeOK, FilePlaces
<1>3. /\ Moving' = Moving
      /\ \A g : Data(g)' = Data(g)
      /\ \A g, e : WholeIn(g, e)' = WholeIn(g, e)
  BY SameData
<1>4. /\ dst'[f] = d /\ result'[f] = s /\ s # "none"
      /\ \A g \in Sources \ {f} : dst'[g] = dst[g] /\ result'[g] = result[g] /\ src'[g] = src[g]
  BY <1>1 DEF OpInv, OpTypeOK, Status
<1>5. SourcesKept'
  <2>1. ASSUME NEW g \in Sources \ {f}, Safe(g) PROVE Safe(g)'
    BY <1>3, <1>4, <2>1 DEF Safe
  <2>2. (s = "CONT" /\ Moving) \/ src'[f] # src[f] => Safe(f)'
    BY <1>3, <1>4 DEF Safe, GoodIn
  <2>3. ASSUME NEW g \in Sources
        PROVE /\ src'[g] \in {Data(g), Gone}
              /\ src'[g] = Gone => Safe(g)' /\ result'[g] # "none"
              /\ first'[g] = Gone \/ \E c \in Chunk : first'[g] = <<c>>
    <3>1. CASE g = f
      BY <3>1, <1>4, <2>2, DataFacts DEF OpInv, OpTypeOK, SourcesKept
    <3>2. CASE g # f
      BY <3>2, <1>4, <2>1 DEF OpInv, SourcesKept
    <3> QED BY <3>1, <3>2
  <2>4. ASSUME NEW g \in Sources, g \in erase_list' PROVE Safe(g)' /\ result'[g] # "none"
    <3>1. CASE g = f
      <4>1. f \notin erase_list
        BY DEF OpInv, SourcesKept
      <4>2. Moving /\ s = "CONT"
        BY <1>1, <3>1, <2>4, <4>1
      <4> QED BY <3>1, <1>4, <2>2, <4>2
    <3>2. CASE g # f
      <4>1. g \in erase_list
        BY <1>1, <3>2, <2>4
      <4> QED BY <3>2, <4>1, <1>4, <2>1 DEF OpInv, SourcesKept
    <3> QED BY <3>1, <3>2
  <2>5. erase_list' \subseteq Sources
    BY <1>2 DEF OpTypeOK
  <2> QED BY <1>3, <2>3, <2>4, <2>5 DEF SourcesKept
<1>6. Untouched'
  <2> SUFFICES ASSUME NEW g \in Sources, result'[g] = "none" PROVE dst'[g] \in {first[g], <<Other>>}
    BY DEF Untouched, Targets
  <2>1. g # f /\ dst'[g] = dst[g] /\ result[g] = "none" /\ g # file
    BY <1>4, ChunkAssumption
  <2> QED BY <2>1 DEF OpInv, Untouched, Targets
<1>7. Modes'
  <2>1. erase_list' # {} => Moving
    BY <1>1 DEF OpInv, Modes
  <2>2. Moving => replace_result' # "reget"
    BY DEF OpInv, Modes
  <2>3. setup.background => ~do_append'
    BY DEF OpInv, Modes
  <2> QED BY <2>1, <2>2, <2>3, <1>3 DEF Modes
<1>10. Quiet'
  BY <1>1 DEF Quiet, NoAnswer
<1>8. \A g \in Sources : g = file' => HandOK(g)'
  BY <1>1, ChunkAssumption
<1>9. StepOK
  BY <1>4 DEF StepOK, Reports, Halves, AgreesAt, GoodIn, Targets, OpInv
<1> QED BY <1>2, <1>5, <1>6, <1>7, <1>8, <1>9, <1>10 DEF OpInv

(* A step that goes on with the file in hand.                               *)
LEMMA HandKeeps ==
  ASSUME OpInv, NEW f \in Sources, f = file, file' = file, setup' = setup, first' = first,
         src' = src, result' = result, erase_list' = erase_list, NEW d \in Contents,
         dst' = [dst EXCEPT ![f] = d], mishap' \in {mishap, mishap \cup {f}},
         pc' \in FilePlaces \ {"idle", "end"}, WorkOK', Modes', Quiet',
         pc' \notin Late \cup Ending \cup {"remove"} => d \in Targets(f),
         AgreesAt(f), HandOK(f)'
  PROVE  OpInv' /\ StepOK
<1>1. OpTypeOK'
  BY DEF OpInv, OpTypeOK
<1>2. /\ \A g : Data(g)' = Data(g)
      /\ \A g, e : WholeIn(g, e)' = WholeIn(g, e)
  BY SameData
<1>3. dst'[f] = d /\ result[f] = "none" /\ \A g \in Sources \ {f} : dst'[g] = dst[g]
  BY DEF OpInv, OpTypeOK, HandOK
<1>4. SourcesKept'
  <2>1. ASSUME NEW g \in Sources \ {f}, Safe(g) PROVE Safe(g)'
    BY <1>2, <1>3, <2>1 DEF Safe
  <2>2. ASSUME NEW g \in Sources, src[g] = Gone \/ g \in erase_list PROVE Safe(g)' /\ result[g] # "none"
    <3>1. Safe(g) /\ result[g] # "none"
      BY <2>2 DEF OpInv, SourcesKept
    <3> QED BY <3>1, <1>3, <2>1
  <2>3. ASSUME NEW g \in Sources
        PROVE  src[g] \in {Data(g), Gone} /\ (first[g] = Gone \/ \E c \in Chunk : first[g] = <<c>>)
    BY DEF OpInv, SourcesKept
  <2>4. erase_list \subseteq Sources
    BY DEF OpInv, OpTypeOK
  <2> QED BY <1>2, <2>2, <2>3, <2>4 DEF SourcesKept
<1>5. Untouched'
  BY <1>3 DEF OpInv, Untouched, Targets
<1>6. StepOK
  BY <1>3 DEF StepOK, Reports, Halves, AgreesAt
<1> QED BY <1>1, <1>4, <1>5, <1>6 DEF OpInv

-----------------------------------------------------------------------------
(* What is known of one file of the operation.                              *)
LEMMA Here ==
  ASSUME OpInv, NEW f \in Sources
  PROVE  /\ dst[f] \in Contents /\ dst = [dst EXCEPT ![f] = dst[f]] /\ WorkOK
         /\ \A e \in Targets(f) : e \in Contents /\ (e # Gone => Len(e) = 1)
         /\ src[f] \in {Data(f), Gone} /\ (result[f] = "none" => src[f] = Data(f))
<1>1. dst[f] \in Contents /\ dst = [dst EXCEPT ![f] = dst[f]] /\ WorkOK
  BY DEF OpInv, OpTypeOK
<1>2. <<Other>> \in Seq(Chunk) /\ Len(<<Other>>) = 1
  BY DEF Chunk
<1>3. first[f] \in Contents /\ (first[f] # Gone => Len(first[f]) = 1)
  <2>1. \A c \in Chunk : Len(<<c>>) = 1
    OBVIOUS
  <2> QED BY <2>1 DEF OpInv, OpTypeOK, SourcesKept
<1> QED BY <1>1, <1>2, <1>3 DEF OpInv, SourcesKept, Targets, Contents

(* A target that is there is a sequence, and not Gone.                      *)
LEMMA Singles ==
  <<Old>> \in Seq(Chunk) /\ <<Other>> \in Seq(Chunk) /\ Gone \notin {<<Old>>, <<Other>>}
<1>1. <<Old>> \in Seq(Chunk) /\ <<Other>> \in Seq(Chunk)
  BY DEF Chunk
<1> QED BY <1>1, ChunkAssumption

(* The copy of a source holds all of it.                                    *)
LEMMA DataIsWhole ==
  ASSUME NEW f \in Sources PROVE WholeIn(f, Data(f))
<1>1. << >> \in Seq(Chunk) /\ Data(f) = << >> \o Data(f)
  BY DataFacts, EmptySeq, ConcatEmptySeq
<1> QED BY <1>1 DEF WholeIn

(* A target that is good in the next state.                                 *)
LEMMA GoodAfter ==
  ASSUME NEW f \in Sources, setup' = setup, answer' = answer,
         f \in mishap' \/ GoodIn(f, dst'[f])
  PROVE  Good(f)'
<1>1. Wanted(f)' = Wanted(f) /\ Moving' = Moving /\ Data(f)' = Data(f)
  BY SameData
<1> QED BY <1>1 DEF Good, GoodIn, WholeIn

(* The answers of file_error and of the progress dialog are results.        *)
LEMMA AnswerNames ==
  /\ Errors \subseteq {"SKIP", "SKIPALL", "ABORT"}
  /\ Buttons \subseteq {"CONT", "SKIP", "ABORT"}
  /\ "CONT" \in Buttons
<1>1. Errors \subseteq {"SKIP", "SKIPALL", "ABORT"}
  <2>1. CASE skip_all
    BY <2>1 DEF Errors
  <2>2. CASE ~skip_all
    BY <2>2 DEF Errors
  <2> QED BY <2>1, <2>2
<1>2. Buttons \subseteq {"CONT", "SKIP", "ABORT"} /\ "CONT" \in Buttons
  BY DEF Buttons
<1> QED BY <1>1, <1>2

(* A file given up before its target has been touched.                      *)
LEMMA FailKeeps ==
  ASSUME OpInv, NEW f \in Sources, result[f] = "none", file \in {f, NoSource},
         NEW s \in Status \ {"CONT"}, Fail(f, s), dst[f] \in Targets(f), skip_all' \in BOOLEAN,
         do_append' \in BOOLEAN, do_append' => do_append, do_reget' \in {do_reget, 0},
         replace_result' \in {replace_result, "rule"}
  PROVE  OpInv' /\ StepOK
<1>1. Done(f, s) /\ setup' = setup /\ first' = first /\ src' = src /\ dst' = dst /\ linklist' = linklist
      /\ mishap' = mishap
  BY DEF Fail, config
<1>2. AgreesAt(f)
  BY <1>1 DEF AgreesAt
<1> QED BY <1>1, <1>2, Here, DoneKeeps

(* query_replace ends with the file skipped or the operation aborted.       *)
LEMMA QueryStops ==
  ASSUME OpInv, NEW f \in Sources, result[f] = "none", f = file, dst[f] \in Targets(f),
         query_replace_stops(f)
  PROVE  OpInv' /\ StepOK
<1>1. \E s \in {"SKIP", "ABORT"} : Fail(f, s)
  BY DEF query_replace_stops
<1>2. replace_result' \in {replace_result, "rule"} /\ do_reget' = 0 /\ skip_all' = skip_all
      /\ do_append' = do_append
  BY DEF query_replace_stops
<1>3. skip_all \in BOOLEAN /\ do_append \in BOOLEAN
  BY Here DEF WorkOK
<1> QED BY <1>1, <1>2, <1>3, FailKeeps DEF Status

(* query_replace ends with the file to be copied: what it leaves in the     *)
(* context agrees with what the user said.                                  *)
LEMMA QueryGoesOn ==
  ASSUME OpInv, NEW f \in Sources, dst[f] # Gone, dst[f] \in Targets(f), query_replace_CONT(f)
  PROVE  /\ answer' \in [how : {"yes", "append", "reget", "unasked"}, was : {dst[f]}]
         /\ do_append' \in BOOLEAN /\ do_reget' \in 0 .. 1
         /\ replace_result' \in {"ask", "rule", "reget"}
         /\ answer'.how \in {"append", "yes"} => do_reget' = 0
         /\ answer'.how = "append" => do_append'
         /\ answer'.how \in {"reget", "unasked"} =>
              (do_append' /\ do_reget' = Len(dst[f])) \/ (~do_append' /\ do_reget' = 0)
         /\ setup.background => ~do_append'
         /\ Moving => /\ replace_result' # "reget" /\ do_reget' = 0 /\ answer'.how # "reget"
                      /\ answer'.how = "unasked" => ~do_append'
<1>1. Len(dst[f]) = 1 /\ do_append \in BOOLEAN /\ replace_result \in {"ask", "rule", "reget"}
      /\ (Moving => replace_result # "reget") /\ (setup.background => ~do_append)
  BY Here DEF WorkOK, OpInv, Modes
<1> DEFINE Says(how, append, reget) ==
      /\ answer' = [how |-> how, was |-> dst[f]] /\ do_append' = (append \/ do_append)
      /\ do_reget' = reget
<1>2. CASE setup.background
  <2>1. Says("unasked", FALSE, 0) /\ replace_result' = replace_result
    BY <1>2 DEF query_replace_CONT, Agree
  <2>2. ~do_append'
    BY <1>1, <1>2, <2>1
  <2> QED BY <1>1, <2>1, <2>2
<1>3. CASE ~setup.background
  <2>1. \/ Says("yes", FALSE, 0) /\ replace_result' \in {replace_result, "rule"}
        \/ Says("append", TRUE, 0) /\ replace_result' = replace_result
        \/ ~Moving /\ Says("reget", TRUE, Len(dst[f])) /\ replace_result' = "reget"
        \/ replace_result = "reget" /\ Says("unasked", TRUE, Len(dst[f]))
             /\ replace_result' = replace_result
    BY <1>1, <1>3 DEF query_replace_CONT, Agree, CanReget
  <2>2. CASE Says("yes", FALSE, 0) /\ replace_result' \in {replace_result, "rule"}
    <3>1. do_append' = do_append
      BY <1>1, <2>2
    <3> QED BY <1>1, <1>3, <2>2, <3>1
  <2>3. CASE Says("append", TRUE, 0) /\ replace_result' = replace_result
    <3>1. do_append' = TRUE
      BY <2>3
    <3> QED BY <1>1, <1>3, <2>3, <3>1
  <2>4. CASE ~Moving /\ Says("reget", TRUE, Len(dst[f])) /\ replace_result' = "reget"
    <3>1. do_append' = TRUE
      BY <2>4
    <3> QED BY <1>1, <1>3, <2>4, <3>1
  <2>5. CASE replace_result = "reget" /\ Says("unasked", TRUE, Len(dst[f]))
             /\ replace_result' = replace_result
    <3>1. do_append' = TRUE
      BY <2>5
    <3> QED BY <1>1, <1>3, <2>5, <3>1
  <2> QED BY <2>1, <2>2, <2>3, <2>4, <2>5
<1> QED BY <1>2, <1>3

(* Take preserves the invariant and does what a step must.                  *)
LEMMA TakeKeeps ==
  ASSUME OpInv, NEW f \in Sources, Take(f) PROVE OpInv' /\ StepOK
<1>1. pc = "idle" /\ result[f] = "none" /\ file = NoSource /\ f # file /\ dst[f] \in Targets(f)
      /\ answer = NoAnswer
  BY ChunkAssumption DEF Take, OpInv, OpTypeOK, Untouched, Quiet
<1>2. CASE "ABORT" \in Buttons /\ Fail(f, "ABORT") /\ UNCHANGED context
  <2>1. skip_all \in BOOLEAN /\ do_append \in BOOLEAN
    BY Here DEF WorkOK
  <2> QED BY <1>1, <1>2, <2>1, FailKeeps DEF Status, context
<1>3. CASE /\ pc' = IF MoveFile THEN "move" ELSE "copy"
           /\ file' = f
           /\ UNCHANGED <<config, src, dst, context, locals, return_status, linklist,
                          erase_list, result, history>>
  <2>1. pc' = (IF MoveFile THEN "move" ELSE "copy") /\ file' = f
        /\ UNCHANGED <<config, src, dst, context, locals, return_status, linklist, erase_list,
                       result, history>>
    BY <1>3 DEF Take
  <2>2. UNCHANGED <<setup, first, src, dst, skip_all, do_append, do_reget, replace_result,
                    dst_exists, appending, dst_status, n, return_status, linklist, erase_list,
                    result, answer, mishap>>
    BY <2>1 DEF config, context, locals, history
  <2>3. OpTypeOK'
    BY <2>1, <2>2 DEF OpInv, OpTypeOK, WorkOK, FilePlaces
  <2>4. Moving' = Moving /\ MoveFile' = MoveFile
    BY <2>2, SameData
  <2>5. SourcesKept'
    BY <2>2, SameData DEF OpInv, SourcesKept, Safe
  <2>6. Untouched'
    BY <1>1, <2>1, <2>2 DEF OpInv, Untouched, Targets, Late, Ending
  <2>7. Modes' /\ Quiet'
    BY <1>1, <2>1, <2>2, <2>4 DEF OpInv, Modes, Quiet, NoAnswer
  <2>8. HandOK(f)'
    BY <1>1, <2>1, <2>2, <2>4 DEF HandOK, Early, Late, Ending
  <2>9. StepOK
    BY <2>2 DEF StepOK, Reports, Halves, AgreesAt
  <2> QED BY <2>1, <2>3, <2>5, <2>6, <2>7, <2>8, <2>9 DEF OpInv
<1> QED BY <1>2, <1>3 DEF Take

(* A file in hand of which nothing changes stays in order.                  *)
LEMMA HandSame ==
  ASSUME NEW f \in Sources, HandOK(f), dst'[f] = dst[f],
         UNCHANGED <<setup, first, do_append, do_reget, file, pc, dst_exists, appending, dst_status,
                     n, return_status, result, answer, mishap>>
  PROVE  HandOK(f)'
<1>1. /\ Moving' = Moving /\ MoveFile' = MoveFile
      /\ \A d : NotTheirs(d)' = NotTheirs(d)
      /\ Wanted(f)' = Wanted(f) /\ \A d : GoodIn(f, d)' = GoodIn(f, d)
      /\ Data(f)' = Data(f)
  BY SameData
<1>2. AskedFirst(f)' = AskedFirst(f) /\ LookedAt(f)' = LookedAt(f)
  BY <1>1 DEF AskedFirst, LookedAt
<1>3. Begun(f)' = Begun(f)
  BY <1>1 DEF Begun
<1>4. Started(f)' = Started(f)
  <2>1. NotTheirs(dst[f])' = NotTheirs(dst[f])
    BY <1>1 DEF NotTheirs
  <2> QED BY <1>1, <1>3, <2>1 DEF Started
<1>5. Good(f)' = Good(f)
  BY <1>1 DEF Good, GoodIn, WholeIn
<1>6. Closing(f)' = Closing(f)
  <2>1. NotTheirs(dst[f])' = NotTheirs(dst[f])
    BY <1>1 DEF NotTheirs
  <2>2. Wanted(f)' = Wanted(f)
    BY <1>1, SameData
  <2>3. CloseReported(f, dst[f])' = CloseReported(f, dst[f])
    BY <1>1, <2>2 DEF CloseReported
  <2> QED BY <1>1, <1>5, <2>1, <2>3 DEF Closing, Targets
<1> QED BY <1>1, <1>2, <1>3, <1>4, <1>5, <1>6 DEF HandOK

(* The file of another process is not one the operation has open, so it     *)
(* disturbs none of what is known.                                          *)
LEMMA AppearKeeps ==
  ASSUME OpInv, NEW f \in Sources, Appear(f) PROVE OpInv' /\ StepOK
<1>1. /\ result[f] = "none" /\ dst[f] = Gone /\ dst' = [dst EXCEPT ![f] = <<Other>>]
      /\ UNCHANGED <<setup, first, src, skip_all, do_append, do_reget, replace_result, file, pc,
                     dst_exists, appending, dst_status, n, return_status, linklist, erase_list,
                     result, answer, mishap>>
  BY DEF Appear, config, context, locals, history
<1>2. dst'[f] = <<Other>> /\ <<Other>> \in Seq(Chunk) /\ \A g \in Sources \ {f} : dst'[g] = dst[g]
  BY <1>1 DEF OpInv, OpTypeOK, Chunk
<1>3. OpTypeOK'
  BY <1>1, <1>2 DEF OpInv, OpTypeOK, WorkOK, Contents
<1>4. /\ Moving' = Moving /\ MoveFile' = MoveFile
      /\ \A g : Data(g)' = Data(g)
      /\ \A g, e : WholeIn(g, e)' = WholeIn(g, e)
  BY <1>1, SameData
<1>5. SourcesKept'
  <2>1. ASSUME NEW g \in Sources, result[g] # "none", Safe(g) PROVE Safe(g)'
    BY <1>1, <1>2, <1>4, <2>1 DEF Safe
  <2>2. erase_list \subseteq Sources
    BY DEF OpInv, OpTypeOK
  <2> QED BY <1>1, <1>4, <2>1, <2>2 DEF OpInv, SourcesKept
<1>6. Untouched'
  BY <1>1, <1>2 DEF OpInv, Untouched, Targets
<1>7. Modes' /\ Quiet'
  BY <1>1, <1>4 DEF OpInv, Modes, Quiet, NoAnswer
<1>8. ASSUME NEW g \in Sources, g = file PROVE HandOK(g)'
  <2>1. CASE g = f
    <3>1. HandOK(f)
      BY <1>8, <2>1 DEF OpInv
    <3>2. pc \notin Late \cup {"remove"}
      BY <1>1, <3>1 DEF HandOK, Started, Late
    <3>3. pc = "rename" \/ (pc = "copy" /\ MoveFile) => AskedFirst(f)'
      BY <1>1, <1>2, <3>1 DEF HandOK, AskedFirst
    <3>4. pc \in Early => LookedAt(f)'
      BY <1>1, <1>2, <1>4, <3>1 DEF HandOK, LookedAt
    <3>5. pc \in Ending => Closing(f)'
      <4>1. ASSUME Closing(f) PROVE Closing(f)'
        <5>1. dst_status = "NONE"
          BY <1>1, <4>1 DEF Closing
        <5> QED BY <1>1, <1>2, <4>1, <5>1 DEF Closing, Targets
      <4> QED BY <3>1, <4>1 DEF HandOK
    <3>6. (pc = "create" => n = do_reget) /\ (pc \in {"move", "rename", "remove"} => MoveFile)
      BY <3>1 DEF HandOK
    <3>7. pc' = pc /\ n' = n /\ do_reget' = do_reget /\ result'[f] = "none" /\ pc # "prepare"
          /\ pc # "remove" /\ pc \notin Late
      BY <1>1, <3>2 DEF Late
    <3> QED BY <2>1, <1>4, <3>3, <3>4, <3>5, <3>6, <3>7 DEF HandOK
  <2>2. CASE g # f
    <3>1. HandOK(g) /\ dst'[g] = dst[g]
      BY <1>8, <1>2, <2>2 DEF OpInv
    <3> QED BY <1>1, <3>1, HandSame
  <2> QED BY <2>1, <2>2
<1>9. StepOK
  <2> QED BY <1>1, <1>2, Singles DEF StepOK, Reports, Halves, AgreesAt
<1> QED BY <1>1, <1>3, <1>5, <1>6, <1>7, <1>8, <1>9 DEF OpInv

(* move_file_file, up to the rename.                                        *)
LEMMA MoveKeeps ==
  ASSUME OpInv, NEW f \in Sources, f = file, move_file_file PROVE OpInv' /\ StepOK
<1>1. pc = "move" /\ result[f] = "none" /\ MoveFile /\ dst[f] \in Targets(f) /\ answer = NoAnswer
      /\ skip_all \in BOOLEAN /\ do_append \in BOOLEAN /\ Moving
  BY Here DEF move_file_file, OpInv, HandOK, Untouched, Quiet, WorkOK, Late, Ending, MoveFile
<1>2. CASE \E s \in Errors : Fail(f, s) /\ file_error(s) /\ UNCHANGED <<do_append, do_reget, replace_result>>
  <2>1. PICK s \in Errors : Fail(f, s) /\ file_error(s) /\ UNCHANGED <<do_append, do_reget, replace_result>>
    BY <1>2
  <2>2. s \in Status \ {"CONT"} /\ skip_all' \in BOOLEAN
    BY <1>1, <2>1, AnswerNames DEF Status, file_error
  <2> QED BY <1>1, <2>1, <2>2, FailKeeps
<1>3. CASE dst[f] # Gone /\ query_replace_stops(f)
  BY <1>1, <1>3, QueryStops
<1>4. CASE /\ IF dst[f] # Gone THEN query_replace_CONT(f)
              ELSE UNCHANGED <<answer, do_append, do_reget, replace_result>>
           /\ pc' = "rename"
           /\ UNCHANGED <<config, src, dst, skip_all, file, locals, return_status, linklist,
                          erase_list, result, mishap>>
  <2>1. UNCHANGED <<setup, first, src, dst, skip_all, file, dst_exists, appending, dst_status, n,
                    return_status, linklist, erase_list, result, mishap>> /\ pc' = "rename"
    BY <1>4 DEF config, locals
  <2>2. CASE dst[f] = Gone
    <3>1. UNCHANGED <<answer, do_append, do_reget, replace_result>>
      BY <1>4, <2>2
    <3>2. WorkOK' /\ Modes'
      BY <2>1, <3>1, SameData DEF OpInv, OpTypeOK, WorkOK, Modes
    <3>3. Quiet'
      BY <2>1 DEF Quiet
    <3>4. HandOK(f)'
      BY <1>1, <2>1, <2>2, <3>1, SameData
         DEF HandOK, AskedFirst, NoAnswer, Early, Late, Ending
    <3>5. AgreesAt(f)
      BY <2>1 DEF AgreesAt
    <3> QED BY <1>1, <2>1, <3>2, <3>3, <3>4, <3>5, Here, HandKeeps DEF FilePlaces
  <2>3. CASE dst[f] # Gone
    <3>1. query_replace_CONT(f)
      BY <1>4, <2>3
    <3> DEFINE h == answer'.how
    <3>2. /\ answer' \in [how : {"yes", "append", "reget", "unasked"}, was : {dst[f]}]
          /\ do_append' \in BOOLEAN /\ do_reget' \in 0 .. 1
          /\ replace_result' \in {"ask", "rule"} /\ h # "reget"
          /\ h = "append" => do_append'
          /\ h = "unasked" => ~do_append'
          /\ setup.background => ~do_append'
      BY <1>1, <2>3, <3>1, QueryGoesOn
    <3>3. WorkOK'
      BY <2>1, <3>2, Here DEF WorkOK
    <3>4. Modes'
      BY <2>1, <3>2, SameData DEF OpInv, Modes
    <3>5. Quiet'
      BY <2>1 DEF Quiet
    <3>6. HandOK(f)'
      BY <1>1, <2>1, <2>3, <3>2, SameData DEF HandOK, AskedFirst, Early, Late, Ending
    <3>7. AgreesAt(f)
      BY <2>1 DEF AgreesAt
    <3> QED BY <1>1, <2>1, <3>3, <3>4, <3>5, <3>6, <3>7, Here, HandKeeps DEF FilePlaces
  <2> QED BY <2>2, <2>3
<1> QED BY <1>2, <1>3, <1>4 DEF move_file_file

(* rename: the target is the source, whole.                                 *)
LEMMA RenameKeeps ==
  ASSUME OpInv, NEW f \in Sources, f = file, rename PROVE OpInv' /\ StepOK
<1>1. pc = "rename" /\ result[f] = "none" /\ MoveFile /\ Moving /\ dst[f] \in Targets(f)
      /\ AskedFirst(f) /\ src[f] = Data(f)
  BY Here DEF rename, OpInv, HandOK, Untouched, Late, Ending, MoveFile
<1>2. CASE ~do_append /\ dst' = [dst EXCEPT ![f] = src[f]] /\ src' = [src EXCEPT ![f] = Gone]
           /\ (\E s \in Buttons : Done(f, s)) /\ UNCHANGED <<config, context, linklist, mishap>>
  <2>1. PICK s \in Buttons : Done(f, s)
    BY <1>2
  <2>2. UNCHANGED <<setup, first, skip_all, do_append, do_reget, replace_result, linklist, mishap>>
    BY <1>2 DEF config, context
  <2>3. s \in Status /\ Data(f) \in Contents
    BY AnswerNames, DataFacts DEF Status, Contents
  <2>4. WholeIn(f, Data(f))
    BY DataIsWhole
  <2>5. Data(f) \in Wanted(f)
    BY <1>1, <1>2 DEF AskedFirst, Wanted
  <2>6. AgreesAt(f)
    <3>1. <<Old>> # Gone
      BY Singles
    <3> QED BY <1>1, <3>1 DEF AgreesAt, AskedFirst
  <2>7. skip_all' \in BOOLEAN /\ do_append' \in BOOLEAN
    BY <2>2, Here DEF WorkOK
  <2> QED BY <1>1, <1>2, <2>1, <2>2, <2>3, <2>4, <2>5, <2>6, <2>7, DoneKeeps DEF GoodIn
<1>3. CASE /\ pc' = "copy"
           /\ UNCHANGED <<config, src, dst, context, file, locals, return_status, linklist,
                          erase_list, result, history>>
  <2>1. UNCHANGED <<setup, first, src, dst, skip_all, do_append, do_reget, replace_result, file,
                    dst_exists, appending, dst_status, n, return_status, linklist, erase_list,
                    result, answer, mishap>> /\ pc' = "copy"
    BY <1>3 DEF config, context, locals, history
  <2>2. WorkOK' /\ Modes' /\ Quiet'
    BY <1>1, <2>1, SameData DEF OpInv, OpTypeOK, WorkOK, Modes, Quiet
  <2>3. HandOK(f)'
    BY <1>1, <2>1, SameData DEF HandOK, AskedFirst, Early, Late, Ending
  <2>4. AgreesAt(f)
    BY <2>1 DEF AgreesAt
  <2> QED BY <1>1, <2>1, <2>2, <2>3, <2>4, Here, HandKeeps DEF FilePlaces
<1> QED BY <1>2, <1>3 DEF rename

(* copy_file_file, up to the hard links.                                    *)
LEMMA CopyKeeps ==
  ASSUME OpInv, NEW f \in Sources, f = file, copy_file_file PROVE OpInv' /\ StepOK
<1>1. pc = "copy" /\ result[f] = "none" /\ dst[f] \in Targets(f)
      /\ skip_all \in BOOLEAN /\ do_append \in BOOLEAN
      /\ (MoveFile => AskedFirst(f)) /\ (~MoveFile => answer = NoAnswer)
  BY Here DEF copy_file_file, OpInv, HandOK, Untouched, Quiet, WorkOK, Late, Ending
<1>2. CASE \E s \in Errors : Fail(f, s) /\ file_error(s) /\ UNCHANGED <<do_append, do_reget, replace_result>>
  <2>1. PICK s \in Errors : Fail(f, s) /\ file_error(s) /\ UNCHANGED <<do_append, do_reget, replace_result>>
    BY <1>2
  <2>2. s \in Status \ {"CONT"} /\ skip_all' \in BOOLEAN
    BY <1>1, <2>1, AnswerNames DEF Status, file_error
  <2> QED BY <1>1, <2>1, <2>2, FailKeeps
<1>3. CASE query_replace_stops(f)
  BY <1>1, <1>3, QueryStops
<1> DEFINE ask == dst[f] # Gone /\ ~MoveFile
<1>4. CASE /\ IF ask THEN query_replace_CONT(f)
              ELSE do_reget' = 0 /\ UNCHANGED <<answer, do_append, replace_result>>
           /\ dst_exists' = (dst[f] # Gone)
           /\ appending' = FALSE /\ dst_status' = "NONE" /\ n' = 0
           /\ return_status' = "RETRY"
           /\ pc' = IF do_append' THEN "open" ELSE "link"
           /\ UNCHANGED <<config, src, dst, skip_all, file, linklist, erase_list, result, mishap>>
  <2>1. /\ UNCHANGED <<setup, first, src, dst, skip_all, file, linklist, erase_list, result, mishap>>
        /\ dst_exists' \in BOOLEAN /\ (dst_exists' <=> dst[f] # Gone)
        /\ appending' = FALSE /\ dst_status' = "NONE" /\ n' = 0 /\ return_status' = "RETRY"
        /\ pc' \in {"open", "link"}
    BY <1>4 DEF config
  <2>2. AgreesAt(f) /\ Quiet'
    BY <2>1 DEF AgreesAt, Quiet
  <2>3. CASE ask
    <3>1. query_replace_CONT(f) /\ dst[f] # Gone /\ ~MoveFile
      BY <1>4, <2>3
    <3> DEFINE h == answer'.how
    <3>2. /\ answer' \in [how : {"yes", "append", "reget", "unasked"}, was : {dst[f]}]
          /\ do_append' \in BOOLEAN /\ do_reget' \in 0 .. 1
          /\ replace_result' \in {"ask", "rule", "reget"}
          /\ h \in {"append", "yes"} => do_reget' = 0
          /\ h = "append" => do_append'
          /\ h \in {"reget", "unasked"} =>
               (do_append' /\ do_reget' = Len(dst[f])) \/ (~do_append' /\ do_reget' = 0)
          /\ setup.background => ~do_append'
          /\ Moving => replace_result' # "reget" /\ do_reget' = 0
      BY <1>1, <3>1, QueryGoesOn
    <3>3. WorkOK'
      <4>1. appending' \in BOOLEAN /\ skip_all' \in BOOLEAN
        BY <1>1, <2>1
      <4> QED BY <1>1, <2>1, <4>1, <3>2, Here DEF WorkOK, Status
    <3>4. Modes'
      BY <2>1, <3>2, SameData DEF OpInv, Modes
    <3>5. LookedAt(f)'
      BY <2>1, <3>1, <3>2, SameData DEF LookedAt
    <3>6. HandOK(f)'
      BY <1>1, <2>1, <3>5 DEF HandOK, Late, Ending
    <3> QED BY <1>1, <2>1, <2>2, <3>3, <3>4, <3>6, Here, HandKeeps DEF FilePlaces, Early
  <2>4. CASE ~ask
    <3>1. do_reget' = 0 /\ UNCHANGED <<answer, do_append, replace_result>>
      BY <1>4, <2>4
    <3>2. WorkOK'
      <4>1. appending' \in BOOLEAN /\ skip_all' \in BOOLEAN
        BY <1>1, <2>1
      <4> QED BY <1>1, <2>1, <4>1, <3>1, Here DEF WorkOK, Status
    <3>3. Modes'
      BY <2>1, <3>1, SameData DEF OpInv, Modes
    <3>4. LookedAt(f)'
      <4>1. CASE MoveFile
        BY <1>1, <2>1, <3>1, <4>1, SameData DEF LookedAt, AskedFirst
      <4>2. CASE ~MoveFile
        BY <1>1, <2>1, <2>4, <3>1, <4>2, SameData DEF LookedAt, NoAnswer
      <4> QED BY <4>1, <4>2
    <3>5. HandOK(f)'
      BY <1>1, <2>1, <3>4 DEF HandOK, Late, Ending
    <3> QED BY <1>1, <2>1, <2>2, <3>2, <3>3, <3>5, Here, HandKeeps DEF FilePlaces, Early
  <2> QED BY <2>3, <2>4
<1> QED BY <1>2, <1>3, <1>4 DEF copy_file_file

(* check_hardlinks: a link to a target that is not the data is a mishap.    *)
LEMMA HardlinksKeep ==
  ASSUME OpInv, NEW f \in Sources, f = file, check_hardlinks PROVE OpInv' /\ StepOK
<1>1. pc = "link" /\ result[f] = "none" /\ dst[f] \in Targets(f) /\ LookedAt(f)
      /\ skip_all \in BOOLEAN /\ do_append \in BOOLEAN
  BY Here DEF check_hardlinks, OpInv, HandOK, Untouched, WorkOK, Late, Ending, Early
<1>2. CASE /\ setup.linked /\ linklist # NoSource
           /\ src[linklist] # Gone /\ dst[linklist] # Gone /\ dst[f] = Gone
           /\ dst' = [dst EXCEPT ![f] = dst[linklist]]
           /\ mishap' = IF dst[linklist] # Data(f) THEN mishap \union {f} ELSE mishap
           /\ IF MoveFile
              THEN pc' = "remove" /\ Forget /\ return_status' = "CONT"
                   /\ UNCHANGED <<file, erase_list, result, answer>>
              ELSE Done(f, "CONT")
           /\ UNCHANGED <<config, src, context, linklist>>
  <2>1. linklist \in Sources
    BY <1>2, Here DEF WorkOK
  <2> DEFINE d == dst[linklist]
  <2>2. d \in Contents /\ d # Gone /\ dst' = [dst EXCEPT ![f] = d] /\ dst'[f] = d
        /\ mishap' \in {mishap, mishap \cup {f}}
    BY <1>2, <2>1 DEF OpInv, OpTypeOK
  <2> HIDE DEF d
  <2>3. UNCHANGED <<setup, first, src, skip_all, do_append, do_reget, replace_result, linklist>>
    BY <1>2 DEF config, context
  <2>4. answer.how # "append"
    BY <1>1, <1>2 DEF LookedAt
  <2>5. f \in mishap' \/ GoodIn(f, d)
    <3>1. CASE d = Data(f)
      BY <2>4, <3>1, DataIsWhole DEF GoodIn, Wanted
    <3>2. CASE d # Data(f)
      BY <1>2, <3>2 DEF d
    <3> QED BY <3>1, <3>2
  <2>6. AgreesAt(f)
    BY <1>2, Singles DEF AgreesAt
  <2>7. CASE MoveFile
    <3>1. pc' = "remove" /\ return_status' = "CONT" /\ UNCHANGED <<file, erase_list, result, answer>>
          /\ dst_exists' = FALSE /\ appending' = FALSE /\ dst_status' = "NONE" /\ n' = 0
      BY <1>2, <2>7 DEF Forget
    <3>2. WorkOK'
      <4>1. dst_exists' \in BOOLEAN /\ appending' \in BOOLEAN
        BY <3>1
      <4> QED BY <2>3, <3>1, <4>1, Here DEF WorkOK, Status
    <3>3. Modes' /\ Quiet'
      BY <2>3, <3>1, SameData DEF OpInv, Modes, Quiet
    <3>4. Good(f)'
      BY <2>2, <2>3, <2>5, <3>1, GoodAfter
    <3>5. HandOK(f)'
      BY <1>1, <2>2, <2>3, <2>7, <3>1, <3>4, SameData DEF HandOK, Early, Late, Ending
    <3> QED BY <2>2, <2>3, <2>6, <3>1, <3>2, <3>3, <3>5, HandKeeps DEF FilePlaces
  <2>8. CASE ~MoveFile
    <3>1. Done(f, "CONT") /\ "CONT" \in Status
      BY <1>2, <2>8 DEF Status
    <3> QED BY <1>1, <2>2, <2>3, <2>5, <2>6, <3>1, DoneKeeps DEF GoodIn
  <2> QED BY <2>7, <2>8
<1>3. CASE Fail(f, "ABORT") /\ UNCHANGED context
  BY <1>1, <1>3, FailKeeps DEF context, Status
<1>4. CASE /\ pc' = "open"
           /\ linklist' = IF setup.linked /\ linklist = NoSource THEN f ELSE linklist
           /\ setup.linked /\ linklist # NoSource => skip_all' \in {skip_all, TRUE}
           /\ ~setup.linked \/ linklist = NoSource => UNCHANGED skip_all
           /\ UNCHANGED <<config, src, dst, do_append, do_reget, replace_result, file, locals,
                          return_status, erase_list, result, history>>
  <2>1. /\ UNCHANGED <<setup, first, src, dst, do_append, do_reget, replace_result, file,
                       dst_exists, appending, dst_status, n, return_status, erase_list, result,
                       answer, mishap>>
        /\ pc' = "open"
    BY <1>4 DEF config, locals, history
  <2>2. skip_all' \in BOOLEAN
    BY <1>1, <1>4
  <2>3. linklist' \in Sources \cup {NoSource}
    BY <1>4, Here DEF WorkOK
  <2>4. WorkOK' /\ Modes' /\ Quiet'
    BY <2>1, <2>2, <2>3, SameData DEF OpInv, OpTypeOK, WorkOK, Modes, Quiet
  <2>5. HandOK(f)'
    BY <1>1, <2>1, SameData DEF HandOK, LookedAt, Late, Ending
  <2>6. AgreesAt(f)
    BY <2>1 DEF AgreesAt
  <2> QED BY <1>1, <2>1, <2>4, <2>5, <2>6, Here, HandKeeps DEF FilePlaces, Early
<1> QED BY <1>2, <1>3, <1>4 DEF check_hardlinks

(* open_source; where lseek fails nothing is appended or regot.             *)
LEMMA OpenSourceKeeps ==
  ASSUME OpInv, NEW f \in Sources, f = file, open_source PROVE OpInv' /\ StepOK
<1>1. pc = "open" /\ result[f] = "none" /\ dst[f] \in Targets(f) /\ LookedAt(f)
      /\ skip_all \in BOOLEAN /\ do_append \in BOOLEAN
  BY Here DEF open_source, OpInv, HandOK, Untouched, WorkOK, Late, Ending, Early
<1>2. UNCHANGED <<setup, first, src, dst, replace_result, linklist, mishap>>
  BY DEF open_source, config
<1>3. AgreesAt(f)
  BY <1>2 DEF AgreesAt
<1>4. CASE /\ pc' = "create"
           /\ \/ n' = do_reget /\ UNCHANGED <<do_append, do_reget>>
              \/ do_reget # 0 /\ n' = 0 /\ do_reget' = 0 /\ do_append' = FALSE
           /\ UNCHANGED <<skip_all, return_status, file, erase_list, result, dst_exists, appending,
                          dst_status, answer>>
  <2>1. do_append' \in BOOLEAN /\ n' \in 0 .. 2 /\ do_reget' \in 0 .. 1 /\ n' = do_reget'
        /\ (do_append' => do_append)
    <3>1. do_reget \in 0 .. 1
      BY Here DEF WorkOK
    <3>2. CASE n' = do_reget /\ UNCHANGED <<do_append, do_reget>>
      BY <1>1, <3>1, <3>2
    <3>3. CASE n' = 0 /\ do_reget' = 0 /\ do_append' = FALSE
      <4>1. do_append' \in BOOLEAN /\ (do_append' => do_append)
        BY <3>3
      <4> QED BY <3>3, <4>1
    <3> QED BY <1>4, <3>2, <3>3
  <2>2. WorkOK'
    BY <1>2, <1>4, <2>1, Here DEF WorkOK
  <2>3. Modes' /\ Quiet'
    BY <1>2, <1>4, <2>1, SameData DEF OpInv, Modes, Quiet
  <2>4. LookedAt(f)'
    <3>1. CASE UNCHANGED <<do_append, do_reget>>
      BY <1>1, <1>2, <1>4, <3>1, SameData DEF LookedAt
    <3>2. CASE do_reget # 0 /\ do_reget' = 0 /\ do_append' = FALSE
      <4>1. answer.how \in {"reget", "unasked"}
        BY <1>1, <3>2, Here DEF LookedAt, WorkOK
      <4> QED BY <1>1, <1>2, <1>4, <3>2, <4>1, SameData DEF LookedAt
    <3> QED BY <1>4, <3>1, <3>2
  <2>5. HandOK(f)'
    BY <1>1, <1>4, <2>1, <2>4 DEF HandOK, Late, Ending
  <2> QED BY <1>1, <1>2, <1>3, <1>4, <2>2, <2>3, <2>5, Here, HandKeeps DEF FilePlaces, Early
<1>5. CASE /\ \E s \in Errors : Done(f, s) /\ file_error(s)
           /\ do_append' = (do_append /\ skip_all)
           /\ UNCHANGED do_reget
  <2>1. PICK s \in Errors : Done(f, s) /\ file_error(s)
    BY <1>5
  <2>2. s \in Status /\ s # "CONT" /\ skip_all' \in BOOLEAN
    BY <1>1, <2>1, AnswerNames DEF Status, file_error
  <2>3. do_append' \in BOOLEAN /\ (do_append' => do_append)
    BY <1>1, <1>5
  <2> QED BY <1>1, <1>2, <1>3, <1>5, <2>1, <2>2, <2>3, Here, DoneKeeps
<1> QED BY <1>4, <1>5 DEF open_source

(* Opening the target: it is empty, or what was there is kept and was       *)
(* agreed to be appended to, or it is a mishap.                             *)
LEMMA OpenedDoes ==
  ASSUME OpInv, NEW f \in Sources, LookedAt(f), n = do_reget, OpenedTarget(f), setup' = setup,
         UNCHANGED <<do_reget, dst_exists, n, answer>>
  PROVE  /\ \E d \in Seq(Chunk) : dst' = [dst EXCEPT ![f] = d] /\ d \in {dst[f], << >>}
         /\ dst'[f] # Gone /\ do_append' = FALSE /\ appending' \in BOOLEAN
         /\ mishap' \in {mishap, mishap \cup {f}} /\ Started(f)'
         /\ ~appending' => dst'[f] = << >>
<1>1. /\ dst' = [dst EXCEPT ![f] = IF dst_exists /\ do_append THEN @ ELSE << >>]
      /\ appending' = do_append /\ do_append' = FALSE /\ dst_status' = "SHORT"
      /\ mishap' = IF do_append /\ dst_exists /\ answer.how \in {"none", "yes"}
                   THEN mishap \cup {f} ELSE mishap
  BY DEF OpenedTarget
<1>2. WorkOK /\ dst[f] \in Contents /\ do_append \in BOOLEAN
  BY Here DEF WorkOK
<1> DEFINE d == IF dst_exists /\ do_append THEN dst[f] ELSE << >>
<1>3. d \in Seq(Chunk) /\ d # Gone
  <2>1. dst_exists => dst[f] \in Seq(Chunk)
    BY <1>2 DEF LookedAt, Contents
  <2>2. << >> \in Seq(Chunk)
    BY EmptySeq
  <2> QED BY <2>1, <2>2, ChunkAssumption
<1>4. dst' = [dst EXCEPT ![f] = d] /\ dst'[f] = d /\ d \in {dst[f], << >>} /\ (~do_append => d = << >>)
  BY <1>1 DEF OpInv, OpTypeOK
<1>5. d = << >> \/ (dst_exists /\ do_append /\ d = dst[f])
  OBVIOUS
<1> HIDE DEF d
<1>6. answer.how = "none" => NotTheirs(d)
  <2>1. NotTheirs(<< >>)
    BY DEF NotTheirs
  <2>2. MoveFile => NotTheirs(<<Other>>)
    BY ChunkAssumption DEF NotTheirs
  <2> QED BY <1>5, <2>1, <2>2 DEF LookedAt
<1> DEFINE D == Data(f)
<1>7. D \in Seq(Chunk) /\ Len(D) = 2 /\ SubSeq(D, 1, 0) = << >> /\ SubSeq(D, 2, 1) = << >>
      /\ SubSeq(D, 1, 2) = D
  BY DataFacts, Slices
<1> HIDE DEF D
<1>8. ASSUME f \notin mishap', do_append
      PROVE  \E b \in Seq(Chunk) : b \o SubSeq(D, do_reget + 1, 2) \in Wanted(f)
                                   /\ d = b \o SubSeq(D, do_reget + 1, n)
  <2>1. SubSeq(D, do_reget + 1, n) = << >>
    <3>1. do_reget \in {0, 1}
      BY <1>2 DEF WorkOK
    <3> QED BY <1>7, <3>1
  <2>2. d \o << >> = d
    BY <1>3, ConcatEmptySeq
  <2>3. d \o SubSeq(D, do_reget + 1, 2) \in Wanted(f)
    <3>1. CASE dst_exists
      <4>1. answer.how \in {"append", "reget", "unasked"} /\ d = answer.was
        BY <1>1, <1>2, <1>4, <1>8, <3>1 DEF LookedAt, WorkOK, d
      <4>2. CASE answer.how = "append"
        <5>1. do_reget = 0
          BY <4>2 DEF LookedAt
        <5>2. SubSeq(D, do_reget + 1, 2) = D
          BY <1>7, <5>1
        <5> QED BY <4>1, <4>2, <5>2 DEF Wanted, D
      <4>3. CASE answer.how \in {"reget", "unasked"}
        BY <1>8, <4>1, <4>3 DEF LookedAt, Wanted, D
      <4> QED BY <4>1, <4>2, <4>3
    <3>2. CASE ~dst_exists
      <4>1. answer.how = "none" /\ do_reget = 0 /\ d = << >>
        BY <3>2, <1>5 DEF LookedAt
      <4>2. << >> \o D = D
        BY <1>7, ConcatEmptySeq
      <4> QED BY <1>7, <4>1, <4>2 DEF Wanted, D
    <3> QED BY <3>1, <3>2
  <2> QED BY <1>3, <2>1, <2>2, <2>3
<1>9. /\ Moving' = Moving /\ MoveFile' = MoveFile /\ Data(f)' = D /\ Wanted(f)' = Wanted(f)
      /\ \A e : NotTheirs(e)' = NotTheirs(e)
  BY SameData DEF D
<1>10. ~do_append => do_reget = 0 /\ answer.how # "append"
  BY <1>2 DEF LookedAt, WorkOK
<1>11. f \in mishap' \/ Begun(f)'
  <2> SUFFICES ASSUME f \notin mishap' PROVE Begun(f)'
    OBVIOUS
  <2>1. CASE do_append
    BY <1>1, <1>4, <1>8, <1>9, <2>1 DEF Begun
  <2>2. CASE ~do_append
    BY <1>1, <1>4, <1>7, <1>9, <1>10, <2>2 DEF Begun
  <2> QED BY <2>1, <2>2
<1>12. Started(f)'
  <2>1. answer.how = "none" => NotTheirs(dst[f])'
    BY <1>4, <1>6, <1>9 DEF NotTheirs
  <2>2. Moving => do_reget = 0
    BY DEF LookedAt
  <2>3. dst'[f] # Gone /\ dst_status' = "SHORT" /\ do_reget' <= n'
    BY <1>1, <1>2, <1>3, <1>4 DEF WorkOK
  <2> QED BY <1>1, <1>9, <1>10, <1>11, <2>1, <2>2, <2>3 DEF Started
<1> QED BY <1>1, <1>2, <1>3, <1>4, <1>12

(* On the way to close only Closing counts.                                 *)
LEMMA CloseToClosing ==
  ASSUME NEW f \in Sources, result[f] = "none", result' = result, pc' = "close", Closing(f)'
  PROVE  HandOK(f)'
BY DEF HandOK, Early, Late, Ending

(* open_target.                                                             *)
LEMMA OpenTargetKeeps ==
  ASSUME OpInv, NEW f \in Sources, f = file, open_target PROVE OpInv' /\ StepOK
<1>1. pc = "create" /\ result[f] = "none" /\ dst[f] \in Targets(f) /\ LookedAt(f) /\ n = do_reget
      /\ skip_all \in BOOLEAN /\ do_append \in BOOLEAN /\ WorkOK
  BY Here DEF open_target, OpInv, HandOK, Untouched, WorkOK, Late, Ending, Early
<1>2. UNCHANGED <<setup, first, src, do_reget, replace_result, file, dst_exists, n, linklist,
                  erase_list, result, answer>>
  BY DEF open_target, config
<1>3. return_status = "RETRY" /\ dst_status = "NONE"
  BY <1>1 DEF LookedAt
<1>4. CASE /\ pc' = "close" /\ skip_all' \in BOOLEAN /\ do_append' \in BOOLEAN
           /\ do_append' => do_append
           /\ return_status' \in Status \ {"CONT"}
           /\ UNCHANGED <<dst, appending, dst_status, mishap>>
  <2>1. WorkOK' /\ Modes' /\ Quiet'
    BY <1>1, <1>2, <1>4, SameData DEF OpInv, WorkOK, Modes, Quiet
  <2>2. Closing(f)'
    BY <1>1, <1>2, <1>3, <1>4 DEF Closing, Targets
  <2>3. HandOK(f)'
    BY <1>1, <1>2, <1>4, <2>2, CloseToClosing
  <2>4. AgreesAt(f)
    BY <1>4 DEF AgreesAt
  <2> QED BY <1>1, <1>2, <1>4, <2>1, <2>3, <2>4, Here, HandKeeps DEF FilePlaces, Ending
<1>5. CASE Refused(f) /\ pc' = "close"
           /\ UNCHANGED <<dst, appending, do_append, skip_all, dst_status, return_status, mishap>>
  <2>1. return_status' \in Status \ {"CONT"}
    BY <1>3, <1>5 DEF Status
  <2> QED BY <1>1, <1>4, <1>5, <2>1
<1>6. CASE /\ \E s \in Errors :
                file_error(s) /\ do_append' = (do_append /\ skip_all) /\ return_status' = s /\ pc' = "close"
                /\ UNCHANGED <<dst, appending, dst_status, mishap>>
  <2>1. return_status' \in Status \ {"CONT"} /\ skip_all' \in BOOLEAN
    BY <1>1, <1>6, AnswerNames DEF Status, file_error
  <2>2. do_append' \in BOOLEAN /\ (do_append' => do_append)
    BY <1>1, <1>6
  <2> QED BY <1>4, <1>6, <2>1, <2>2
<1>7. CASE ~Refused(f) /\ OpenedTarget(f) /\ pc' = "prepare" /\ UNCHANGED <<skip_all, return_status>>
  <2>1. PICK d \in Seq(Chunk) : dst' = [dst EXCEPT ![f] = d] /\ d \in {dst[f], << >>}
    BY <1>1, <1>2, <1>7, OpenedDoes
  <2>2. /\ dst'[f] # Gone /\ do_append' = FALSE /\ appending' \in BOOLEAN
        /\ mishap' \in {mishap, mishap \cup {f}} /\ Started(f)'
        /\ ~appending' => dst'[f] = << >>
    BY <1>1, <1>2, <1>7, OpenedDoes
  <2>3. dst_status' = "SHORT"
    BY <1>7 DEF OpenedTarget
  <2>4. WorkOK' /\ Modes' /\ Quiet'
    <3>1. do_append' \in BOOLEAN /\ skip_all' \in BOOLEAN
      BY <1>1, <1>7, <2>2
    <3> QED BY <1>1, <1>2, <1>7, <2>2, <2>3, <3>1, SameData DEF OpInv, WorkOK, Modes, Quiet
  <2>5. HandOK(f)'
    BY <1>1, <1>2, <1>7, <2>2 DEF HandOK, Early, Ending
  <2>6. AgreesAt(f)
    BY <1>1, <1>7, Singles DEF AgreesAt, Refused, LookedAt
  <2>7. d \in Contents
    BY DEF Contents
  <2> QED BY <1>1, <1>2, <1>7, <2>1, <2>2, <2>4, <2>5, <2>6, <2>7, HandKeeps DEF FilePlaces, Late
<1> QED BY <1>5, <1>6, <1>7 DEF open_target

(* A target without an answer is not one the user should have been asked    *)
(* about, so altering it breaks no agreement.                               *)
LEMMA TheirsAgreed ==
  ASSUME NEW f \in Sources, answer.how = "none" => NotTheirs(dst[f])
  PROVE  AgreesAt(f)
<1>1. NotTheirs(<<Old>>) => MoveFile /\ FALSE
  BY DEF NotTheirs
<1>2. NotTheirs(<<Other>>) => MoveFile
  BY DEF NotTheirs
<1> QED BY <1>1, <1>2 DEF AgreesAt

(* Allocating space: zeros behind what is there.                            *)
LEMMA PaddedDoes ==
  ASSUME OpInv, NEW f \in Sources, dst[f] \in Seq(Chunk), Len(src[f]) = 2
  PROVE  /\ Padded(f) \in Seq(Chunk)
         /\ NotTheirs(dst[f]) => NotTheirs(Padded(f))
         /\ dst[f] = << >> => Padded(f) = [i \in 1 .. 2 |-> Zero]
<1> DEFINE k == Len(src[f]) - Len(dst[f])
           m == IF k >= 0 THEN k ELSE 0
           z == [i \in 1 .. m |-> Zero]
<1>1. Len(dst[f]) \in Nat /\ k \in Int /\ m \in Nat /\ 1 .. k = 1 .. m
  OBVIOUS
<1>2. Padded(f) = dst[f] \o z
  BY <1>1 DEF Padded
<1>3. Zero \in Chunk
  BY DEF Chunk
<1> HIDE DEF m, k
<1>4. z \in Seq(Chunk) /\ Len(z) = m /\ \A i \in 1 .. m : z[i] = Zero
  BY <1>1, <1>3
<1> HIDE DEF z
<1>5. dst[f] \o z \in Seq(Chunk) /\ Len(dst[f] \o z) = Len(dst[f]) + m
      /\ \A i \in 1 .. Len(dst[f]) + m :
           (dst[f] \o z)[i] = IF i <= Len(dst[f]) THEN dst[f][i] ELSE z[i - Len(dst[f])]
  BY SMTT(60), <1>1, <1>4
<1>6. NotTheirs(dst[f]) => NotTheirs(Padded(f))
  <2> SUFFICES ASSUME NotTheirs(dst[f]), NEW i \in 1 .. Len(dst[f]) + m
               PROVE  (dst[f] \o z)[i] # Old /\ ((dst[f] \o z)[i] # Other \/ MoveFile)
    BY <1>1, <1>2, <1>5 DEF NotTheirs
  <2>1. CASE i <= Len(dst[f])
    BY <1>1, <1>5, <2>1 DEF NotTheirs
  <2>2. CASE i > Len(dst[f])
    <3>1. i - Len(dst[f]) \in 1 .. m
      BY <1>1, <2>2
    <3> QED BY <1>1, <1>4, <1>5, <2>2, <3>1, ChunkAssumption
  <2>3. i <= Len(dst[f]) \/ i > Len(dst[f])
    BY <1>1
  <2> QED BY <2>1, <2>2, <2>3
<1>7. dst[f] = << >> => Padded(f) = [i \in 1 .. 2 |-> Zero]
  <2> SUFFICES ASSUME dst[f] = << >> PROVE dst[f] \o z = [i \in 1 .. 2 |-> Zero]
    BY <1>2
  <2>1. m = 2
    BY DEF m, k
  <2> QED BY <1>4, <2>1, ConcatEmptySeq DEF z
<1> QED BY <1>2, <1>5, <1>6, <1>7

(* prepare, with its ways to fail.                                          *)
LEMMA PrepareKeeps ==
  ASSUME OpInv, NEW f \in Sources, f = file, prepare PROVE OpInv' /\ StepOK
<1>1. /\ pc = "prepare" /\ result[f] = "none" /\ Started(f) /\ n = do_reget
      /\ ~appending => dst[f] = << >>
      /\ skip_all \in BOOLEAN /\ do_append \in BOOLEAN /\ appending \in BOOLEAN /\ WorkOK
      /\ src[f] = Data(f)
  BY Here DEF prepare, OpInv, HandOK, WorkOK, Late
<1>2. UNCHANGED <<setup, first, src, do_append, do_reget, replace_result, file, dst_exists,
                  appending, n, linklist, erase_list, result, answer>>
  BY DEF prepare, config
<1>3. dst[f] \in Seq(Chunk) /\ dst_status = "SHORT" /\ (answer.how = "none" => NotTheirs(dst[f]))
      /\ (~appending => answer.how # "append")
  BY <1>1, Here DEF Started, Contents
<1>4. AgreesAt(f)
  BY <1>3, TheirsAgreed
<1>5. /\ MoveFile' = MoveFile /\ Moving' = Moving /\ Data(f)' = Data(f)
      /\ \A e : NotTheirs(e)' = NotTheirs(e)
  BY <1>2, SameData
<1>6. Modes' /\ (pc' \in {"close", "read"} => Quiet')
  BY <1>2, <1>5 DEF OpInv, Modes, Quiet
<1>7. Data(f) \in Seq(Chunk) /\ NotTheirs(Data(f)) /\ Len(Data(f)) = 2
  BY DataFacts DEF NotTheirs
<1>8. Data(f) \in Contents /\ Gone \in Contents /\ dst[f] \in Contents
  BY <1>3, <1>7 DEF Contents
<1>9. CASE /\ ~appending
           /\ dst' = [dst EXCEPT ![f] = src[f]]
           /\ dst_status' = "FULL" /\ return_status' = "CONT" /\ pc' = "close"
           /\ UNCHANGED <<skip_all, mishap>>
  <2>1. dst'[f] = Data(f) /\ dst' = [dst EXCEPT ![f] = Data(f)]
    BY <1>1, <1>9 DEF OpInv, OpTypeOK
  <2>2. GoodIn(f, Data(f))
    BY <1>3, <1>9, DataIsWhole DEF GoodIn, Wanted
  <2>3. Good(f)'
    BY <1>2, <2>1, <2>2, GoodAfter
  <2>4. Closing(f)'
    <3>1. answer.how = "none" => NotTheirs(dst[f])'
      BY <1>5, <1>7, <2>1 DEF NotTheirs
    <3>2. ~appending' => answer'.how # "append"
      BY <1>2, <1>3, <1>9
    <3> QED BY <1>2, <1>7, <1>9, <2>1, <2>3, <3>1, <3>2, ChunkAssumption DEF Closing
  <2>5. WorkOK'
    BY <1>1, <1>2, <1>9 DEF WorkOK, Status
  <2>6. HandOK(f)'
    BY <1>1, <1>2, <1>9, <2>4, CloseToClosing
  <2> QED BY <1>2, <1>4, <1>6, <1>8, <1>9, <2>1, <2>5, <2>6, HandKeeps DEF FilePlaces, Ending
<1>10. CASE /\ pc' = "close" /\ return_status' \in Status \ {"CONT"} /\ skip_all' \in BOOLEAN
            /\ UNCHANGED <<dst, dst_status, mishap>>
  <2>1. Closing(f)'
    <3>1. answer.how = "none" => NotTheirs(dst[f])'
      BY <1>3, <1>5, <1>10 DEF NotTheirs
    <3> QED BY <1>1, <1>2, <1>3, <1>10, <3>1 DEF Closing, Started
  <2>2. WorkOK'
    BY <1>1, <1>2, <1>10 DEF WorkOK
  <2>3. HandOK(f)'
    BY <1>1, <1>2, <1>10, <2>1, CloseToClosing
  <2> QED BY <1>2, <1>4, <1>6, <1>10, <2>2, <2>3, Here, HandKeeps DEF FilePlaces, Ending
<1>11. CASE PreallocateAborted(f) /\ UNCHANGED skip_all
  <2>1. /\ dst' = [dst EXCEPT ![f] = Gone] /\ dst'[f] = Gone
        /\ dst_status' = "NONE" /\ return_status' = "ABORT" /\ pc' = "close"
        /\ mishap' \in {mishap, mishap \cup {f}}
    BY <1>11 DEF PreallocateAborted, OpInv, OpTypeOK
  <2>2. Closing(f)'
    BY <2>1 DEF Closing
  <2>3. WorkOK'
    BY <1>1, <1>2, <1>11, <2>1 DEF WorkOK, Status
  <2>4. HandOK(f)'
    BY <1>1, <1>2, <2>1, <2>2, CloseToClosing
  <2> QED BY <1>2, <1>4, <1>6, <1>8, <2>1, <2>3, <2>4, HandKeeps DEF FilePlaces, Ending
<1>12. CASE /\ \/ ~setup.preallocate /\ UNCHANGED <<dst, skip_all, mishap>>
               \/ setup.preallocate /\ skip_all' \in {skip_all, TRUE} /\ UNCHANGED <<dst, mishap>>
               \/ /\ setup.preallocate /\ dst' = [dst EXCEPT ![f] = Padded(f)]
                  /\ mishap' = IF appending THEN mishap \union {f} ELSE mishap
                  /\ UNCHANGED skip_all
            /\ return_status' \in Buttons
            /\ pc' = IF return_status' = "CONT" THEN "read" ELSE "close"
            /\ UNCHANGED dst_status
  <2>1. skip_all' \in BOOLEAN /\ return_status' \in Status
    BY <1>1, <1>12, AnswerNames DEF Status
  <2>2. PICK d \in Seq(Chunk) : /\ dst' = [dst EXCEPT ![f] = d]
                                /\ NotTheirs(dst[f]) => NotTheirs(d)
                                /\ \/ d = dst[f] /\ mishap' = mishap
                                   \/ /\ dst[f] = << >> => d = [i \in 1 .. 2 |-> Zero]
                                      /\ mishap' = IF appending THEN mishap \cup {f} ELSE mishap
    <3>1. CASE UNCHANGED <<dst, mishap>>
      BY <1>3, <3>1, Here
    <3>2. CASE /\ dst' = [dst EXCEPT ![f] = Padded(f)]
               /\ mishap' = IF appending THEN mishap \union {f} ELSE mishap
      BY <1>1, <1>3, <1>7, <3>2, PaddedDoes
    <3> QED BY <1>12, <3>1, <3>2
  <2>3. dst'[f] = d /\ d \in Contents /\ d # Gone /\ mishap' \in {mishap, mishap \cup {f}}
        /\ dst' = [dst EXCEPT ![f] = d]
    <3>1. dst' = [dst EXCEPT ![f] = d] /\ mishap' \in {mishap, mishap \cup {f}}
      BY <2>2
    <3>2. dst'[f] = d
      BY <3>1 DEF OpInv, OpTypeOK
    <3> QED BY <3>1, <3>2, ChunkAssumption DEF Contents
  <2>4. answer.how = "none" => NotTheirs(dst[f])'
    <3>1. answer.how = "none" => NotTheirs(d)
      BY <1>3, <2>2
    <3> QED BY <3>1, <1>5, <2>3 DEF NotTheirs
  <2>5. f \in mishap' \/ Begun(f)'
    <3> SUFFICES ASSUME f \notin mishap' PROVE Begun(f)'
      OBVIOUS
    <3>1. Wanted(f)' = Wanted(f)
      BY <1>2, SameData
    <3>2. f \notin mishap /\ Begun(f)
      BY <1>1, <2>3 DEF Started
    <3>3. CASE appending
      <4>1. d = dst[f]
        BY <2>2, <3>3
      <4> QED BY <1>2, <1>5, <2>3, <3>1, <3>2, <3>3, <4>1 DEF Begun
    <3>4. CASE ~appending
      <4>1. dst[f] = << >> /\ n = 0
        BY <1>1, <3>4 DEF Started
      <4>2. SubSeq(Data(f), 1, 0) = << >>
        BY <1>7, Slices
      <4>3. [i \in 1 .. 2 |-> Zero] = [i \in 1 .. 2 |-> IF i <= 0 THEN Data(f)[i] ELSE Zero]
        OBVIOUS
      <4>4. d \in {<< >>, [i \in 1 .. 2 |-> Zero]}
        BY <2>2, <4>1
      <4> QED BY <1>2, <1>5, <2>3, <3>4, <4>1, <4>2, <4>3, <4>4 DEF Begun
    <3> QED BY <1>1, <3>3, <3>4
  <2>6. WorkOK'
    BY <1>1, <1>2, <1>12, <2>1 DEF WorkOK
  <2>7. CASE return_status' = "CONT"
    <3>1. pc' = "read"
      BY <1>12, <2>7
    <3>2. Started(f)'
      BY <1>1, <1>2, <1>3, <1>5, <1>12, <2>3, <2>4, <2>5 DEF Started
    <3>3. HandOK(f)'
      BY <1>1, <1>2, <3>1, <3>2 DEF HandOK, Early, Ending
    <3> QED BY <1>2, <1>4, <1>6, <2>3, <2>6, <3>1, <3>3, HandKeeps DEF FilePlaces, Late
  <2>8. CASE return_status' # "CONT"
    <3>1. pc' = "close"
      BY <1>12, <2>8
    <3>2. Closing(f)'
      BY <1>2, <1>3, <1>12, <2>3, <2>4, <2>8 DEF Closing
    <3>3. HandOK(f)'
      BY <1>1, <1>2, <3>1, <3>2, CloseToClosing
    <3> QED BY <1>2, <1>4, <1>6, <2>3, <2>6, <3>1, <3>3, HandKeeps DEF FilePlaces, Ending
  <2> QED BY <2>7, <2>8
<1>13. CASE /\ \E s \in Errors : file_error(s) /\ return_status' = s
            /\ pc' = "close"
            /\ UNCHANGED <<dst, dst_status, mishap>>
  <2>1. return_status' \in Status \ {"CONT"} /\ skip_all' \in BOOLEAN
    BY <1>1, <1>13, AnswerNames DEF Status, file_error
  <2> QED BY <1>10, <1>13, <2>1
<1> QED BY <1>9, <1>11, <1>12, <1>13 DEF prepare

(* Writing a chunk leaves nobody else's chunks where there were none.       *)
LEMMA ChunkDoes ==
  ASSUME NEW f \in Sources, dst[f] \in Seq(Chunk), NEW c \in Chunk \ {Old, Other, Zero}
  PROVE  /\ WithChunk(f, c) \in Seq(Chunk)
         /\ NotTheirs(dst[f]) => NotTheirs(WithChunk(f, c))
<1> DEFINE s == dst[f]
           k == ChunksWritten(f) + 1
           w == [s EXCEPT ![k] = c]
<1>1. s \in Seq(Chunk)
  OBVIOUS
<1> HIDE DEF s, k
<1>2. CASE appending \/ ChunksWritten(f) = Len(dst[f])
  <2>1. WithChunk(f, c) = Append(s, c)
    BY <1>2 DEF WithChunk, s
  <2> QED BY <1>1, <2>1 DEF NotTheirs, s
<1>3. CASE ~(appending \/ ChunksWritten(f) = Len(dst[f]))
  <2>1. WithChunk(f, c) = w
    BY <1>3 DEF WithChunk, s, k
  <2>2. DOMAIN w = DOMAIN s /\ \A i \in DOMAIN s : w[i] \in {s[i], c}
    OBVIOUS
  <2>3. w \in Seq(Chunk)
    <3>1. s \in [1 .. Len(s) -> Chunk] /\ Len(s) \in Nat
      BY <1>1
    <3>2. w \in [1 .. Len(s) -> Chunk]
      BY <3>1
    <3> QED BY <3>1, <3>2
  <2> QED BY <1>1, <2>1, <2>2, <2>3 DEF NotTheirs, s
<1> QED BY <1>2, <1>3

(* The number of chunks written to an allocated target.                     *)
LEMMA PaddedCount ==
  ASSUME NEW m \in 0 .. 2
  PROVE  Cardinality({i \in 1 .. 2 : i <= m}) = m
<1>1. CASE m = 0
  <2>1. {i \in 1 .. 2 : i <= m} = {}
    BY <1>1
  <2> QED BY <1>1, <2>1, FS_EmptySet
<1>2. CASE m = 1
  <2>1. {i \in 1 .. 2 : i <= m} = {1}
    BY <1>2
  <2> QED BY <1>2, <2>1, FS_Singleton
<1>3. CASE m = 2
  <2>1. {i \in 1 .. 2 : i <= m} = {1} \cup {2}
    BY <1>3
  <2>2. IsFiniteSet({1}) /\ Cardinality({1}) = 1
    BY FS_Singleton
  <2>3. Cardinality({1} \cup {2}) = Cardinality({1}) + 1
    BY <2>2, FS_AddElement
  <2> QED BY <1>3, <2>1, <2>2, <2>3
<1> QED BY <1>1, <1>2, <1>3

(* A chunk written to a new target goes behind those before it, in an       *)
(* allocated one too.                                                       *)
LEMMA WrittenChunk ==
  ASSUME NEW f \in Sources, n \in 0 .. 1, ~appending,
         NEW D \in Seq(Chunk), Len(D) = 2, \A i \in 1 .. 2 : D[i] # Zero,
         dst[f] \in {SubSeq(D, 1, n), [i \in 1 .. 2 |-> IF i <= n THEN D[i] ELSE Zero]}
  PROVE  WithChunk(f, D[n + 1]) \in {SubSeq(D, 1, n + 1),
                                     [i \in 1 .. 2 |-> IF i <= n + 1 THEN D[i] ELSE Zero]}
<1>1. CASE dst[f] = SubSeq(D, 1, n)
  <2>1. Len(SubSeq(D, 1, n)) = n /\ \A i \in 1 .. n : SubSeq(D, 1, n)[i] = D[i]
    OBVIOUS
  <2>2. {i \in DOMAIN dst[f] : dst[f][i] # Zero} = {i \in 1 .. 2 : i <= n}
    BY <1>1, <2>1
  <2>3. ChunksWritten(f) = n
    <3>1. n \in 0 .. 2
      OBVIOUS
    <3>2. Cardinality({i \in 1 .. 2 : i <= n}) = n
      BY <3>1, PaddedCount, Zenon
    <3> QED BY <2>2, <3>2 DEF ChunksWritten
  <2>4. WithChunk(f, D[n + 1]) = Append(SubSeq(D, 0 + 1, n), D[n + 1])
    BY <1>1, <2>1, <2>3 DEF WithChunk
  <2>5. Append(SubSeq(D, 0 + 1, n), D[n + 1]) = SubSeq(D, 0 + 1, n + 1)
    BY Slices
  <2> QED BY <2>4, <2>5
<1>2. CASE dst[f] = [i \in 1 .. 2 |-> IF i <= n THEN D[i] ELSE Zero]
  <2>1. {i \in DOMAIN dst[f] : dst[f][i] # Zero} = {i \in 1 .. 2 : i <= n}
    BY <1>2
  <2>2. ChunksWritten(f) = n
    <3>1. n \in 0 .. 2
      OBVIOUS
    <3>2. Cardinality({i \in 1 .. 2 : i <= n}) = n
      BY <3>1, PaddedCount, Zenon
    <3> QED BY <2>1, <3>2 DEF ChunksWritten
  <2>3. Len(dst[f]) = 2
    <3>1. dst[f] \in [1 .. 2 -> {D[1], D[2], Zero}]
      BY <1>2
    <3>2. dst[f] \in Seq({D[1], D[2], Zero})
      BY ZenonT(60), <3>1, SeqDef
    <3>3. DOMAIN dst[f] = 1 .. Len(dst[f]) /\ Len(dst[f]) \in Nat
      BY <3>2, LenProperties
    <3>4. 1 .. Len(dst[f]) = 1 .. 2
      BY <3>1, <3>3
    <3>5. 2 \in 1 .. Len(dst[f]) /\ 3 \notin 1 .. Len(dst[f])
      BY <3>4
    <3> QED BY <3>3, <3>5
  <2>4. WithChunk(f, D[n + 1]) = [dst[f] EXCEPT ![n + 1] = D[n + 1]]
    BY <2>2, <2>3 DEF WithChunk
  <2>5. [dst[f] EXCEPT ![n + 1] = D[n + 1]] = [i \in 1 .. 2 |-> IF i <= n + 1 THEN D[i] ELSE Zero]
    BY <1>2
  <2> QED BY <2>4, <2>5
<1> QED BY <1>1, <1>2

(* A chunk appended goes behind those before it.                            *)
LEMMA AppendedChunk ==
  ASSUME NEW D \in Seq(Chunk), Len(D) = 2, NEW b \in Seq(Chunk), NEW r \in 0 .. 1, NEW m \in 0 .. 1,
         r <= m
  PROVE  Append(b \o SubSeq(D, r + 1, m), D[m + 1]) = b \o SubSeq(D, r + 1, m + 1)
<1> DEFINE s == SubSeq(D, r + 1, m)
           c == D[m + 1]
<1>1. s \in Seq(Chunk) /\ c \in Chunk /\ Append(s, c) = SubSeq(D, r + 1, m + 1)
  BY Slices
<1> HIDE DEF s, c
<1>2. Append(b \o s, c) = b \o Append(s, c)
  <2>1. Append(s, c) = s \o <<c>> /\ <<c>> \in Seq(Chunk)
    BY <1>1, AppendIsConcat
  <2>2. b \o s \in Seq(Chunk)
    BY <1>1
  <2>3. Append(b \o s, c) = (b \o s) \o <<c>>
    BY <1>1, <2>2, AppendIsConcat
  <2>4. (b \o s) \o <<c>> = b \o (s \o <<c>>)
    BY SMTT(60), <1>1, <2>1, ConcatAssociative
  <2> QED BY <2>1, <2>3, <2>4
<1> QED BY <1>1, <1>2 DEF s, c

(* read_write: one turn of the loop, or its end, where all is copied.       *)
LEMMA ReadWriteKeeps ==
  ASSUME OpInv, NEW f \in Sources, f = file, read_write PROVE OpInv' /\ StepOK
<1>1. /\ pc = "read" /\ result[f] = "none" /\ Started(f)
      /\ skip_all \in BOOLEAN /\ do_append \in BOOLEAN /\ appending \in BOOLEAN /\ WorkOK
      /\ src[f] = Data(f) /\ n \in 0 .. 2 /\ do_reget \in 0 .. 1
  BY Here DEF read_write, OpInv, HandOK, WorkOK, Late
<1>2. UNCHANGED <<setup, first, src, do_append, do_reget, replace_result, file, dst_exists,
                  appending, linklist, erase_list, result, answer>>
  BY DEF read_write, config
<1>3. dst[f] \in Seq(Chunk) /\ dst_status = "SHORT" /\ (answer.how = "none" => NotTheirs(dst[f]))
      /\ (~appending => answer.how # "append")
  BY <1>1, Here DEF Started, Contents
<1>4. AgreesAt(f)
  BY <1>3, TheirsAgreed
<1>5. /\ MoveFile' = MoveFile /\ Moving' = Moving /\ Data(f)' = Data(f) /\ Wanted(f)' = Wanted(f)
      /\ \A e : NotTheirs(e)' = NotTheirs(e)
  BY <1>2, SameData
<1>6. Modes' /\ (pc' \in {"close", "read"} => Quiet')
  BY <1>2, <1>5 DEF OpInv, Modes, Quiet
<1> DEFINE D == Data(f)
<1>7. /\ D \in Seq(Chunk) /\ Len(D) = 2 /\ \A i \in 1 .. 2 : D[i] \in Chunk \ {Old, Other, Zero}
  BY DataFacts
<1> HIDE DEF D
<1>8. D = Data(f) /\ D' = D
  BY <1>5 DEF D
<1>9. CASE /\ n >= 2
           /\ dst_status' = "FULL" /\ pc' = "close"
           /\ UNCHANGED <<dst, n, skip_all, return_status, mishap>>
  <2>1. n = 2
    BY <1>1, <1>9
  <2>2. f \in mishap \/ GoodIn(f, dst[f])
    <3> SUFFICES ASSUME f \notin mishap PROVE GoodIn(f, dst[f])
      OBVIOUS
    <3>1. Begun(f)
      BY <1>1 DEF Started
    <3>2. CASE appending
      <4>1. PICK b \in Seq(Chunk) : /\ b \o SubSeq(D, do_reget + 1, 2) \in Wanted(f)
                                    /\ dst[f] = b \o SubSeq(D, do_reget + 1, 2)
        BY <1>8, <2>1, <3>1, <3>2 DEF Begun
      <4>2. ASSUME Moving PROVE WholeIn(f, dst[f])
        <5>1. do_reget = 0
          BY <1>1, <4>2 DEF Started
        <5>2. do_reget + 1 = 1 /\ SubSeq(D, 1, 2) = D
          BY <1>7, <5>1, Slices
        <5>3. dst[f] = b \o D
          BY <4>1, <5>2
        <5> QED BY <1>8, <5>3 DEF WholeIn
      <4> QED BY <4>1, <4>2 DEF GoodIn
    <3>3. CASE ~appending
      <4>1. dst[f] = D
        <5>1. D = [i \in 1 .. 2 |-> IF i <= 2 THEN D[i] ELSE Zero]
          BY <1>7
        <5> QED BY <1>7, <1>8, <2>1, <3>1, <3>3, <5>1, Slices DEF Begun
      <4> QED BY <1>3, <1>8, <3>3, <4>1, DataIsWhole DEF GoodIn, Wanted
    <3> QED BY <3>2, <3>3
  <2>3. Good(f)'
    BY <1>2, <1>9, <2>2, GoodAfter
  <2>4. Closing(f)'
    <3>1. answer.how = "none" => NotTheirs(dst[f])'
      BY <1>3, <1>5, <1>9 DEF NotTheirs
    <3> QED BY <1>1, <1>2, <1>9, <2>3, <3>1 DEF Closing, Started
  <2>5. WorkOK'
    BY <1>1, <1>2, <1>9 DEF WorkOK
  <2>6. HandOK(f)'
    BY <1>1, <1>2, <1>9, <2>4, CloseToClosing
  <2> QED BY <1>2, <1>4, <1>6, <1>9, <2>5, <2>6, Here, HandKeeps DEF FilePlaces, Ending
<1>10. ASSUME NEW d \in Seq(Chunk), dst' = [dst EXCEPT ![f] = d], n' \in 0 .. 2, n <= n',
              skip_all' \in BOOLEAN, return_status' \in Status, dst_status' = dst_status,
              pc' = IF return_status' = "CONT" THEN "read" ELSE "close",
              mishap' \in {mishap, mishap \cup {f}}, NotTheirs(dst[f]) => NotTheirs(d),
              f \in mishap' \/ pc' = "close" \/ Begun(f)'
       PROVE  OpInv' /\ StepOK
  <2>1. dst'[f] = d /\ d \in Contents /\ d # Gone
    BY <1>10, ChunkAssumption DEF OpInv, OpTypeOK, Contents
  <2>2. answer.how = "none" => NotTheirs(dst[f])'
    <3>1. answer.how = "none" => NotTheirs(d)
      BY <1>3, <1>10
    <3> QED BY <3>1, <1>5, <2>1 DEF NotTheirs
  <2>3. WorkOK'
    BY <1>1, <1>2, <1>10 DEF WorkOK
  <2>4. CASE return_status' = "CONT"
    <3>1. pc' = "read"
      BY <1>10, <2>4
    <3>2. Started(f)'
      <4>1. do_reget' <= n'
        BY <1>1, <1>2, <1>10 DEF Started
      <4> QED BY <1>1, <1>2, <1>3, <1>5, <1>10, <2>1, <2>2, <3>1, <4>1 DEF Started
    <3>3. HandOK(f)'
      BY <1>1, <1>2, <3>1, <3>2 DEF HandOK, Early, Ending
    <3> QED BY <1>2, <1>4, <1>6, <1>10, <2>1, <2>3, <3>1, <3>3, HandKeeps DEF FilePlaces, Late
  <2>5. CASE return_status' # "CONT"
    <3>1. pc' = "close"
      BY <1>10, <2>5
    <3>2. Closing(f)'
      BY <1>2, <1>3, <1>10, <2>1, <2>2, <2>5 DEF Closing
    <3>3. HandOK(f)'
      BY <1>1, <1>2, <3>1, <3>2, CloseToClosing
    <3> QED BY <1>2, <1>4, <1>6, <1>10, <2>1, <2>3, <3>1, <3>3, HandKeeps DEF FilePlaces, Ending
  <2> QED BY <2>4, <2>5
<1>11. CASE /\ n < 2
            /\ dst' = [dst EXCEPT ![f] = WithChunk(f, D[n + 1])]
            /\ n' = n + 1 /\ return_status' \in Buttons
            /\ UNCHANGED <<skip_all, mishap>>
            /\ pc' = IF return_status' = "CONT" THEN "read" ELSE "close"
            /\ UNCHANGED dst_status
  <2> DEFINE d == WithChunk(f, D[n + 1])
  <2>1. n \in 0 .. 1 /\ n' \in 0 .. 2 /\ n <= n' /\ D[n + 1] \in Chunk \ {Old, Other, Zero}
    BY <1>1, <1>7, <1>11
  <2>2. d \in Seq(Chunk) /\ (NotTheirs(dst[f]) => NotTheirs(d))
    BY <1>3, <2>1, ChunkDoes
  <2>3. dst' = [dst EXCEPT ![f] = d] /\ dst'[f] = d
    BY <1>11 DEF OpInv, OpTypeOK
  <2>4. return_status' \in Status /\ skip_all' \in BOOLEAN
    BY <1>1, <1>11, AnswerNames DEF Status
  <2>5. f \in mishap' \/ Begun(f)'
    <3> SUFFICES ASSUME f \notin mishap' PROVE Begun(f)'
      OBVIOUS
    <3>1. Begun(f) /\ do_reget <= n
      BY <1>1, <1>11 DEF Started
    <3>2. CASE appending
      <4>1. PICK b \in Seq(Chunk) : /\ b \o SubSeq(D, do_reget + 1, 2) \in Wanted(f)
                                    /\ dst[f] = b \o SubSeq(D, do_reget + 1, n)
        BY <1>8, <3>1, <3>2 DEF Begun
      <4>2. d = b \o SubSeq(D, do_reget + 1, n + 1)
        <5>1. d = Append(dst[f], D[n + 1])
          BY <3>2 DEF WithChunk
        <5>2. Append(b \o SubSeq(D, do_reget + 1, n), D[n + 1]) = b \o SubSeq(D, do_reget + 1, n + 1)
          BY SMTT(60), <1>1, <1>7, <2>1, <3>1, AppendedChunk
        <5> QED BY <4>1, <5>1, <5>2
      <4>3. dst'[f] = b \o SubSeq(D, do_reget' + 1, n')
        BY <1>2, <1>11, <2>3, <4>2
      <4>4. b \o SubSeq(D, do_reget' + 1, 2) \in Wanted(f)'
        BY <1>2, <1>5, <4>1
      <4> QED BY <1>2, <1>8, <3>2, <4>3, <4>4 DEF Begun, D
    <3>3. CASE ~appending
      <4>1. dst[f] \in {SubSeq(D, 1, n), [i \in 1 .. 2 |-> IF i <= n THEN D[i] ELSE Zero]}
        BY <1>8, <3>1, <3>3 DEF Begun
      <4>2. d \in {SubSeq(D, 1, n + 1), [i \in 1 .. 2 |-> IF i <= n + 1 THEN D[i] ELSE Zero]}
        BY <1>7, <2>1, <3>3, <4>1, WrittenChunk
      <4>3. dst'[f] \in {SubSeq(D, 1, n'), [i \in 1 .. 2 |-> IF i <= n' THEN D[i] ELSE Zero]}
        BY <1>11, <2>3, <4>2
      <4> QED BY <1>2, <1>8, <3>3, <4>3 DEF Begun, D
    <3> QED BY <1>1, <3>2, <3>3
  <2> HIDE DEF d
  <2> QED BY <1>10, <1>11, <2>1, <2>2, <2>3, <2>4, <2>5
<1>12. CASE /\ n < 2 /\ n' = n + 1
            /\ return_status' \in Buttons
            /\ mishap' = mishap \union {f}
            /\ UNCHANGED <<dst, skip_all>>
            /\ pc' = IF return_status' = "CONT" THEN "read" ELSE "close"
            /\ UNCHANGED dst_status
  <2>1. n' \in 0 .. 2 /\ n <= n' /\ f \in mishap'
    BY <1>1, <1>12
  <2>2. return_status' \in Status /\ skip_all' \in BOOLEAN
    BY <1>1, <1>12, AnswerNames DEF Status
  <2>3. dst' = [dst EXCEPT ![f] = dst[f]]
    BY <1>12, Here
  <2> QED BY <1>3, <1>10, <1>12, <2>1, <2>2, <2>3
<1>13. CASE /\ n < 2
            /\ \E s \in Errors : file_error(s) /\ return_status' = s
            /\ UNCHANGED <<dst, n, mishap>>
            /\ pc' = IF return_status' = "CONT" THEN "read" ELSE "close"
            /\ UNCHANGED dst_status
  <2>1. return_status' \in Status \ {"CONT"} /\ skip_all' \in BOOLEAN
    BY <1>1, <1>13, AnswerNames DEF Status, file_error
  <2>2. dst' = [dst EXCEPT ![f] = dst[f]] /\ pc' = "close" /\ n' \in 0 .. 2 /\ n <= n'
    BY <1>1, <1>13, <2>1, Here
  <2> QED BY <1>3, <1>10, <1>13, <2>1, <2>2
<1>14. Len(src[f]) = 2 /\ src[f][n + 1] = D[n + 1]
  BY <1>1, <1>7, <1>8
<1> QED BY <1>9, <1>11, <1>12, <1>13, <1>14 DEF read_write

(* close: where the last chunk is lost the user is told, or it is a mishap. *)
LEMMA CloseKeeps ==
  ASSUME OpInv, NEW f \in Sources, f = file, close PROVE OpInv' /\ StepOK
<1>1. /\ pc = "close" /\ result[f] = "none" /\ Closing(f)
      /\ skip_all \in BOOLEAN /\ WorkOK
  BY Here DEF close, OpInv, HandOK, WorkOK, Ending
<1>2. UNCHANGED <<setup, first, src, do_append, do_reget, replace_result, file, dst_exists,
                  appending, dst_status, n, linklist, erase_list, result, answer>> /\ pc' = "settle"
  BY DEF close, config, locals
<1>3. /\ MoveFile' = MoveFile /\ Moving' = Moving
      /\ \A e : NotTheirs(e)' = NotTheirs(e)
  BY <1>2, SameData
<1>4. Modes' /\ Quiet'
  BY <1>2, <1>3 DEF OpInv, Modes, Quiet
<1>5. ASSUME NEW d \in Contents, dst' = [dst EXCEPT ![f] = d], skip_all' \in BOOLEAN,
             return_status' \in {return_status} \cup (Status \ {"CONT"}),
             \/ d = dst[f] /\ mishap' = mishap
             \/ /\ dst_status # "NONE" /\ d # Gone
                /\ NotTheirs(dst[f]) => NotTheirs(d)
                /\ \/ mishap' = mishap \cup {f}
                   \/ mishap' = mishap /\ return_status' # "CONT" /\ d = Front(dst[f])
      PROVE  OpInv' /\ StepOK
  <2>1. dst'[f] = d /\ mishap' \in {mishap, mishap \cup {f}}
    BY <1>5 DEF OpInv, OpTypeOK
  <2>2. return_status' = "CONT" => dst_status' = "FULL"
    BY <1>1, <1>2, <1>5 DEF Closing
  <2>3. dst_status' = "NONE" => f \in mishap' \/ dst'[f] \in Targets(f)' \cup {Gone}
    BY <1>1, <1>2, <1>5, <2>1 DEF Closing, Targets
  <2>4. dst_status' # "NONE" => dst'[f] # Gone /\ (answer.how = "none" => NotTheirs(dst[f])')
    <3> SUFFICES ASSUME dst_status # "NONE"
                 PROVE  d # Gone /\ (answer.how = "none" => NotTheirs(dst[f])')
      BY <1>2, <2>1
    <3>1. d # Gone /\ (answer.how = "none" => NotTheirs(d))
      BY <1>1, <1>5 DEF Closing
    <3> QED BY <1>3, <2>1, <3>1 DEF NotTheirs
  <2>5. ASSUME dst_status = "FULL"
        PROVE  /\ ~appending' => answer'.how # "append"
               /\ Good(f)' \/ CloseReported(f, dst[f])'
    <3>1. (~appending => answer.how # "append") /\ Good(f)
      BY <1>1, <2>5 DEF Closing
    <3>2. CASE f \in mishap' \/ GoodIn(f, d)
      BY <1>2, <2>1, <3>1, <3>2, GoodAfter
    <3>3. CASE ~(f \in mishap' \/ GoodIn(f, d))
      <4>1. mishap' = mishap /\ return_status' # "CONT" /\ d = Front(dst[f])
        BY <1>5, <3>1, <3>3 DEF Good
      <4>2. dst[f] \in Wanted(f) /\ Wanted(f)' = Wanted(f)
        BY <1>2, <3>1, <3>3, <4>1, SameData DEF Good, GoodIn
      <4>3. d \in {Front(w) : w \in Wanted(f)'}
        BY <4>1, <4>2
      <4> QED BY <1>2, <2>1, <2>5, <3>1, <4>1, <4>3 DEF CloseReported
    <3> QED BY <3>2, <3>3
  <2>6. Closing(f)'
    BY <1>2, <2>2, <2>3, <2>4, <2>5 DEF Closing
  <2>7. WorkOK'
    BY <1>1, <1>2, <1>5 DEF WorkOK
  <2>8. HandOK(f)'
    BY <1>1, <1>2, <2>6 DEF HandOK, Early, Late
  <2>9. AgreesAt(f)
    <3>1. CASE d = dst[f]
      BY <2>1, <3>1 DEF AgreesAt
    <3>2. CASE d # dst[f]
      BY <1>1, <1>5, <3>2, TheirsAgreed DEF Closing
    <3> QED BY <3>1, <3>2
  <2> QED BY <1>2, <1>4, <1>5, <2>1, <2>7, <2>8, <2>9, HandKeeps DEF FilePlaces, Ending
<1>6. dst[f] \in Contents /\ dst = [dst EXCEPT ![f] = dst[f]]
  BY Here
<1>7. CASE skip_all' \in {skip_all, TRUE} /\ UNCHANGED <<dst, return_status, mishap>>
  BY <1>1, <1>5, <1>6, <1>7
<1>8. CASE return_status' = "ABORT" /\ UNCHANGED <<dst, skip_all, mishap>>
  BY <1>1, <1>5, <1>6, <1>8 DEF Status
<1> DEFINE d == Front(dst[f])
<1>9. ASSUME dst_status # "NONE", LosesLastChunk(f)
      PROVE  /\ dst' = [dst EXCEPT ![f] = d] /\ d \in Contents /\ d # Gone
             /\ NotTheirs(dst[f]) => NotTheirs(d)
  <2>1. dst[f] \in Seq(Chunk)
    BY <1>1, <1>6, <1>9 DEF Closing, Contents
  <2>2. d \in Seq(Chunk) /\ (NotTheirs(dst[f]) => NotTheirs(d))
    <3>1. Len(dst[f]) \in Nat \ {0} /\ d = SubSeq(dst[f], 1, Len(dst[f]) - 1)
      BY <1>9, <2>1 DEF Front, LosesLastChunk
    <3>2. d \in Seq(Chunk) /\ Len(d) = Len(dst[f]) - 1
          /\ \A i \in 1 .. Len(d) : d[i] = dst[f][i]
      BY <2>1, <3>1
    <3> HIDE DEF d
    <3> QED BY <2>1, <3>1, <3>2 DEF NotTheirs
  <2> QED BY <1>9, <2>2, ChunkAssumption DEF Contents, LosesLastChunk
<1>10. CASE /\ dst_status # "NONE"
            /\ \E s \in Errors : file_error(s) /\ return_status' = s
            /\ UNCHANGED dst \/ LosesLastChunk(f)
            /\ UNCHANGED mishap
  <2>1. skip_all' \in BOOLEAN /\ return_status' \in Status \ {"CONT"}
    BY <1>1, <1>10, AnswerNames DEF Status, file_error
  <2>2. CASE UNCHANGED dst
    BY <1>5, <1>6, <1>10, <2>1, <2>2
  <2>3. CASE LosesLastChunk(f)
    <3>1. /\ dst' = [dst EXCEPT ![f] = d] /\ d \in Contents /\ d # Gone
          /\ NotTheirs(dst[f]) => NotTheirs(d)
      BY <1>9, <1>10, <2>3
    <3>2. d = Front(dst[f])
      OBVIOUS
    <3> HIDE DEF d
    <3> QED BY <1>5, <1>10, <2>1, <3>1, <3>2
  <2> QED BY <1>10, <2>2, <2>3
<1>11. CASE /\ dst_status # "NONE" /\ skip_all' = TRUE /\ UNCHANGED return_status
            /\ LosesLastChunk(f) /\ mishap' = mishap \union {f}
  <2>1. /\ dst' = [dst EXCEPT ![f] = d] /\ d \in Contents /\ d # Gone
        /\ NotTheirs(dst[f]) => NotTheirs(d)
    BY <1>9, <1>11
  <2> HIDE DEF d
  <2> QED BY <1>5, <1>11, <2>1
<1> QED BY <1>7, <1>8, <1>10, <1>11 DEF close

(* The end of settle with the result s: the source is removed next, or the  *)
(* file is done with.                                                       *)
LEMMA SettleEnds ==
  ASSUME OpInv, NEW f \in Sources, f = file, pc = "settle", NEW s \in Status,
         s = "CONT" => dst_status = "FULL", NEW d \in {dst[f], Gone}, dst' = [dst EXCEPT ![f] = d],
         d # dst[f] => dst_status = "SHORT", skip_all' \in BOOLEAN,
         UNCHANGED <<config, src, do_append, do_reget, replace_result, linklist>>,
         mishap' \in {mishap, mishap \cup {f}},
         s = "CONT" => f \in mishap' \/ GoodIn(f, dst[f]),
         IF Removes(s)
         THEN pc' = "remove" /\ Forget /\ return_status' = "CONT"
              /\ UNCHANGED <<file, erase_list, result, answer>>
         ELSE Done(f, s)
  PROVE  OpInv' /\ StepOK
<1>1. result[f] = "none" /\ Closing(f) /\ WorkOK /\ do_append \in BOOLEAN
  BY Here DEF OpInv, HandOK, WorkOK, Ending
<1>2. UNCHANGED <<setup, first, src, do_append, do_reget, replace_result, linklist>>
  BY DEF config
<1>3. d \in Contents /\ dst'[f] = d
  BY Here DEF Contents, OpInv, OpTypeOK
<1>4. AgreesAt(f)
  <2>1. CASE d = dst[f]
    BY <1>3, <2>1 DEF AgreesAt
  <2>2. CASE d # dst[f]
    BY <1>1, <2>2, TheirsAgreed DEF Closing
  <2> QED BY <2>1, <2>2
<1>5. dst_status = "FULL" =>
        d = dst[f] /\ dst[f] # Gone
        /\ (f \in mishap \/ GoodIn(f, d) \/ CloseReported(f, d))
  BY <1>1 DEF Closing, Good
<1>6. CASE Removes(s)
  <2>1. /\ pc' = "remove" /\ return_status' = "CONT" /\ UNCHANGED <<file, erase_list, result, answer>>
        /\ dst_exists' = FALSE /\ appending' = FALSE /\ dst_status' = "NONE" /\ n' = 0
    BY <1>6 DEF Forget
  <2>2. MoveFile /\ s = "CONT"
    BY <1>6 DEF Removes
  <2>3. Good(f)' /\ dst'[f] # Gone
    BY <1>2, <1>3, <1>5, <2>1, <2>2, GoodAfter
  <2>4. WorkOK'
    <3>1. dst_exists' \in BOOLEAN /\ appending' \in BOOLEAN
      BY <2>1
    <3> QED BY <1>1, <1>2, <2>1, <3>1 DEF WorkOK, Status
  <2>5. Modes' /\ Quiet'
    BY <1>2, <2>1, SameData DEF OpInv, Modes, Quiet
  <2>6. HandOK(f)'
    BY <1>1, <1>2, <2>1, <2>2, <2>3, SameData DEF HandOK, Early, Late, Ending
  <2> QED BY <1>2, <1>3, <1>4, <2>1, <2>4, <2>5, <2>6, HandKeeps DEF FilePlaces
<1>7. CASE ~Removes(s)
  <2>1. Done(f, s)
    BY <1>7
  <2>2. s = "CONT" => f \in mishap' \/ GoodIn(f, d)
    BY <1>2, <1>5
  <2>3. \/ f \in mishap' \/ dst_status = "SHORT" \/ CloseReported(f, d)
        \/ d \in Targets(f) \cup {Gone} \cup Wanted(f)
    <3>1. CASE dst_status = "NONE"
      <4>1. d = dst[f]
        BY <3>1
      <4> QED BY <1>1, <1>2, <3>1, <4>1 DEF Closing
    <3>2. CASE dst_status = "FULL"
      BY <1>2, <1>5, <3>2 DEF GoodIn
    <3>3. dst_status \in {"NONE", "SHORT", "FULL"}
      BY <1>1 DEF WorkOK
    <3> QED BY <3>1, <3>2, <3>3
  <2>4. /\ result[f] = "none" /\ file \in {f, NoSource} /\ mishap' \in {mishap, mishap \cup {f}}
        /\ do_append' \in BOOLEAN /\ (do_append' => do_append) /\ do_reget' \in {do_reget, 0}
        /\ replace_result' \in {replace_result, "rule"} /\ src' = src
    BY <1>1, <1>2
  <2> HIDE DEF Done
  <2> QED BY <1>2, <1>3, <1>4, <2>1, <2>2, <2>3, <2>4, DoneKeeps
<1> QED BY <1>6, <1>7

(* settle: a short target is never a success.                               *)
LEMMA SettleKeeps ==
  ASSUME OpInv, NEW f \in Sources, f = file, settle PROVE OpInv' /\ StepOK
<1>1. pc = "settle" /\ Closing(f) /\ WorkOK /\ return_status \in Status /\ skip_all \in BOOLEAN
  BY Here DEF settle, OpInv, HandOK, WorkOK, Ending
<1>2. UNCHANGED <<config, src, do_append, do_reget, replace_result, linklist>>
  BY DEF settle
<1>3. dst = [dst EXCEPT ![f] = dst[f]]
  BY Here
<1> DEFINE After(s) == IF Removes(s)
                       THEN pc' = "remove" /\ Forget /\ return_status' = "CONT"
                            /\ UNCHANGED <<file, erase_list, result, answer>>
                       ELSE Done(f, s)
           Finish(s) == IF s = "CONT" THEN \E b \in Buttons : After(b) ELSE After(s)
<1>4. \/ /\ dst_status = "SHORT"
         /\ dst' \in {dst, [dst EXCEPT ![f] = Gone]}
         /\ Finish(return_status) /\ UNCHANGED <<skip_all, mishap>>
      \/ /\ dst_status # "SHORT"
         /\ Finish(return_status) /\ UNCHANGED <<skip_all, dst, mishap>>
      \/ /\ dst_status = "FULL" /\ ~appending /\ ~skip_all
         /\ skip_all' \in BOOLEAN
         /\ mishap' = IF return_status # "CONT" /\ dst[f] # Data(f)
                      THEN mishap \union {f} ELSE mishap
         /\ Finish("CONT") /\ UNCHANGED dst
  BY DEF settle
<1> HIDE DEF After
<1>5. ASSUME NEW s \in Status, s = "CONT" => dst_status = "FULL", NEW d \in {dst[f], Gone},
             dst' = [dst EXCEPT ![f] = d], d # dst[f] => dst_status = "SHORT",
             skip_all' \in BOOLEAN, After(s), mishap' \in {mishap, mishap \cup {f}},
             s = "CONT" => f \in mishap' \/ GoodIn(f, dst[f])
      PROVE  OpInv' /\ StepOK
  BY <1>1, <1>2, <1>5, SettleEnds DEF After
<1>6. \A b \in Buttons : b \in Status
  BY AnswerNames DEF Status
<1>7. return_status = "CONT" => dst_status = "FULL" /\ (f \in mishap \/ GoodIn(f, dst[f]))
  BY <1>1 DEF Closing, CloseReported, Good
<1>8. CASE /\ dst_status = "SHORT"
           /\ dst' \in {dst, [dst EXCEPT ![f] = Gone]}
           /\ Finish(return_status) /\ UNCHANGED <<skip_all, mishap>>
  <2>1. After(return_status)
    BY <1>7, <1>8
  <2>2. PICK d \in {dst[f], Gone} : dst' = [dst EXCEPT ![f] = d]
    BY <1>3, <1>8
  <2> QED BY <1>1, <1>5, <1>7, <1>8, <2>1, <2>2
<1>9. CASE UNCHANGED dst /\ Finish(return_status) /\ UNCHANGED <<skip_all, mishap>>
  <2>1. CASE return_status = "CONT"
    <3>1. PICK b \in Buttons : After(b)
      BY <1>9, <2>1
    <3> QED BY <1>1, <1>3, <1>5, <1>6, <1>7, <1>9, <2>1, <3>1
  <2>2. CASE return_status # "CONT"
    <3>1. After(return_status)
      BY <1>9, <2>2
    <3> QED BY <1>1, <1>3, <1>5, <1>9, <2>2, <3>1
  <2> QED BY <2>1, <2>2
<1>10. CASE /\ dst_status = "FULL" /\ ~appending /\ skip_all' \in BOOLEAN
            /\ mishap' = IF return_status # "CONT" /\ dst[f] # Data(f)
                         THEN mishap \union {f} ELSE mishap
            /\ Finish("CONT") /\ UNCHANGED dst
  <2>1. PICK b \in Buttons : After(b)
    BY <1>10
  <2>2. f \in mishap' \/ GoodIn(f, dst[f])
    <3>1. CASE return_status = "CONT" \/ f \in mishap'
      BY <1>7, <1>10, <3>1
    <3>2. CASE return_status # "CONT" /\ f \notin mishap'
      <4>1. dst[f] = Data(f) /\ Data(f) \in Seq(Chunk)
        BY <1>10, <3>2, DataFacts
      <4>2. Data(f) \in Wanted(f)
        BY <1>1, <1>10 DEF Closing, Wanted
      <4> QED BY <4>1, <4>2, DataIsWhole DEF GoodIn
    <3> QED BY <3>1, <3>2
  <2> QED BY <1>1, <1>3, <1>5, <1>6, <1>10, <2>1, <2>2
<1> HIDE DEF Finish
<1> QED BY <1>4, <1>8, <1>9, <1>10

(* try_remove_file: the target is good, and the source may go.              *)
LEMMA RemoveKeeps ==
  ASSUME OpInv, NEW f \in Sources, f = file, try_remove_file PROVE OpInv' /\ StepOK
<1>1. pc = "remove" /\ result[f] = "none" /\ MoveFile /\ Moving /\ Good(f) /\ dst[f] \in Contents
  BY Here DEF try_remove_file, OpInv, HandOK, MoveFile
<1>2. UNCHANGED <<setup, first, dst, do_append, do_reget, replace_result, linklist, mishap>>
  BY DEF try_remove_file, config
<1>3. skip_all \in BOOLEAN /\ do_append \in BOOLEAN /\ dst = [dst EXCEPT ![f] = dst[f]]
  BY Here DEF WorkOK
<1>4. PICK s \in Status : /\ Done(f, s) /\ skip_all' \in BOOLEAN
                          /\ src' = src \/ src' = [src EXCEPT ![f] = Gone]
  <2>1. CASE \E s \in Buttons \ {"CONT"} : Done(f, s) /\ UNCHANGED <<src, skip_all>>
    <3>1. Buttons \subseteq Status
      BY AnswerNames DEF Status
    <3> QED BY <1>3, <2>1, <3>1
  <2>2. CASE src' = [src EXCEPT ![f] = Gone] /\ Done(f, "CONT") /\ UNCHANGED skip_all
    BY <1>3, <2>2 DEF Status
  <2>3. CASE /\ IF skip_all THEN Done(f, "CONT") /\ UNCHANGED skip_all
                ELSE \E s \in Errors : file_error(s) /\ Done(f, s)
             /\ UNCHANGED src
    <3>1. CASE skip_all
      BY <1>3, <2>3, <3>1 DEF Status
    <3>2. CASE ~skip_all
      <4>1. PICK s \in Errors : file_error(s) /\ Done(f, s)
        BY <2>3, <3>2
      <4>2. skip_all' \in BOOLEAN
        BY <4>1 DEF file_error
      <4>3. s \in Status
        BY AnswerNames DEF Status
      <4> QED BY <2>3, <4>1, <4>2, <4>3
    <3> QED BY <3>1, <3>2
  <2> HIDE DEF Done
  <2> QED BY <2>1, <2>2, <2>3 DEF try_remove_file
<1>5. f \in mishap' \/ GoodIn(f, dst[f])
  BY <1>1, <1>2 DEF Good
<1>6. AgreesAt(f)
  BY <1>2 DEF AgreesAt
<1>7. f \in mishap' \/ dst[f] \in Targets(f) \cup {Gone} \cup Wanted(f)
  BY <1>5 DEF GoodIn
<1> QED BY <1>1, <1>2, <1>3, <1>4, <1>5, <1>6, <1>7, DoneKeeps

(* erase_dir_after_copy: what is on the list has been copied whole.         *)
LEMMA EraseKeeps ==
  ASSUME OpInv, erase_dir_after_copy PROVE OpInv' /\ StepOK
<1>1. /\ UNCHANGED <<setup, first, dst, do_append, do_reget, replace_result, file, pc, dst_exists,
                     appending, dst_status, n, linklist, result, answer, mishap>>
      /\ pc = "end" /\ erase_list # {} /\ file = NoSource /\ WorkOK /\ skip_all \in BOOLEAN
      /\ return_status \in Status
  BY DEF erase_dir_after_copy, config, locals, history, OpInv, OpTypeOK, WorkOK
<1>2. /\ erase_list' \subseteq erase_list
      /\ src' = src \/ \E f \in erase_list : src' = [src EXCEPT ![f] = Gone]
      /\ skip_all' \in BOOLEAN /\ return_status' \in Status
  <2>1. CASE /\ return_status = "CONT"
             /\ \E f \in erase_list :
                  /\ erase_list' = erase_list \ {f}
                  /\ \/ src' = [src EXCEPT ![f] = Gone] /\ UNCHANGED <<skip_all, return_status>>
                     \/ UNCHANGED src
                        /\ \E s \in Errors : /\ file_error(s)
                                             /\ return_status' = IF s = "ABORT" THEN s ELSE "CONT"
    <3>1. PICK f \in erase_list :
            /\ erase_list' = erase_list \ {f}
            /\ \/ src' = [src EXCEPT ![f] = Gone] /\ UNCHANGED <<skip_all, return_status>>
               \/ UNCHANGED src
                  /\ \E s \in Errors : /\ file_error(s)
                                       /\ return_status' = IF s = "ABORT" THEN s ELSE "CONT"
      BY <2>1
    <3>2. CASE src' = [src EXCEPT ![f] = Gone] /\ UNCHANGED <<skip_all, return_status>>
      BY <1>1, <3>1, <3>2
    <3>3. CASE UNCHANGED src /\ \E s \in Errors : /\ file_error(s)
                                     /\ return_status' = IF s = "ABORT" THEN s ELSE "CONT"
      <4>1. skip_all' \in BOOLEAN
        BY <3>3 DEF file_error
      <4>2. return_status' \in Status
        BY <3>3 DEF Status
      <4> QED BY <3>1, <3>3, <4>1, <4>2
    <3> QED BY <3>1, <3>2, <3>3
  <2>2. CASE erase_list' = {} /\ UNCHANGED <<src, skip_all, return_status>>
    BY <1>1, <2>2
  <2> QED BY <2>1, <2>2 DEF erase_dir_after_copy
<1>3. /\ Moving' = Moving /\ \A g : Data(g)' = Data(g)
      /\ \A g, e : WholeIn(g, e)' = WholeIn(g, e)
  BY <1>1, SameData
<1>4. OpTypeOK'
  <2>1. WorkOK'
    BY <1>1, <1>2 DEF WorkOK
  <2>2. Gone \in Contents
    BY DEF Contents
  <2>3. src' \in [Sources -> Contents]
    BY <1>2, <2>2 DEF OpInv, OpTypeOK
  <2> QED BY <1>1, <1>2, <2>1, <2>3 DEF OpInv, OpTypeOK
<1>5. SourcesKept'
  <2>1. \A g \in Sources : Safe(g)' = Safe(g)
    BY <1>1, <1>3 DEF Safe
  <2>2. ASSUME NEW g \in Sources
        PROVE  /\ src'[g] \in {Data(g), Gone}
               /\ src'[g] = Gone => src[g] = Gone \/ g \in erase_list
    BY <1>2 DEF OpInv, OpTypeOK, SourcesKept
  <2>3. erase_list \subseteq Sources
    BY DEF OpInv, OpTypeOK
  <2> QED BY <1>1, <1>2, <1>3, <2>1, <2>2, <2>3 DEF OpInv, SourcesKept
<1>6. Untouched'
  BY <1>1 DEF OpInv, Untouched, Targets
<1>7. Modes' /\ Quiet'
  BY <1>1, <1>2, <1>3 DEF OpInv, Modes, Quiet
<1>8. \A g \in Sources : g # file'
  BY <1>1, ChunkAssumption
<1>9. StepOK
  BY <1>1 DEF StepOK, Reports, Halves, AgreesAt
<1> QED BY <1>4, <1>5, <1>6, <1>7, <1>8, <1>9 DEF OpInv

-----------------------------------------------------------------------------
(* The invariant at the start.                                              *)
LEMMA InitHolds == OpInit => OpInv
<1> SUFFICES ASSUME OpInit PROVE OpInv
  OBVIOUS
<1>1. /\ setup \in Setup /\ src = [f \in Sources |-> Data(f)] /\ first = dst
      /\ skip_all = FALSE /\ do_append = FALSE /\ do_reget = 1 /\ replace_result = "ask"
      /\ file = NoSource /\ pc = "idle" /\ dst_exists = FALSE /\ appending = FALSE
      /\ dst_status = "NONE" /\ n = 0 /\ return_status = "CONT"
      /\ linklist = NoSource /\ erase_list = {} /\ result = [f \in Sources |-> "none"]
      /\ answer = NoAnswer /\ mishap = {}
  BY SetupAssumption DEF OpInit
<1>2. ASSUME NEW f \in Sources PROVE SubSeq(Data(f), 1, 1) = <<Data(f)[1]>>
  <2> DEFINE d == Data(f)
  <2>1. d \in Seq(Chunk) /\ Len(d) = 2
    BY DataFacts
  <2> HIDE DEF d
  <2>2. SubSeq(d, 1, 1) = <<d[1]>>
    <3>1. Append(SubSeq(d, 1, 0), d[1]) = SubSeq(d, 1, 1) /\ SubSeq(d, 1, 0) = << >>
      <4>1. 0 \in 0 .. 1 /\ 0 <= 0 /\ 0 + 1 = 1
        OBVIOUS
      <4> QED BY <2>1, <4>1, Slices
    <3>2. Append(<< >>, d[1]) = <<d[1]>>
      OBVIOUS
    <3> QED BY <3>1, <3>2
  <2> QED BY <2>2 DEF d
<1>3. PICK there \in SUBSET Sources, partly \in SUBSET Sources :
        dst = [f \in Sources |-> IF f \notin there THEN Gone
                               ELSE IF f \in partly THEN SubSeq(src[f], 1, 1) ELSE <<Old>>]
  BY DEF OpInit
<1>4. ASSUME NEW f \in Sources PROVE dst[f] = Gone \/ \E c \in Chunk : dst[f] = <<c>>
  <2>1. SubSeq(src[f], 1, 1) = <<Data(f)[1]>> /\ Data(f)[1] \in Chunk
    BY <1>1, <1>2, DataFacts
  <2>2. Old \in Chunk
    BY DEF Chunk
  <2> QED BY <1>3, <2>1, <2>2
<1>5. OpTypeOK
  <2>1. src \in [Sources -> Contents]
    BY <1>1, DataFacts DEF Contents
  <2>2. dst \in [Sources -> Contents]
    <3>1. \A f \in Sources : dst[f] \in Contents
      <4>1. \A c \in Chunk : <<c>> \in Seq(Chunk)
        OBVIOUS
      <4> QED BY <1>4, <4>1 DEF Contents
    <3> QED BY <1>3, <3>1
  <2>3. NoAnswer \in [how : {"none", "yes", "append", "reget", "unasked"}, was : Contents]
    BY DEF NoAnswer, Contents
  <2>4. WorkOK
    <3>1. skip_all \in BOOLEAN /\ do_append \in BOOLEAN /\ dst_exists \in BOOLEAN
          /\ appending \in BOOLEAN
      BY <1>1
    <3> QED BY <1>1, <2>3, <3>1 DEF WorkOK, Status
  <2> QED BY <1>1, <2>1, <2>2, <2>4 DEF OpTypeOK, FilePlaces
<1>6. SourcesKept
  BY <1>1, <1>4, DataFacts DEF SourcesKept
<1>7. Untouched /\ Modes /\ Quiet
  BY <1>1 DEF Untouched, Targets, Modes, Quiet
<1>8. \A f \in Sources : f # file
  BY <1>1, ChunkAssumption
<1> QED BY <1>5, <1>6, <1>7, <1>8 DEF OpInv

(* A stuttering step.                                                       *)
LEMMA StutterKeeps == OpInv /\ UNCHANGED op_vars => OpInv' /\ StepOK
<1> SUFFICES ASSUME OpInv, UNCHANGED op_vars PROVE OpInv' /\ StepOK
  OBVIOUS
<1>1. UNCHANGED <<setup, first, src, dst, skip_all, do_append, do_reget, replace_result, file, pc,
                  dst_exists, appending, dst_status, n, return_status, linklist, erase_list,
                  result, answer, mishap>>
  BY DEF op_vars, config, context, locals, history
<1>2. /\ Moving' = Moving /\ MoveFile' = MoveFile /\ \A g : Data(g)' = Data(g)
      /\ \A g, e : WholeIn(g, e)' = WholeIn(g, e)
  BY <1>1, SameData
<1>3. OpTypeOK'
  BY <1>1 DEF OpInv, OpTypeOK, WorkOK
<1>4. SourcesKept'
  BY <1>1, <1>2 DEF OpInv, SourcesKept, Safe
<1>5. Untouched' /\ Modes' /\ Quiet'
  BY <1>1, <1>2 DEF OpInv, Untouched, Targets, Modes, Quiet, NoAnswer
<1>6. \A f \in Sources : f = file' => HandOK(f)'
  BY <1>1, HandSame DEF OpInv
<1>7. StepOK
  BY <1>1 DEF StepOK, Reports, Halves, AgreesAt
<1> QED BY <1>3, <1>4, <1>5, <1>6, <1>7 DEF OpInv

(* Every step, action by action.                                            *)
LEMMA StepKeeps == OpInv /\ [OpNext]_op_vars => OpInv' /\ StepOK
<1> SUFFICES ASSUME OpInv, [OpNext]_op_vars PROVE OpInv' /\ StepOK
  OBVIOUS
<1>1. CASE \E f \in Sources : Take(f) \/ Appear(f)
  BY <1>1, TakeKeeps, AppearKeeps
<1>2. CASE \/ move_file_file \/ rename \/ copy_file_file \/ check_hardlinks \/ open_source
           \/ open_target \/ prepare \/ read_write \/ close \/ settle \/ try_remove_file
  <2>1. pc \notin {"idle", "end"}
    BY <1>2 DEF move_file_file, rename, copy_file_file, check_hardlinks, open_source,
                open_target, prepare, read_write, close, settle, try_remove_file
  <2>2. file \in Sources
    BY <2>1 DEF OpInv, OpTypeOK
  <2> QED BY <1>2, <2>2, MoveKeeps, RenameKeeps, CopyKeeps, HardlinksKeep, OpenSourceKeeps,
             OpenTargetKeeps, PrepareKeeps, ReadWriteKeeps, CloseKeeps, SettleKeeps, RemoveKeeps
<1>3. CASE erase_dir_after_copy
  BY <1>3, EraseKeeps
<1>4. CASE UNCHANGED op_vars
  BY <1>4, StutterKeeps
<1> QED BY <1>1, <1>2, <1>3, <1>4 DEF OpNext

(* Contents that end in the source have it as a suffix.                     *)
LEMMA WholeIsSuffix ==
  ASSUME NEW f \in Sources, NEW d \in Contents, WholeIn(f, d)
  PROVE  d # Gone /\ IsSuffix(Data(f), d)
<1>1. PICK s \in Seq(Chunk) : d = s \o Data(f)
  BY DEF WholeIn
<1> DEFINE x == Data(f)
<1>2. x \in Seq(Chunk) /\ Len(x) = 2
  BY DataFacts
<1> HIDE DEF x
<1>3. d \in Seq(Chunk) /\ d # Gone /\ Len(d) = Len(s) + 2
      /\ d[Len(d)] = x[2] /\ d[Len(d) - 1] = x[1]
  <2>1. d = s \o x
    BY <1>1 DEF x
  <2>2. /\ d \in Seq(Chunk) /\ Len(d) = Len(s) + 2
        /\ \A i \in 1 .. Len(s) + 2 : d[i] = IF i <= Len(s) THEN s[i] ELSE x[i - Len(s)]
    <3>1. /\ s \o x \in Seq(Chunk) /\ Len(s \o x) = Len(s) + Len(x)
          /\ \A i \in 1 .. Len(s) + Len(x) : (s \o x)[i] = IF i <= Len(s) THEN s[i] ELSE x[i - Len(s)]
      <4>1. s \in Seq(Chunk) /\ x \in Seq(Chunk)
        BY <1>1, <1>2
      <4> HIDE <1>1, <1>2, <2>1
      <4> QED BY <4>1, ConcatProperties
    <3> QED BY <1>2, <2>1, <3>1
  <2>3. Len(s) \in Nat
    BY <1>1
  <2>4. d[Len(d)] = x[2] /\ d[Len(d) - 1] = x[1]
    BY <2>2, <2>3
  <2>5. d # Gone
    BY <2>2, ChunkAssumption
  <2> QED BY <2>2, <2>4, <2>5
<1>4. ASSUME NEW e \in Seq(Chunk), Len(e) >= 2
      PROVE  /\ Reverse(e) \in Seq(Chunk) /\ Len(Reverse(e)) = Len(e)
             /\ Reverse(e)[1] = e[Len(e)] /\ Reverse(e)[2] = e[Len(e) - 1]
  <2>1. Len(e) \in Nat /\ \A i \in 1 .. Len(e) : e[(Len(e) - i) + 1] \in Chunk
    OBVIOUS
  <2>2. Reverse(e) \in [1 .. Len(e) -> Chunk]
    BY <2>1 DEF Reverse
  <2>3. Reverse(e) \in Seq(Chunk) /\ Len(Reverse(e)) = Len(e)
    BY <2>1, <2>2, SeqDef, LenProperties
  <2>4. Reverse(e)[1] = e[Len(e)] /\ Reverse(e)[2] = e[Len(e) - 1]
    BY <1>4, <2>1 DEF Reverse
  <2> QED BY <2>3, <2>4
<1>5. /\ Reverse(x) \in Seq(Chunk) /\ Len(Reverse(x)) = 2
      /\ Reverse(x)[1] = x[2] /\ Reverse(x)[2] = x[1]
      /\ Reverse(d) \in Seq(Chunk) /\ Len(Reverse(d)) >= 2
      /\ Reverse(d)[1] = x[2] /\ Reverse(d)[2] = x[1]
  <2>1. Len(s) \in Nat
    BY <1>1
  <2>2. Len(d) >= 2
    BY <1>3, <2>1
  <2>3. /\ Reverse(x) \in Seq(Chunk) /\ Len(Reverse(x)) = 2
        /\ Reverse(x)[1] = x[2] /\ Reverse(x)[2] = x[1]
    <3>1. /\ Reverse(x) \in Seq(Chunk) /\ Len(Reverse(x)) = Len(x)
          /\ Reverse(x)[1] = x[Len(x)] /\ Reverse(x)[2] = x[Len(x) - 1]
      <4>1. Len(x) >= 2
        BY <1>2
      <4> QED BY <1>2, <1>4, <4>1
    <3> QED BY <1>2, <3>1
  <2>4. /\ Reverse(d) \in Seq(Chunk) /\ Len(Reverse(d)) = Len(d)
        /\ Reverse(d)[1] = d[Len(d)] /\ Reverse(d)[2] = d[Len(d) - 1]
    BY <1>3, <1>4, <2>2
  <2> QED BY <1>3, <2>2, <2>3, <2>4
<1> DEFINE a == Reverse(x)
           b == Reverse(d)
<1> HIDE DEF a, b
<1>6. a \in Seq(Chunk) /\ b \in Seq(Chunk) /\ Len(a) = 2 /\ Len(b) >= 2 /\ b[1] = a[1] /\ b[2] = a[2]
  BY <1>5 DEF a, b
<1>7. SubSeq(a, 1, 2) = SubSeq(b, 1, 2)
  BY <1>6
<1>8. IsPrefix(a, b)
  BY <1>6, <1>7 DEF IsPrefix
<1> QED BY <1>3, <1>8 DEF IsSuffix, a, b, x

(* The inductive invariant holds throughout an operation (panel_operate and *)
(* all it calls).                                                           *)
THEOREM OpInvariantHolds == OpSpec => []OpInv
<1> QED BY InitHolds, StepKeeps, PTL DEF OpSpec

(* Type correctness of the operation's state, the contents of all files     *)
(* included.                                                                *)
THEOREM OpTypeCorrect == OpSpec => []OpTypeOK
<1>1. OpInv => OpTypeOK
  BY DEF OpInv
<1> QED BY <1>1, OpInvariantHolds, PTL

(* A move never loses data, for any number of files, whatever fails, is     *)
(* skipped or aborted (move_file_file, do_move_dir_dir): a source that is   *)
(* gone is whole at the end of its target, or was the file of a mishap.     *)
THEOREM NoDataLost == OpSpec => []SourceSurvives
<1>1. OpInv => SourceSurvives
  <2> SUFFICES ASSUME OpInv, NEW f \in Sources, src[f] = Gone
               PROVE  f \in mishap \/ (dst[f] # Gone /\ IsSuffix(Data(f), dst[f]))
    BY DEF SourceSurvives
  <2>1. f \in mishap \/ WholeIn(f, dst[f])
    BY DEF OpInv, SourcesKept, Safe
  <2> QED BY <2>1, Here, WholeIsSuffix
<1> QED BY <1>1, OpInvariantHolds, PTL

(* A file reported as copied, and unmarked, is what the user asked for      *)
(* (panel_operate, copy_file_file).                                         *)
THEOREM ReportsAreTrue == OpSpec => ReportIsTrue
<1>1. OpInv /\ [OpNext]_op_vars =>
        [\A f \in Sources : result[f] # result'[f] /\ result'[f] = "CONT" =>
           f \in mishap' \/ dst'[f] \in Wanted(f)]_op_vars
  BY StepKeeps DEF StepOK, Reports
<1> QED BY <1>1, OpInvariantHolds, PTL DEF OpSpec, ReportIsTrue

(* When copy_file_file is done with a file, its target is whole, untouched  *)
(* or gone, or the user was asked whether to keep what there is of it.      *)
THEOREM NoHalfCopies == OpSpec => NothingHalfDone
<1>1. OpInv /\ [OpNext]_op_vars =>
        [\A f \in Sources : result[f] # result'[f] =>
           \/ f \in mishap' \/ dst_status = "SHORT" \/ CloseReported(f, dst'[f])
           \/ dst'[f] \in {first[f], Gone, <<Other>>} \union Wanted(f)]_op_vars
  BY StepKeeps DEF StepOK, Halves
<1> QED BY <1>1, OpInvariantHolds, PTL DEF OpSpec, NothingHalfDone

(* A target that was there, or that appears meanwhile, is not altered       *)
(* before query_replace has been asked about it, but by a move that did not *)
(* see it (move_file_file, O_EXCL in copy_file_file).                       *)
THEOREM OverwritesAgreed == OpSpec => AgreedOverwrite
<1>1. OpInv /\ [OpNext]_op_vars =>
        [\A f \in Sources : dst[f] \in {<<Old>>, <<Other>>} /\ dst'[f] # dst[f] =>
           answer.how # "none" \/ (MoveFile /\ dst[f] = <<Other>>)]_op_vars
  BY StepKeeps DEF StepOK, AgreesAt
<1> QED BY <1>1, OpInvariantHolds, PTL DEF OpSpec, AgreedOverwrite

-----------------------------------------------------------------------------
(***************************************************************************)
(* For any archives, panels and open files: an archive that works on a     *)
(* copy of a file in another keeps that copy as long as the timer frees    *)
(* file systems.                                                           *)
(*                                                                         *)
(* The invariant counts the open files of an archive: those users hold,    *)
(* and one for each copy that an archive in it works on.  So vfs_expire,   *)
(* which frees what is idle and has no open file, never frees an archive   *)
(* before those in it.                                                     *)
(***************************************************************************)
(* The archives in f whose copies are files of f.                           *)
LocalCopies(s, f) == {c \in s.copy : Within[c] = f}

(* Archives without stamps: a file of f is open for every copy of an        *)
(* archive in f, and for every file a user holds open.                      *)
Counts(s) ==
  /\ DOMAIN s = {"live", "fd", "copy", "stamps", "at"}
  /\ s.copy \subseteq Archives
  /\ \A c \in s.copy : Within[c] # Local
  /\ s.fd \in [Archives -> Int]

Counted(s, u) == Counts(s) /\ \A f \in Archives : s.fd[f] = u[f] + Cardinality(LocalCopies(s, f))

Kept(s, u) == Counted(s, u) /\ s.copy \subseteq s.live

VsInv ==
  /\ cwd \in Places /\ panel \in [Panels -> Places \cup {NoListing}] /\ used \in [Archives -> Nat] /\ Kept(vfs, used)
  /\ expiring \in {"no", "timer", "now", "quit"}
  /\ expiring \in {"now", "quit"} => NoFileOpen

(* What concerns the stamps alone.                                          *)
SameButStamps(s, t) ==
  DOMAIN t = DOMAIN s /\ t.live = s.live /\ t.fd = s.fd /\ t.copy = s.copy

(* Changes of the stamps leave the archives alone.                          *)
LEMMA StampsOnly ==
  ASSUME NEW s, Counts(s)
  PROVE  /\ \A x : SameButStamps(s, [s EXCEPT !.stamps = x])
         /\ \A x, y : SameButStamps(s, [s EXCEPT !.stamps = x, !.at = y])
BY DEF Counts, SameButStamps

(* So do the operations of gc.c, whatever the stamps are.                   *)
LEMMA StampingDoes ==
  ASSUME NEW s, Counts(s), NEW f
  PROVE  /\ SameButStamps(s, s)
         /\ SameButStamps(s, Fresh(s, f)) /\ SameButStamps(s, vfs_stamp(s, f))
         /\ SameButStamps(s, vfs_addstamp(s, f)) /\ SameButStamps(s, vfs_rmstamp(s, f))
         /\ SameButStamps(s, Asked(s, f))
<1>1. SameButStamps(s, s)
  BY DEF SameButStamps
<1>2. SameButStamps(s, Fresh(s, f))
  BY DEF Counts, SameButStamps, Fresh
<1>3. SameButStamps(s, vfs_stamp(s, f))
  BY <1>1, <1>2 DEF vfs_stamp
<1>4. SameButStamps(s, vfs_addstamp(s, f))
  BY <1>1, <1>2, StampsOnly DEF vfs_addstamp
<1>5. SameButStamps(s, vfs_rmstamp(s, f))
  BY <1>1, StampsOnly DEF vfs_rmstamp
<1>6. SameButStamps(s, Asked(s, f))
  BY <1>1, <1>3 DEF Asked
<1> QED BY <1>1, <1>2, <1>3, <1>4, <1>5, <1>6

(* What is counted does not depend on the stamps.                           *)
LEMMA SameCounts ==
  ASSUME NEW s, NEW t, Counts(s), SameButStamps(s, t)
  PROVE  Counts(t) /\ \A f : LocalCopies(t, f) = LocalCopies(s, f)
BY DEF Counts, SameButStamps, LocalCopies

(* Two such changes are one.                                                *)
LEMMA SameTwice ==
  ASSUME NEW s, NEW t, NEW u, SameButStamps(s, t), SameButStamps(t, u)
  PROVE  SameButStamps(s, u)
BY DEF SameButStamps

(* vfs_stamp_create stamps, and takes stamps away.                          *)
LEMMA StampCreateDoes ==
  ASSUME NEW s, Counts(s), NEW f, NEW here, NEW at
  PROVE  SameButStamps(s, vfs_stamp_create(s, f, here, at))
<1> DEFINE a == Asked(s, here)
           d == vfs_rmstamp(a, vfs_getid(s, here))
           e == vfs_addstamp(d, f)
<1>1. SameButStamps(s, a) /\ Counts(a)
  BY StampingDoes, SameCounts
<1> HIDE DEF a
<1>2. SameButStamps(a, d) /\ Counts(d)
  BY <1>1, StampingDoes, SameCounts
<1> HIDE DEF d
<1>3. SameButStamps(d, e)
  BY <1>2, StampingDoes
<1>4. SameButStamps(s, d)
  BY <1>1, <1>2, SameTwice
<1>5. SameButStamps(s, e)
  BY <1>3, <1>4, SameTwice
<1>6. vfs_stamp_create(s, f, here, at) \in {d, e}
  BY DEF vfs_stamp_create, a, d, e
<1> QED BY <1>4, <1>5, <1>6

(* Opening and closing: what becomes of the count.                          *)
Moved(s, t, f, d) ==
  /\ Counts(t) /\ s.live \subseteq t.live /\ t.live \subseteq s.live \cup {f}
  /\ t.copy = s.copy
  /\ \A g \in Archives : t.fd[g] = IF g = f THEN s.fd[g] + d ELSE s.fd[g]

(* extfs_open_archive, or the archive that is there.                        *)
LEMMA LiveDoes ==
  ASSUME NEW s, Counts(s), NEW f
  PROVE  Moved(s, Live(s, f), f, 0) /\ f \in Live(s, f).live
<1>1. CASE f \in s.live
  BY <1>1, StampingDoes, SameCounts DEF Live, Moved, SameButStamps, Counts
<1>2. CASE f \notin s.live
  BY <1>2 DEF Live, Moved, Counts
<1> QED BY <1>1, <1>2

(* The count of open files of f goes up by d.                               *)
LEMMA CountMoved ==
  ASSUME NEW s, Counts(s), NEW f, NEW d \in Int
  PROVE  /\ Moved(s, [s EXCEPT !.fd[f] = @ + d], f, d)
         /\ [s EXCEPT !.fd[f] = @ + d].live = s.live
<1> DEFINE t == [s EXCEPT !.fd[f] = @ + d]
<1>1. t.live = s.live /\ t.copy = s.copy /\ DOMAIN t = DOMAIN s /\ t.fd = [s.fd EXCEPT ![f] = @ + d]
  BY DEF Counts
<1> HIDE DEF t
<1>2. t.fd \in [Archives -> Int]
  <2>1. CASE f \in Archives
    <3>1. s.fd \in [Archives -> Int] /\ s.fd[f] + d \in Int
      BY <2>1 DEF Counts
    <3> QED BY <1>1, <3>1
  <2>2. CASE f \notin Archives
    <3>1. s.fd \in [Archives -> Int]
      BY DEF Counts
    <3>2. t.fd = s.fd
      BY <1>1, <2>2, <3>1
    <3> QED BY <3>1, <3>2
  <2> QED BY <2>1, <2>2
<1>3. \A g \in Archives : t.fd[g] = IF g = f THEN s.fd[g] + d ELSE s.fd[g]
  BY <1>1 DEF Counts
<1>4. Moved(s, t, f, d)
  BY <1>1, <1>2, <1>3 DEF Moved, Counts
<1> QED BY <1>1, <1>4 DEF t

(* Two changes of the count add up.                                         *)
LEMMA MovedTwice ==
  ASSUME NEW s, NEW t, NEW u, Counts(s), NEW f, NEW d \in Int, NEW e \in Int, Moved(s, t, f, d), Moved(t, u, f, e)
  PROVE  Moved(s, u, f, d + e)
BY DEF Moved, Counts

(* And then the stamps change.                                              *)
LEMMA MovedSame ==
  ASSUME NEW s, NEW t, NEW u, Counts(s), NEW f, NEW d \in Int, Moved(s, t, f, d), SameButStamps(t, u)
  PROVE  Moved(s, u, f, d)
<1>1. Counts(u)
  BY SameCounts DEF Moved
<1> QED BY <1>1 DEF Moved, SameButStamps

(* A file of f is opened: one more.                                         *)
LEMMA ArchiveOpenedDoes ==
  ASSUME NEW s, Counts(s), NEW f
  PROVE  Moved(s, Opened(s, f), f, 1) /\ f \in Opened(s, f).live
<1> DEFINE a == Live(s, f)
           b == vfs_rmstamp(a, f)
           c == [b EXCEPT !.fd[f] = @ + 1]
<1>1. Moved(s, a, f, 0) /\ Counts(a) /\ f \in a.live
  BY LiveDoes DEF Moved
<1> HIDE DEF a
<1>2. Moved(s, b, f, 0) /\ Counts(b) /\ f \in b.live
  <2>1. SameButStamps(a, b)
    BY <1>1, StampingDoes
  <2> HIDE DEF b
  <2>2. Moved(s, b, f, 0)
    BY <1>1, <2>1, MovedSame, 0 \in Int
  <2> QED BY <1>1, <2>1, <2>2 DEF Moved, SameButStamps
<1> HIDE DEF b
<1>3. Moved(b, c, f, 1) /\ c.live = b.live
  BY <1>2, CountMoved
<1>4. Moved(s, c, f, 0 + 1)
  BY <1>2, <1>3, MovedTwice
<1> QED BY <1>2, <1>3, <1>4 DEF Opened, a, b, c

(* extfs_close: one less.                                                   *)
LEMMA CloseDoes ==
  ASSUME NEW s, Counts(s), NEW f, NEW here, NEW at
  PROVE  Moved(s, extfs_close(s, f, here, at), f, -1)
<1> DEFINE c == [s EXCEPT !.fd[f] = @ - 1]
           d == [s EXCEPT !.fd[f] = @ + -1]
<1>1. c = d
  BY DEF Counts
<1>2. Moved(s, d, f, -1)
  BY CountMoved, -1 \in Int
<1> HIDE DEF c, d
<1>2a. Moved(s, c, f, -1) /\ Counts(c)
  BY <1>1, <1>2 DEF Moved
<1>3. SameButStamps(c, vfs_stamp_create(c, f, here, at)) /\ SameButStamps(c, c)
  BY <1>2a, StampCreateDoes DEF SameButStamps
<1>4. extfs_close(s, f, here, at) \in {c, vfs_stamp_create(c, f, here, at)}
  BY DEF extfs_close, c
<1> QED BY <1>2a, <1>3, <1>4, MovedSame, -1 \in Int

(* extfs_getlocalcopy opens a file of f and leaves it open.                 *)
LEMMA GetLocalCopyDoes ==
  ASSUME NEW s, Counts(s), NEW f, NEW here, NEW at
  PROVE  Moved(s, extfs_getlocalcopy(s, f, here, at), f, 1) /\ f \in extfs_getlocalcopy(s, f, here, at).live
<1> DEFINE a == Opened(s, f)
           b == [a EXCEPT !.fd[f] = @ + 1]
           c == extfs_close(b, f, here, at)
<1>1. Moved(s, a, f, 1) /\ Counts(a) /\ f \in a.live
  BY ArchiveOpenedDoes DEF Moved
<1> HIDE DEF a
<1>2a. Moved(a, b, f, 1) /\ b.live = a.live
  BY <1>1, CountMoved, 1 \in Int
<1> HIDE DEF b
<1>2. Moved(a, b, f, 1) /\ Counts(b) /\ f \in b.live
  BY <1>1, <1>2a DEF Moved
<1>3. Moved(s, b, f, 1 + 1)
  BY <1>1, <1>2, MovedTwice
<1>4. Moved(b, c, f, -1)
  BY <1>2, CloseDoes
<1>5. Moved(s, c, f, 2 + -1)
  BY <1>3, <1>4, MovedTwice, 1 + 1 = 2
<1>6. f \in c.live
  BY <1>2, <1>4 DEF Moved
<1> QED BY <1>5, <1>6 DEF extfs_getlocalcopy, a, b, c

(* The copies are as finite as the archives.                                *)
LEMMA CopiesFinite ==
  ASSUME NEW s, Counts(s), NEW f
  PROVE  IsFiniteSet(LocalCopies(s, f)) /\ Cardinality(LocalCopies(s, f)) \in Nat
<1>1. LocalCopies(s, f) \subseteq Archives
  BY DEF Counts, LocalCopies
<1> QED BY <1>1, FewAssumption, FS_Subset, FS_CardinalityType

(* extfs_get_path: an archive within another gets its copy, counted there.  *)
LEMMA GetPathDoes ==
  ASSUME NEW s, NEW u \in [Archives -> Nat], Kept(s, u), NEW f \in Archives, NEW here, NEW at
  PROVE  LET t == extfs_get_path(s, f, here, at)
         IN  Kept(t, u) /\ s.copy \subseteq t.copy /\ f \in t.live
<1> DEFINE t == extfs_get_path(s, f, here, at)
<1>1. Counts(s)
  BY DEF Kept, Counted
<1>2. CASE f \in s.live \/ Within[f] = Local
  <2>1. t = Live(s, f)
    BY <1>2 DEF extfs_get_path
  <2>2. Moved(s, t, f, 0) /\ f \in t.live
    BY <1>1, <2>1, LiveDoes
  <2> HIDE DEF t
  <2>3. \A g \in Archives : LocalCopies(t, g) = LocalCopies(s, g) /\ t.fd[g] = s.fd[g]
    BY <1>1, <2>2 DEF Moved, LocalCopies, Counts
  <2> QED BY <1>1, <2>2, <2>3 DEF Kept, Counted, Moved, t
<1>3. CASE f \notin s.live /\ Within[f] # Local
  <2> DEFINE o == Within[f]
             a == Live(s, o)
             g == extfs_getlocalcopy(a, o, here, at)
  <2>1. o \in Archives
    BY <1>3, WithinAssumption
  <2>2. t = [g EXCEPT !.live = @ \cup {f}, !.copy = @ \cup {f}]
    BY <1>3 DEF extfs_get_path
  <2> HIDE DEF t, o
  <2>3. Moved(s, a, o, 0) /\ Counts(a)
    BY <1>1, LiveDoes DEF Moved
  <2> HIDE DEF a
  <2>4. Moved(a, g, o, 1) /\ Counts(g)
    BY <2>3, GetLocalCopyDoes DEF Moved
  <2> HIDE DEF g
  <2>5. Moved(s, g, o, 0 + 1)
    BY <1>1, <2>3, <2>4, MovedTwice
  <2>6. t.live = g.live \cup {f} /\ t.copy = s.copy \cup {f} /\ t.fd = g.fd /\ DOMAIN t = DOMAIN g
    BY <2>2, <2>4, <2>5 DEF Counts, Moved
  <2>7. Counts(t)
    BY <2>4, <2>5, <2>6, <1>1, <1>3 DEF Counts, Moved
  <2>8. f \notin s.copy
    BY <1>3 DEF Kept
  <2>9. LocalCopies(t, o) = LocalCopies(s, o) \cup {f} /\ f \notin LocalCopies(s, o)
    BY <2>6, <2>8 DEF LocalCopies, o
  <2>10. Cardinality(LocalCopies(t, o)) = Cardinality(LocalCopies(s, o)) + 1
    BY <1>1, <2>9, CopiesFinite, FS_AddElement
  <2>11. \A h \in Archives : h # o => LocalCopies(t, h) = LocalCopies(s, h)
    BY <2>6 DEF LocalCopies, o
  <2>12. ASSUME NEW h \in Archives PROVE t.fd[h] = u[h] + Cardinality(LocalCopies(t, h))
    <3>1. s.fd[h] = u[h] + Cardinality(LocalCopies(s, h)) /\ u[h] \in Nat
          /\ Cardinality(LocalCopies(s, h)) \in Nat
      BY <1>1, CopiesFinite DEF Kept, Counted
    <3>2. t.fd[h] = IF h = o THEN s.fd[h] + 1 ELSE s.fd[h]
      BY <2>5, <2>6 DEF Moved
    <3> QED BY <3>1, <3>2, <2>10, <2>11
  <2> QED BY <2>5, <2>6, <2>7, <2>12 DEF Kept, Counted, Moved, t
<1> QED BY <1>2, <1>3

(* Freeing an archive of which nothing is open takes away its own copy.     *)
LEMMA FreeDoes ==
  ASSUME NEW s, NEW u \in [Archives -> Nat], Kept(s, u), NEW f, NEW here, NEW at,
         f \in Archives => u[f] = 0
  PROVE  LET t == vfs_s_free_super(s, f, here, at)
         IN  /\ Kept(t, u)
             /\ f \in Archives => f \notin t.live
             /\ t.copy \subseteq s.copy
             /\ \A c \in s.copy : c \in t.copy \/ c = f \/ (f \in Archives /\ Within[c] = f)
<1> DEFINE t == vfs_s_free_super(s, f, here, at)
           gone == [s EXCEPT !.live = @ \ {f}, !.fd[f] = 0, !.copy = {c \in @ : Within[c] # f}]
<1>1. Counts(s) /\ s.copy \subseteq s.live
  BY DEF Kept, Counted
<1>2. gone.live = s.live \ {f} /\ gone.copy = {c \in s.copy : Within[c] # f}
      /\ gone.fd = [s.fd EXCEPT ![f] = 0] /\ DOMAIN gone = DOMAIN s
  BY <1>1 DEF Counts
<1>3. t = IF Within[f] = Local THEN gone ELSE extfs_ungetlocalcopy(gone, f, here, at)
  BY DEF vfs_s_free_super
<1> HIDE DEF t, gone
<1>4. Counts(gone)
  <2>1. s.fd \in [Archives -> Int]
    BY <1>1 DEF Counts
  <2>2. [s.fd EXCEPT ![f] = 0] \in [Archives -> Int]
    <3>1. CASE f \in Archives
      BY <2>1, <3>1
    <3>2. CASE f \notin Archives
      <4>1. [s.fd EXCEPT ![f] = 0] = s.fd
        BY <2>1, <3>2
      <4> QED BY <2>1, <4>1
    <3> QED BY <3>1, <3>2
  <2> QED BY <1>1, <1>2, <2>2 DEF Counts
<1>5. ASSUME NEW g \in Archives PROVE gone.fd[g] = u[g] + Cardinality(LocalCopies(gone, g))
  <2>1. CASE g = f
    <3>1. LocalCopies(gone, g) = {}
      BY <1>2, <2>1 DEF LocalCopies
    <3> QED BY <1>1, <1>2, <2>1, <3>1, FS_EmptySet DEF Counts
  <2>2. CASE g # f
    <3>1. LocalCopies(gone, g) = LocalCopies(s, g)
      BY <1>2, <2>2 DEF LocalCopies
    <3> QED BY <1>1, <1>2, <2>2, <3>1 DEF Counts, Kept, Counted
  <2> QED BY <2>1, <2>2
<1>6. \A c \in s.copy : Within[c] = f => f \in Archives
  BY <1>1, WithinAssumption DEF Counts
<1>7. CASE Within[f] = Local
  <2>1. f \notin s.copy
    BY <1>1, <1>7 DEF Counts
  <2>2. gone.copy \subseteq gone.live
    BY <1>1, <1>2, <2>1
  <2> QED BY <1>2, <1>3, <1>4, <1>5, <1>6, <1>7, <2>2 DEF Kept, Counted, t
<1>8. CASE Within[f] # Local
  <2> DEFINE o == Within[f]
             d == IF f \in s.copy THEN -1 ELSE 0
             a == Opened(gone, o)
             b == [a EXCEPT !.fd[o] = IF f \in gone.copy THEN @ - 1 ELSE @]
             b1 == [a EXCEPT !.fd[o] = @ + d]
             e == extfs_close(b, o, here, at)
  <2>1. f \in Archives => o # f
    BY WithinAssumption, NestAssumption, LocalAssumption
  <2>2. f \in gone.copy <=> f \in s.copy
    BY <1>1, <1>2, <2>1 DEF Counts
  <2>3. t = [e EXCEPT !.copy = @ \ {f}]
    BY <1>3, <1>8 DEF extfs_ungetlocalcopy
  <2>4. Moved(gone, a, o, 1) /\ Counts(a)
    BY <1>4, ArchiveOpenedDoes DEF Moved
  <2>5. b = b1
    <3>1. \A g \in Archives : a.fd[g] \in Int
      BY <2>4 DEF Counts
    <3> HIDE DEF a, o
    <3>2. CASE f \in s.copy
      BY <3>1, <3>2, <2>2, <2>4 DEF Counts
    <3>3. CASE f \notin s.copy
      BY <3>1, <3>3, <2>2, <2>4 DEF Counts
    <3> QED BY <3>2, <3>3
  <2> HIDE DEF a
  <2>6a. Moved(a, b1, o, d)
    <3>1. d \in Int
      OBVIOUS
    <3> HIDE DEF d
    <3> QED BY <2>4, <3>1, CountMoved
  <2> HIDE DEF b, b1
  <2>6. Moved(a, b, o, d) /\ Counts(b)
    BY <2>5, <2>6a DEF Moved
  <2>7. Moved(gone, b, o, 1 + d)
    <3>1. d \in Int
      OBVIOUS
    <3> HIDE DEF d
    <3> QED BY <1>4, <2>4, <2>6, <3>1, MovedTwice
  <2>8. Moved(b, e, o, -1) /\ Counts(e)
    BY <2>6, CloseDoes DEF Moved
  <2>9. Moved(gone, e, o, 1 + d + -1)
    <3>1. 1 + d \in Int
      OBVIOUS
    <3> HIDE DEF d
    <3> QED BY <1>4, <2>7, <2>8, <3>1, MovedTwice
  <2> HIDE DEF e
  <2>10. t.live = e.live /\ t.copy = gone.copy \ {f} /\ t.fd = e.fd /\ DOMAIN t = DOMAIN e
    BY <2>3, <2>8, <2>9 DEF Counts, Moved
  <2>11. Counts(t)
    BY <2>8, <2>9, <2>10, <1>4 DEF Counts, Moved
  <2>12. ASSUME NEW h \in Archives PROVE t.fd[h] = u[h] + Cardinality(LocalCopies(t, h))
    <3>1. gone.fd[h] = u[h] + Cardinality(LocalCopies(gone, h)) /\ u[h] \in Nat
          /\ Cardinality(LocalCopies(gone, h)) \in Nat
      BY <1>4, <1>5, CopiesFinite
    <3>2. t.fd[h] = IF h = o THEN gone.fd[h] + (1 + d + -1) ELSE gone.fd[h]
      BY <2>9, <2>10 DEF Moved
    <3>3. CASE h = o /\ f \in s.copy
      <4>1. LocalCopies(t, h) = LocalCopies(gone, h) \ {f} /\ f \in LocalCopies(gone, h)
        BY <2>2, <2>10, <3>3 DEF LocalCopies
      <4>2. Cardinality(LocalCopies(t, h)) = Cardinality(LocalCopies(gone, h)) - 1
        BY ZenonT(60), <1>4, <4>1, CopiesFinite, FS_RemoveElement
      <4> QED BY <3>1, <3>2, <3>3, <4>2
    <3>4. CASE h # o \/ f \notin s.copy
      <4>1. LocalCopies(t, h) = LocalCopies(gone, h)
        BY <2>2, <2>10, <3>4 DEF LocalCopies
      <4> QED BY <3>1, <3>2, <3>4, <4>1
    <3> QED BY <3>3, <3>4
  <2>13. t.copy \subseteq t.live
    BY <1>1, <1>2, <2>9, <2>10 DEF Moved
  <2>14. f \in Archives => f \notin t.live
    BY <1>2, <2>1, <2>9, <2>10 DEF Moved
  <2> QED BY <1>2, <1>6, <2>10, <2>11, <2>12, <2>13, <2>14 DEF Kept, Counted, t
<1> QED BY <1>7, <1>8

-----------------------------------------------------------------------------
(* The counts are kept by what concerns the stamps alone.                   *)
LEMMA SameKept ==
  ASSUME NEW s, NEW t, NEW u, Kept(s, u), SameButStamps(s, t)
  PROVE  Kept(t, u)
<1>1. Counts(s) /\ Counts(t) /\ \A f : LocalCopies(t, f) = LocalCopies(s, f)
  BY SameCounts DEF Kept, Counted
<1> QED BY <1>1 DEF Kept, Counted, SameButStamps

(* mc_chdir opens an archive and stamps the one that is left.               *)
LEMMA ChdirDoes ==
  ASSUME NEW u \in [Archives -> Nat], NEW s, Kept(s, u), NEW from, NEW to \in Places, NEW at
  PROVE  Kept(mc_chdir(s, from, to, at), u) /\ s.copy \subseteq mc_chdir(s, from, to, at).copy
<1> DEFINE r == Reached(s, from, to, at)
           a == Asked(r, from)
           t == vfs_stamp_create(a, vfs_getid(r, from), to, at)
<1>1. Kept(r, u) /\ s.copy \subseteq r.copy
  BY GetPathDoes DEF Places, Reached
<1> HIDE DEF r
<1>2. SameButStamps(r, a) /\ Counts(r)
  BY <1>1, StampingDoes DEF Kept, Counted
<1>3. Counts(a)
  BY <1>2, SameCounts
<1> HIDE DEF a
<1>4. SameButStamps(a, t)
  BY <1>3, StampCreateDoes
<1> HIDE DEF t
<1>5. Kept(t, u) /\ t.copy = r.copy
  BY <1>1, <1>2, <1>4, SameKept, SameTwice DEF SameButStamps
<1>6. mc_chdir(s, from, to, at) = t
  BY DEF mc_chdir, r, a, t
<1> QED BY <1>1, <1>5, <1>6

(* What each step does to the copies.                                       *)
CopiesStay == \A c \in vfs.copy : c \in vfs'.live => c \in vfs'.copy

(* Every step keeps the counts, and the copies while nothing is freed on    *)
(* request.                                                                 *)
LEMMA VsStep ==
  ASSUME VsInv, VsNext
  PROVE  VsInv' /\ (expiring \in {"no", "timer"} => CopiesStay)
<1> USE DEF VsInv
<1>c. cwd' \in Places
  BY DEF VsNext, panel_do_cd_int, panel_sized_with_dir_new, panel_focus, panel_destroy, stat, extfs_open,
         close_file, vfs_timeout, vfs_timeout_handler, free_now, mc_quits, vfs_expire_one, vfs_expire_end
<1> USE <1>c
<1>1. ASSUME NEW p \in Panels, NEW f \in Places, panel_do_cd_int(p, f)
      PROVE  VsInv' /\ CopiesStay
  <2> DEFINE s == mc_chdir(vfs, cwd, f, panel)
             a == Asked(s, panel[p])
             t == vfs_stamp_create(a, vfs_getid(s, panel[p]), f, [panel EXCEPT ![p] = f])
  <2>1. Kept(s, used) /\ vfs.copy \subseteq s.copy
    BY ChdirDoes
  <2> HIDE DEF s
  <2>2. SameButStamps(s, a) /\ Counts(s)
    BY <2>1, StampingDoes DEF Kept, Counted
  <2>3. Counts(a)
    BY <2>2, SameCounts
  <2> HIDE DEF a
  <2>4. SameButStamps(a, t)
    BY <2>3, StampCreateDoes
  <2>5. vfs' = t
    BY <1>1 DEF panel_do_cd_int, s, a
  <2> HIDE DEF t
  <2>6. Kept(t, used) /\ t.copy = s.copy
    BY <2>1, <2>2, <2>4, SameKept, SameTwice DEF SameButStamps
  <2>7. Kept(vfs', used') /\ UNCHANGED <<used, expiring>> /\ expiring = "no"
        /\ panel' \in [Panels -> Places \cup {NoListing}]
    BY <1>1, <2>5, <2>6 DEF panel_do_cd_int
  <2> QED BY <2>1, <2>5, <2>6, <2>7 DEF CopiesStay
<1>2. ASSUME NEW p \in Panels, panel_focus(p)
      PROVE  VsInv' /\ CopiesStay
  <2>1. panel[p] \in Places
    BY <1>2 DEF panel_focus
  <2>2. Kept(mc_chdir(vfs, cwd, panel[p], panel), used) /\ vfs.copy \subseteq mc_chdir(vfs, cwd, panel[p], panel).copy
    BY <2>1, ChdirDoes
  <2>3. Kept(vfs', used') /\ vfs.copy \subseteq vfs'.copy /\ UNCHANGED <<panel, used, expiring>> /\ expiring = "no"
    BY <1>2, <2>2 DEF panel_focus
  <2> QED BY <2>3 DEF CopiesStay
<1>3. ASSUME NEW p \in Panels, panel_destroy(p)
      PROVE  VsInv' /\ CopiesStay
  <2> DEFINE a == Asked(vfs, panel[p])
             t == vfs_addstamp(a, vfs_getid(vfs, panel[p]))
  <2>1. SameButStamps(vfs, a) /\ Counts(vfs)
    BY StampingDoes DEF Kept, Counted
  <2>2. Counts(a)
    BY <2>1, SameCounts
  <2> HIDE DEF a
  <2>3. SameButStamps(a, t)
    BY <2>2, StampingDoes
  <2>4. vfs' = t /\ UNCHANGED <<used, expiring>> /\ expiring = "no" /\ panel' \in [Panels -> Places \cup {NoListing}]
    BY <1>3 DEF panel_destroy, a
  <2> HIDE DEF t
  <2>5. Kept(t, used) /\ t.copy = vfs.copy
    BY <2>1, <2>3, SameKept, SameTwice DEF SameButStamps
  <2> QED BY <2>4, <2>5 DEF CopiesStay
<1>4. ASSUME NEW f \in Archives, stat(f)
      PROVE  VsInv' /\ CopiesStay
  <2>1. Kept(vfs', used') /\ vfs.copy \subseteq vfs'.copy /\ UNCHANGED <<panel, used, expiring>> /\ expiring = "no"
    BY <1>4, GetPathDoes DEF stat
  <2> QED BY <2>1 DEF CopiesStay
<1>5. ASSUME NEW f \in Archives, extfs_open(f)
      PROVE  VsInv' /\ CopiesStay
  <2> DEFINE s == extfs_get_path(vfs, f, cwd, panel)
             t == Opened(s, f)
  <2>1. Kept(s, used) /\ vfs.copy \subseteq s.copy
    BY GetPathDoes
  <2>2. vfs' = t /\ used' = [used EXCEPT ![f] = @ + 1] /\ UNCHANGED <<panel, expiring>> /\ expiring = "no"
    BY <1>5 DEF extfs_open
  <2> HIDE DEF s
  <2>3. Moved(s, t, f, 1)
    BY <2>1, ArchiveOpenedDoes DEF Kept, Counted
  <2> HIDE DEF t
  <2>4. used' \in [Archives -> Nat]
    BY <2>2
  <2>5. \A g \in Archives : LocalCopies(t, g) = LocalCopies(s, g) /\ Cardinality(LocalCopies(s, g)) \in Nat
    <3>1. Counts(s) /\ t.copy = s.copy
      BY <2>1, <2>3 DEF Moved, Kept, Counted
    <3> QED BY <3>1, CopiesFinite DEF LocalCopies
  <2>6. Kept(t, used')
    BY <2>1, <2>2, <2>3, <2>5 DEF Kept, Counted, Moved
  <2> QED BY <2>1, <2>2, <2>3, <2>4, <2>6 DEF CopiesStay, Moved
<1>6. ASSUME NEW f \in Archives, close_file(f)
      PROVE  VsInv' /\ CopiesStay
  <2> DEFINE t == extfs_close(vfs, f, cwd, panel)
  <2>1. vfs' = t /\ used' = [used EXCEPT ![f] = @ - 1] /\ UNCHANGED <<panel, expiring>> /\ expiring = "no"
        /\ used[f] > 0
    BY <1>6 DEF close_file
  <2>2. Moved(vfs, t, f, -1) /\ Counts(vfs)
    BY CloseDoes DEF Kept, Counted
  <2> HIDE DEF t
  <2>3. used' \in [Archives -> Nat]
    BY <2>1
  <2>4. \A g \in Archives : LocalCopies(t, g) = LocalCopies(vfs, g) /\ Cardinality(LocalCopies(vfs, g)) \in Nat
    <3>1. \A g \in Archives : LocalCopies(t, g) = LocalCopies(vfs, g)
      BY <2>2 DEF Moved, LocalCopies
    <3> QED BY <2>2, <3>1, CopiesFinite
  <2>5. Kept(t, used')
    BY <2>1, <2>2, <2>4 DEF Kept, Counted, Moved
  <2> QED BY <2>1, <2>2, <2>3, <2>5 DEF CopiesStay, Moved
<1>7. ASSUME vfs_timeout \/ vfs_timeout_handler \/ vfs_expire_end
      PROVE  VsInv' /\ CopiesStay
  <2>1. SameButStamps(vfs, vfs')
    BY <1>7 DEF vfs_timeout, vfs_timeout_handler, vfs_expire_end, SameButStamps, Kept, Counted, Counts
  <2>2. Kept(vfs', used)
    BY <2>1, SameKept
  <2>3. UNCHANGED <<panel, used>> /\ expiring' \in {"no", "timer"}
    BY <1>7 DEF vfs_timeout, vfs_timeout_handler, vfs_expire_end
  <2> QED BY <2>1, <2>2, <2>3 DEF CopiesStay, SameButStamps
<1>8. ASSUME free_now \/ mc_quits
      PROVE  VsInv' /\ CopiesStay
  <2>1. SameButStamps(vfs, vfs')
    <3>1. CASE free_now
      BY <3>1 DEF free_now, Reversed, SameButStamps, Kept, Counted, Counts
    <3>2. CASE mc_quits
      <4> DEFINE a == Asked(vfs, cwd)
                 b == vfs_addstamp(a, vfs_getid(vfs, cwd))
      <4>1. SameButStamps(vfs, a) /\ Counts(vfs)
        BY StampingDoes DEF Kept, Counted
      <4>2. Counts(a)
        BY <4>1, SameCounts
      <4> HIDE DEF a
      <4>3. SameButStamps(a, b)
        BY <4>2, StampingDoes
      <4>4. vfs' = [Reversed(b) EXCEPT !.at = 1]
        BY <3>2 DEF mc_quits, a
      <4> HIDE DEF b
      <4>5. Counts(b)
        BY <4>2, <4>3, SameCounts
      <4>6. SameButStamps(b, vfs')
        BY <4>4, <4>5 DEF Reversed, SameButStamps, Counts
      <4> QED BY <4>1, <4>3, <4>6, SameTwice
    <3> QED BY <1>8, <3>1, <3>2
  <2>2. Kept(vfs', used)
    BY <2>1, SameKept
  <2>3. UNCHANGED <<panel, used>> /\ NoFileOpen /\ expiring' \in {"now", "quit"}
    BY <1>8 DEF free_now, mc_quits
  <2> QED BY <2>1, <2>2, <2>3 DEF CopiesStay, SameButStamps, NoFileOpen
<1>9. ASSUME vfs_expire_one
      PROVE  VsInv' /\ (expiring \in {"no", "timer"} => CopiesStay)
  <2> DEFINE stamp == vfs.stamps[vfs.at]
             f == stamp.fs
             freed == vfs_s_free_super(vfs, f, cwd, panel)
             after == [freed EXCEPT !.stamps[freed.at] = Nulled, !.at = @ + 1]
  <2>0. Counts(vfs) /\ UNCHANGED <<panel, used, expiring>> /\ expiring # "no"
    BY <1>9 DEF vfs_expire_one, Kept, Counted
  <2>1. SameButStamps(vfs, vfs') \/ (vfs' = after /\ (expiring = "timer" => nothingisopen(vfs, f)))
    BY <1>9, <2>0 DEF vfs_expire_one, SameButStamps, Counts
  <2>2. CASE SameButStamps(vfs, vfs')
    BY <2>0, <2>2, SameKept DEF CopiesStay, SameButStamps, NoFileOpen
  <2>3. CASE vfs' = after /\ (expiring = "timer" => nothingisopen(vfs, f))
    <3> HIDE DEF f, freed
    <3>1. ASSUME f \in Archives PROVE used[f] = 0
      <4>1. CASE expiring = "timer"
        <5>1. vfs.fd[f] <= 0 /\ vfs.fd[f] = used[f] + Cardinality(LocalCopies(vfs, f))
              /\ Cardinality(LocalCopies(vfs, f)) \in Nat /\ used[f] \in Nat
          BY <2>0, <2>3, <3>1, <4>1, CopiesFinite DEF nothingisopen, Kept, Counted
        <5> QED BY <5>1
      <4>2. CASE expiring \in {"now", "quit"}
        BY <3>1, <4>2 DEF NoFileOpen
      <4> QED BY <2>0, <4>1, <4>2
    <3>2. /\ Kept(freed, used)
          /\ f \in Archives => f \notin freed.live
          /\ \A c \in vfs.copy : c \in freed.copy \/ c = f \/ (f \in Archives /\ Within[c] = f)
      BY <3>1, FreeDoes DEF freed
    <3>3. SameButStamps(freed, after)
      BY <3>2 DEF SameButStamps, Kept, Counted, Counts
    <3>4. Kept(vfs', used)
      BY <2>3, <3>2, <3>3, SameKept
    <3>5. ASSUME expiring = "timer" PROVE CopiesStay
      <4>1. ASSUME NEW c \in vfs.copy, f \in Archives PROVE Within[c] # f
        <5>1. vfs.fd[f] <= 0 /\ vfs.fd[f] = used[f] + Cardinality(LocalCopies(vfs, f))
              /\ Cardinality(LocalCopies(vfs, f)) \in Nat /\ used[f] \in Nat
              /\ IsFiniteSet(LocalCopies(vfs, f))
          BY <2>0, <2>3, <3>5, <4>1, CopiesFinite DEF nothingisopen, Kept, Counted
        <5>2. Cardinality(LocalCopies(vfs, f)) = 0
          BY <5>1
        <5>3. LocalCopies(vfs, f) = {}
          BY <5>1, <5>2, FS_EmptySet
        <5> QED BY <5>3 DEF LocalCopies
      <4>2. \A c \in vfs.copy : c \in Archives
        BY <2>0 DEF Counts
      <4> HIDE DEF after
      <4> QED BY <2>3, <3>2, <3>3, <4>1, <4>2 DEF CopiesStay, SameButStamps
    <3> QED BY <2>0, <3>4, <3>5 DEF NoFileOpen
  <2> QED BY <2>1, <2>2, <2>3
<1>10. ASSUME NEW p \in Panels, NEW f \in Places, panel_sized_with_dir_new(p, f)
       PROVE  VsInv' /\ CopiesStay
  <2> DEFINE s == mc_chdir(vfs, cwd, f, panel)
             t == mc_chdir(s, f, cwd, panel)
  <2>1. Kept(s, used) /\ vfs.copy \subseteq s.copy
    BY ChdirDoes
  <2> HIDE DEF s
  <2>2. Kept(t, used) /\ s.copy \subseteq t.copy
    BY <2>1, ChdirDoes
  <2>3. vfs' = t
    BY <1>10 DEF panel_sized_with_dir_new, s
  <2> HIDE DEF t
  <2>4. UNCHANGED <<used, expiring>> /\ expiring = "no" /\ panel' \in [Panels -> Places \cup {NoListing}]
    BY <1>10 DEF panel_sized_with_dir_new
  <2> QED BY <2>1, <2>2, <2>3, <2>4 DEF CopiesStay
<1> QED BY <1>1, <1>2, <1>3, <1>4, <1>5, <1>6, <1>7, <1>8, <1>9, <1>10 DEF VsNext

(* At first there is no archive.                                            *)
LEMMA VsStarts == VsInit => VsInv
<1> SUFFICES ASSUME VsInit PROVE VsInv
  OBVIOUS
<1>1. \A f \in Archives : LocalCopies(vfs, f) = {}
  BY DEF VsInit, LocalCopies
<1>2. vfs = [live |-> {}, fd |-> [f \in Archives |-> 0], copy |-> {}, stamps |-> << >>, at |-> 0]
      /\ used = [f \in Archives |-> 0]
  BY DEF VsInit
<1>3. Counts(vfs)
  BY <1>2 DEF Counts
<1>4. Kept(vfs, used)
  <2>1. Cardinality({}) = 0
    BY FS_EmptySet
  <2>2. \A f \in Archives : vfs.fd[f] = 0 /\ used[f] = 0 /\ Cardinality(LocalCopies(vfs, f)) = 0
    BY <1>1, <1>2, <2>1
  <2>3. \A f \in Archives : vfs.fd[f] = used[f] + Cardinality(LocalCopies(vfs, f))
    BY <2>2
  <2>4. vfs.copy \subseteq vfs.live
    BY <1>2
  <2> QED BY <1>3, <2>3, <2>4 DEF Kept, Counted
<1> QED BY <1>2, <1>4 DEF VsInit, VsInv, Places

(* extfs_getlocalcopy, vfs_s_free_super and vfs_expire: as long as the      *)
(* timer frees what is idle, the copy that an archive works on is there as  *)
(* long as the archive is; what is freed has no archive in it that needs it *)
(* still.                                                                   *)
THEOREM CopiesAreKept == VsSpec => CopyKept
<1>1. VsInv /\ [VsNext]_vs_vars => VsInv'
  <2>1. VsInv /\ UNCHANGED vs_vars => VsInv'
    BY DEF vs_vars, VsInv, NoFileOpen, Kept, Counted, Counts, LocalCopies
  <2> QED BY <2>1, VsStep
<1>2. VsInv /\ [VsNext]_vs_vars =>
        [(expiring \in {"no", "timer"}) =>
           (\A c \in vfs.copy : c \in vfs.live' => c \in vfs.copy')]_vs_vars
  BY VsStep DEF CopiesStay
<1> QED BY <1>1, <1>2, VsStarts, PTL DEF VsSpec, CopyKept

-----------------------------------------------------------------------------
(***************************************************************************)
(* For up to four archives, and any panels and open files: while no list   *)
(* is walked, the stamps are those of open archives, each once, and an     *)
(* archive that was in use and is no more has one, unless it was left      *)
(* while a panel was not a listing.                                        *)
(*                                                                         *)
(* The invariant also says what the list is like while vfs_expire walks    *)
(* it: the links that are NULL are behind the walk, the one it is at is    *)
(* still the one of the archive it frees, and there are no more links than *)
(* archives.  The last is why no stamp is doubled: the file of the outer   *)
(* archive is opened and closed, each takes away a link, NULL or not, and  *)
(* so few are left that none can hide behind a NULL one.                   *)
(***************************************************************************)
(* A list of stamps.                                                        *)
Stamps == [fs : Places, old : BOOLEAN]

Has(s, f) == \E i \in 1 .. Len(s.stamps) : s.stamps[i].fs = f

(* No two stamps of one archive; the links that are NULL are behind the     *)
(* walk.                                                                    *)
Distinct(s) ==
  \A i, j \in 1 .. Len(s.stamps) :
    i # j /\ s.stamps[i].fs # Local => s.stamps[i].fs # s.stamps[j].fs
Behind(s) == \A i \in 1 .. Len(s.stamps) : s.stamps[i].fs = Local => i < s.at

(* The list of s; of the archives in X only, the stamp may outlive them.    *)
Listed(s) == Counts(s) /\ s.stamps \in Seq(Stamps) /\ s.at \in Nat /\ Distinct(s) /\ Behind(s)
Neat(s, X) ==
  /\ Listed(s) /\ s.live \subseteq Archives
  /\ \A f \in Archives \ X : Has(s, f) => f \in s.live

(* The walk is at the stamp of c.                                           *)
WalkAt(s, c) == s.at \in 1 .. Len(s.stamps) /\ s.stamps[s.at].fs = c

(* Those of K are used, or stamped.  A panel that is not a listing is taken *)
(* to use them all, as vfs_stamp_create takes it.                           *)
Busy(s, f, here, at) ==
  f \in s.live /\ (s.fd[f] > 0 \/ here = f \/ \E p \in Panels : at[p] \in {f, NoListing})
Cared(s, here, at, K) == \A f \in K : f \in s.live /\ (Busy(s, f, here, at) \/ Has(s, f))

-----------------------------------------------------------------------------
(* A nonempty set of natural numbers has a least one.                       *)
LEMMA LeastNat == ASSUME NEW T \in SUBSET Nat, T # {} PROVE \E x \in T : \A y \in T : x <= y
<1>1. \E x \in T : \A y \in T : <<y, x>> \notin OpToRel(<, Nat)
  BY NatLessThanWellFounded, WFMin
<1>2. \A x, y \in Nat : <<y, x>> \notin OpToRel(<, Nat) => x <= y
  BY DEF OpToRel
<1> QED BY <1>1, <1>2

(* What holds of 0, and of the next number when of one, holds of all.       *)
LEMMA NatInduct ==
  ASSUME NEW T, 0 \in T, \A x \in Nat : x \in T => x + 1 \in T
  PROVE  Nat \subseteq T
<1> DEFINE U == {x \in Nat : x \notin T}
<1>1. SUFFICES ASSUME U # {} PROVE FALSE
  OBVIOUS
<1>2. PICK x \in U : \A y \in U : x <= y
  <2>1. U \in SUBSET Nat
    OBVIOUS
  <2> HIDE DEF U
  <2> QED BY <1>1, <2>1, LeastNat
<1>3. x # 0 /\ x - 1 \in Nat /\ x - 1 \notin U
  BY <1>2
<1> QED BY <1>2, <1>3

(* A loop of turns, each a function of what there was, has its values.      *)
Turns(F, len, start, st) == F[0] = start /\ \A k \in 1..len : F[k] = st[k][F[k - 1]]

(* A run that begins at start and takes turn k by the function st[k] exists.*)
LEMMA TurnsTaken ==
  ASSUME NEW len \in Nat, NEW S, NEW start \in S, NEW st \in [1..len -> [S -> S]]
  PROVE  \E F \in [0..len -> S] : Turns(F, len, start, st)
<1> DEFINE UpTo(F, m) == F \in [0..m -> S] /\ Turns(F, m, start, st)
           T == {m \in Nat : m <= len => \E F : UpTo(F, m)}
<1>1. 0 \in T
  <2>1. UpTo([k \in 0..0 |-> start], 0)
    BY DEF Turns
  <2> HIDE DEF UpTo
  <2> QED BY <2>1
<1>2. ASSUME NEW m \in Nat, m \in T PROVE m + 1 \in T
  <2> SUFFICES ASSUME m + 1 <= len PROVE \E F : UpTo(F, m + 1)
    OBVIOUS
  <2>1. PICK F : UpTo(F, m)
    BY <1>2
  <2>2. PICK j \in Nat : j = m + 1 /\ j - 1 = m /\ j # 0 /\ m \in 0..m /\ 0 # j /\ j \in 1..len
    OBVIOUS
  <2> DEFINE e == st[j][F[m]]
             G == [i \in 0..j |-> IF i = j THEN e ELSE F[i]]
  <2>3. e \in S
    BY <2>1, <2>2
  <2> HIDE DEF e
  <2>4. ASSUME NEW i \in 0..j PROVE i = j \/ i \in 0..m
    BY <2>2
  <2>5. G \in [0..j -> S]
    BY <2>1, <2>3, <2>4
  <2>6. ASSUME NEW i \in 1..j PROVE G[i] = st[i][G[i - 1]]
    <3>1. i - 1 \in 0..j /\ i - 1 # j /\ i \in 0..j
      BY <2>2
    <3>2. G[i - 1] = F[i - 1] /\ G[i] = IF i = j THEN e ELSE F[i]
      BY <3>1
    <3>3. i # j => i \in 1..m
      BY <2>2
    <3> QED BY <2>1, <2>2, <3>2, <3>3 DEF e, Turns
  <2>7. G[0] = start
    BY <2>1, <2>2 DEF Turns
  <2> HIDE DEF G
  <2>8. UpTo(G, j)
    BY <2>5, <2>6, <2>7 DEF Turns
  <2> QED BY <2>2, <2>8
<1> HIDE DEF T
<1>3. len \in T
  BY <1>1, <1>2, NatInduct
<1> QED BY <1>3 DEF T

(* The first link that compares equal.                                      *)
LEMMA CompareDoes ==
  ASSUME NEW s, Listed(s), NEW f
  PROVE  LET i == vfs_stamp_compare(s, f)
         IN  \/ i = 0 /\ ~Has(s, f) /\ ~Has(s, Local)
             \/ i \in 1 .. Len(s.stamps) /\ s.stamps[i].fs \in {f, Local}
<1> DEFINE equal == {i \in 1 .. Len(s.stamps) : s.stamps[i].fs \in {f, Local}}
           i == vfs_stamp_compare(s, f)
<1>1. i = IF equal = {} THEN 0 ELSE CHOOSE x \in equal : \A j \in equal : x <= j
  BY DEF vfs_stamp_compare
<1>2. Len(s.stamps) \in Nat
  BY LenProperties DEF Listed
<1>3. equal \subseteq Nat
  BY <1>2
<1>4. CASE equal = {}
  <2>1. i = 0
    BY <1>1, <1>4
  <2> HIDE DEF i
  <2> QED BY <1>4, <2>1 DEF Has, i
<1>5. CASE equal # {}
  <2>0. \E x \in equal : \A j \in equal : x <= j
    <3> HIDE DEF equal
    <3> QED BY <1>3, <1>5, LeastNat
  <2>1. i \in equal
    <3> HIDE DEF equal, i
    <3> QED BY <1>1, <1>5, <2>0
  <2> HIDE DEF i
  <2> QED BY <2>1 DEF i
<1> QED BY <1>4, <1>5

(* What changes the age of stamps at most.                                  *)
SameNames(s, t) ==
  /\ SameButStamps(s, t) /\ t.stamps \in Seq(Stamps)
  /\ Len(t.stamps) = Len(s.stamps) /\ t.at = s.at
  /\ \A i \in 1 .. Len(s.stamps) : t.stamps[i].fs = s.stamps[i].fs

(* It leaves everything as it was.                                          *)
LEMMA NamesDo ==
  ASSUME NEW s, NEW t, Listed(s), SameNames(s, t)
  PROVE  /\ Listed(t) /\ \A f : Has(t, f) <=> Has(s, f)
         /\ \A X : Neat(s, X) => Neat(t, X)
         /\ \A c : WalkAt(s, c) => WalkAt(t, c)
         /\ \A here, at, K : Cared(s, here, at, K) => Cared(t, here, at, K)
<1>1. Counts(t) /\ t.live = s.live /\ t.fd = s.fd
  BY SameCounts DEF Listed, SameNames, SameButStamps
<1>2. \A f : Has(t, f) <=> Has(s, f)
  BY DEF SameNames, Has
<1>3. Distinct(t) /\ Behind(t)
  BY DEF Listed, SameNames, Distinct, Behind
<1>4. Listed(t)
  BY <1>1, <1>3 DEF Listed, SameNames
<1>5. \A c : WalkAt(s, c) => WalkAt(t, c)
  BY DEF SameNames, WalkAt
<1>6. \A X : Neat(s, X) => Neat(t, X)
  BY <1>1, <1>2, <1>4 DEF Neat
<1>7. \A here, at, K : Cared(s, here, at, K) => Cared(t, here, at, K)
  BY <1>1, <1>2 DEF Cared, Busy
<1> QED BY <1>2, <1>4, <1>5, <1>6, <1>7

(* vfs_stamp is such a change.                                              *)
LEMMA StampDoes ==
  ASSUME NEW s, Listed(s), NEW f
  PROVE  /\ Found(s, f) => SameNames(s, Fresh(s, f))
         /\ SameNames(s, vfs_stamp(s, f)) /\ SameNames(s, Asked(s, f)) /\ SameNames(s, s)
<1>0. Counts(s) /\ s.stamps \in Seq(Stamps)
  BY DEF Listed
<1>1. SameNames(s, s)
  BY <1>0 DEF SameNames, SameButStamps
<1>2. ASSUME Found(s, f) PROVE SameNames(s, Fresh(s, f))
  <2> DEFINE i == vfs_stamp_compare(s, f)
             e == [s.stamps[i] EXCEPT !.old = FALSE]
             q == [s.stamps EXCEPT ![i] = e]
  <2>1. i # 0
    BY <1>2 DEF Found
  <2>2. i \in 1 .. Len(s.stamps)
    <3> HIDE DEF i
    <3> QED BY <2>1, CompareDoes DEF i
  <2>3. Fresh(s, f) = [s EXCEPT !.stamps = q]
    BY DEF Fresh
  <2> HIDE DEF i
  <2>4. s.stamps[i] \in Stamps
    BY <1>0, <2>2, ElementOfSeq
  <2>5. e \in Stamps /\ e.fs = s.stamps[i].fs
    BY <2>4 DEF Stamps
  <2> HIDE DEF e
  <2>6. q \in Seq(Stamps) /\ Len(q) = Len(s.stamps)
        /\ \A j \in 1 .. Len(s.stamps) : q[j] = IF j = i THEN e ELSE s.stamps[j]
    BY <1>0, <2>2, <2>5, ExceptSeq
  <2> HIDE DEF q
  <2>7. [s EXCEPT !.stamps = q].stamps = q /\ [s EXCEPT !.stamps = q].at = s.at
    BY <1>0 DEF Counts
  <2>8. SameButStamps(s, [s EXCEPT !.stamps = q])
    BY <1>0, StampsOnly
  <2> QED BY <2>3, <2>5, <2>6, <2>7, <2>8 DEF SameNames
<1>3. SameNames(s, vfs_stamp(s, f))
  BY <1>1, <1>2 DEF vfs_stamp
<1> QED BY <1>1, <1>2, <1>3 DEF Asked

-----------------------------------------------------------------------------
(* A link is taken out of a list.                                           *)
LEMMA CutDoes ==
  ASSUME NEW S, NEW q \in Seq(S), NEW i \in 1 .. Len(q)
  PROVE  LET t == SubSeq(q, 1, i - 1) \o SubSeq(q, i + 1, Len(q))
         IN  t \in Seq(S) /\ Len(t) = Len(q) - 1
             /\ \A j \in 1 .. Len(q) - 1 : t[j] = q[IF j < i THEN j ELSE j + 1]
<1> DEFINE a == SubSeq(q, 1, i - 1)
           b == SubSeq(q, i + 1, Len(q))
           t == a \o b
<1>1. Len(q) \in Nat /\ \A j \in 1 .. Len(q) : q[j] \in S
  BY LenProperties, ElementOfSeq
<1>2. a \in Seq(S) /\ Len(a) = i - 1 /\ \A j \in 1 .. i - 1 : a[j] = q[j]
  <2>1. 1 \in Int /\ i - 1 \in Int /\ \A j \in 1 .. i - 1 : q[j] \in S
    BY <1>1
  <2>2. a \in Seq(S) /\ Len(a) = (IF 1 <= i - 1 THEN i - 1 - 1 + 1 ELSE 0)
        /\ \A j \in 1 .. i - 1 - 1 + 1 : a[j] = q[1 + j - 1]
    BY <2>1, SubSeqProperties
  <2> HIDE DEF a
  <2> QED BY <1>1, <2>2
<1>3. b \in Seq(S) /\ Len(b) = Len(q) - i /\ \A j \in 1 .. Len(q) - i : b[j] = q[i + j]
  <2>1. i + 1 \in Int /\ Len(q) \in Int /\ \A j \in i + 1 .. Len(q) : q[j] \in S
    BY <1>1
  <2>2. b \in Seq(S) /\ Len(b) = (IF i + 1 <= Len(q) THEN Len(q) - (i + 1) + 1 ELSE 0)
        /\ \A j \in 1 .. Len(q) - (i + 1) + 1 : b[j] = q[i + 1 + j - 1]
    BY <2>1, SubSeqProperties
  <2> HIDE DEF b
  <2> QED BY <1>1, <2>2
<1> HIDE DEF a, b
<1>4. t \in Seq(S) /\ Len(t) = Len(a) + Len(b)
      /\ \A j \in 1 .. Len(a) + Len(b) : t[j] = IF j <= Len(a) THEN a[j] ELSE b[j - Len(a)]
  BY <1>2, <1>3, ConcatProperties
<1> HIDE DEF t
<1>5. ASSUME NEW j \in 1 .. Len(q) - 1 PROVE t[j] = q[IF j < i THEN j ELSE j + 1]
  <2>1. t[j] = IF j <= Len(a) THEN a[j] ELSE b[j - Len(a)]
    BY <1>1, <1>2, <1>3, <1>4
  <2>2. CASE j < i
    BY <1>1, <1>2, <2>1, <2>2
  <2>3. CASE ~(j < i)
    <3>1. j - (i - 1) \in 1 .. Len(q) - i /\ i + (j - (i - 1)) = j + 1
      BY <1>1, <2>3
    <3>2. b[j - (i - 1)] = q[i + (j - (i - 1))]
      BY <1>3, <3>1
    <3>3. t[j] = b[j - (i - 1)]
      BY <1>1, <1>2, <2>1, <2>3
    <3> QED BY <2>3, <3>1, <3>2, <3>3
  <2> QED BY <2>2, <2>3
<1>6. Len(t) = Len(q) - 1
  BY <1>1, <1>2, <1>3, <1>4
<1> QED BY <1>4, <1>5, <1>6 DEF t, a, b

(* The i-th stamp of s is gone.                                             *)
Cut(s, t, i) ==
  /\ SameButStamps(s, t) /\ t.stamps \in Seq(Stamps) /\ Len(t.stamps) = Len(s.stamps) - 1
  /\ t.at = IF i < s.at THEN s.at - 1 ELSE s.at
  /\ \A j \in 1 .. Len(s.stamps) - 1 : t.stamps[j] = s.stamps[IF j < i THEN j ELSE j + 1]

(* What vfs_rmstamp does to a list: it is one shorter, unless neither f nor *)
(* NULL was in it.                                                          *)
Dropped(s, t, f) ==
  /\ Listed(t) /\ SameButStamps(s, t)
  /\ \A g : Has(t, g) => Has(s, g)
  /\ \A g : Has(s, g) /\ g # f /\ g # Local => Has(t, g)
  /\ ~Has(s, Local) => ~Has(t, f)
  /\ s.at = 0 => t.at = 0
  /\ \A c : WalkAt(s, c) /\ c # f /\ c # Local => WalkAt(t, c)
  /\ \/ Len(t.stamps) = Len(s.stamps) - 1
     \/ Len(t.stamps) = Len(s.stamps) /\ ~Has(s, f) /\ ~Has(s, Local)

(* The other stamps, their order and the place of the walk are kept.        *)
LEMMA CutKeeps ==
  ASSUME NEW s, NEW t, Listed(s), NEW i \in 1 .. Len(s.stamps), Cut(s, t, i),
         NEW f, s.stamps[i].fs \in {f, Local}
  PROVE  Dropped(s, t, f)
<1> DEFINE len == Len(s.stamps)
           w == t.stamps
           m(j) == IF j < i THEN j ELSE j + 1
<1>1. len \in Nat /\ s.at \in Nat /\ i \in 1 .. len
  BY LenProperties DEF Listed
<1>2. Len(w) = len - 1 /\ \A j \in 1 .. len - 1 : w[j] = s.stamps[m(j)]
  BY DEF Cut
<1>3. t.at = IF i < s.at THEN s.at - 1 ELSE s.at
  BY DEF Cut
<1>4. Distinct(s) /\ Behind(s)
  BY DEF Listed
<1>d. /\ \A j, k \in 1 .. len : j # k /\ s.stamps[j].fs # Local => s.stamps[j].fs # s.stamps[k].fs
      /\ \A j \in 1 .. len : s.stamps[j].fs = Local => j < s.at
  BY <1>4 DEF Distinct, Behind
<1> HIDE DEF len, w
<1>5. \A j \in 1 .. len - 1 : m(j) \in 1 .. len /\ m(j) # i
  BY <1>1
<1>6. \A j, k \in 1 .. len - 1 : j # k => m(j) # m(k)
  BY <1>1
<1>7. \A k \in 1 .. len : k # i => \E j \in 1 .. len - 1 : m(j) = k
  <2> TAKE k \in 1 .. len
  <2> HAVE k # i
  <2>1. CASE k < i
    <3>1. k \in 1 .. len - 1 /\ m(k) = k
      BY <1>1, <2>1
    <3> QED BY <3>1
  <2>2. CASE ~(k < i)
    <3>1. k - 1 \in 1 .. len - 1 /\ m(k - 1) = k
      BY <1>1, <2>2
    <3> QED BY <3>1
  <2> QED BY <2>1, <2>2
<1>8. \A j \in 1 .. len - 1 : m(j) < s.at => j < t.at
  BY <1>1, <1>3
<1>w. ASSUME NEW k \in 1 .. len, k = s.at, k # i PROVE t.at \in 1 .. len - 1 /\ m(t.at) = k
  BY <1>1, <1>3, <1>w
<1> HIDE DEF m
<1>9. \A j \in 1 .. len - 1 : w[j].fs = s.stamps[m(j)].fs
  BY <1>2
<1>10. Distinct(t)
  <2>1. \A j, k \in 1 .. len - 1 : j # k /\ w[j].fs # Local => w[j].fs # w[k].fs
    BY <1>5, <1>6, <1>9, <1>d
  <2> QED BY <1>2, <2>1 DEF Distinct, w
<1>11. Behind(t)
  <2>1. \A j \in 1 .. len - 1 : w[j].fs = Local => j < t.at
    BY <1>5, <1>8, <1>9, <1>d
  <2> QED BY <1>2, <2>1 DEF Behind, w
<1>12. \A g : Has(t, g) => Has(s, g)
  BY <1>2, <1>5, <1>9 DEF Has, w, len
<1>13. \A g : Has(s, g) /\ g # f /\ g # Local => Has(t, g)
  <2> SUFFICES ASSUME NEW g, Has(s, g), g # f, g # Local PROVE Has(t, g)
    OBVIOUS
  <2>1. PICK k \in 1 .. len : s.stamps[k].fs = g
    BY DEF Has, len
  <2>2. k # i
    BY <2>1
  <2>3. PICK j \in 1 .. len - 1 : m(j) = k
    BY <1>7, <2>2
  <2> QED BY <1>2, <1>9, <2>1, <2>3 DEF Has, w
<1>14. ~Has(s, Local) => ~Has(t, f)
  <2> SUFFICES ASSUME ~Has(s, Local), Has(t, f) PROVE FALSE
    OBVIOUS
  <2>1. \A k \in 1 .. len : s.stamps[k].fs # Local
    BY DEF Has, len
  <2>2. s.stamps[i].fs = f
    BY <1>1, <2>1
  <2>3. PICK j \in 1 .. len - 1 : w[j].fs = f
    BY <1>2 DEF Has, w
  <2>4. s.stamps[m(j)].fs = f /\ m(j) \in 1 .. len /\ m(j) # i
    BY <1>5, <1>9, <2>3
  <2> QED BY <1>1, <1>d, <2>1, <2>2, <2>4
<1>15. \A c : WalkAt(s, c) /\ c # f /\ c # Local => WalkAt(t, c)
  <2> SUFFICES ASSUME NEW c, WalkAt(s, c), c # f, c # Local PROVE WalkAt(t, c)
    OBVIOUS
  <2>1. s.at \in 1 .. len /\ s.stamps[s.at].fs = c
    BY DEF WalkAt, len
  <2>2. s.at # i
    BY <2>1
  <2>3. t.at \in 1 .. len - 1 /\ m(t.at) = s.at
    BY <1>w, <2>1, <2>2
  <2> QED BY <1>2, <1>9, <2>1, <2>3 DEF WalkAt, w
<1>16. s.at = 0 => t.at = 0
  BY <1>1, <1>3
<1>17. Listed(t)
  <2>1. Counts(t)
    BY SameCounts DEF Listed, Cut
  <2>2. t.at \in Nat
    BY <1>1, <1>3
  <2> QED BY <1>10, <1>11, <2>1, <2>2 DEF Listed, Cut
<1> QED BY <1>12, <1>13, <1>14, <1>15, <1>16, <1>17 DEF Dropped, Cut

(* vfs_rmstamp takes out the first link that compares equal, if any.        *)
LEMMA RmCuts ==
  ASSUME NEW s, Listed(s), NEW f
  PROVE  LET t == vfs_rmstamp(s, f)
         IN  \/ t = s /\ ~Has(s, f) /\ ~Has(s, Local)
             \/ \E i \in 1 .. Len(s.stamps) : Cut(s, t, i) /\ s.stamps[i].fs \in {f, Local}
<1> DEFINE i == vfs_stamp_compare(s, f)
           q == SubSeq(s.stamps, 1, i - 1) \o SubSeq(s.stamps, i + 1, Len(s.stamps))
           k == IF i < s.at THEN s.at - 1 ELSE s.at
           t == vfs_rmstamp(s, f)
<1>0. Counts(s) /\ s.stamps \in Seq(Stamps)
  BY DEF Listed
<1>1. \/ i = 0 /\ ~Has(s, f) /\ ~Has(s, Local)
      \/ i \in 1 .. Len(s.stamps) /\ s.stamps[i].fs \in {f, Local}
  BY CompareDoes
<1>2. t = IF i = 0 THEN s ELSE [s EXCEPT !.stamps = q, !.at = k]
  BY DEF vfs_rmstamp
<1> HIDE DEF i
<1>3. CASE i \in 1 .. Len(s.stamps) /\ s.stamps[i].fs \in {f, Local}
  <2>1. q \in Seq(Stamps) /\ Len(q) = Len(s.stamps) - 1
        /\ \A j \in 1 .. Len(s.stamps) - 1 : q[j] = s.stamps[IF j < i THEN j ELSE j + 1]
    BY <1>0, <1>3, CutDoes
  <2>2. i # 0
    BY <1>3
  <2> HIDE DEF q, t
  <2>3. t = [s EXCEPT !.stamps = q, !.at = k]
    BY <1>2, <2>2
  <2> HIDE DEF k
  <2>4. t.stamps = q /\ t.at = k
    BY <1>0, <2>3 DEF Counts
  <2>5. SameButStamps(s, t)
    BY <1>0, <2>3, StampsOnly
  <2>6. Cut(s, t, i)
    BY <2>1, <2>4, <2>5 DEF Cut, k
  <2> QED BY <1>3, <2>6 DEF t
<1> QED BY <1>1, <1>2, <1>3

(* So vfs_rmstamp, whatever it takes out.                                   *)
LEMMA RmDoes ==
  ASSUME NEW s, Listed(s), NEW f
  PROVE  Dropped(s, vfs_rmstamp(s, f), f)
<1> DEFINE t == vfs_rmstamp(s, f)
<1>1. \/ t = s /\ ~Has(s, f) /\ ~Has(s, Local)
      \/ \E i \in 1 .. Len(s.stamps) : Cut(s, t, i) /\ s.stamps[i].fs \in {f, Local}
  BY RmCuts
<1> HIDE DEF t
<1>2. CASE t = s /\ ~Has(s, f) /\ ~Has(s, Local)
  BY <1>2 DEF Dropped, SameButStamps, t
<1>3. ASSUME NEW i \in 1 .. Len(s.stamps), Cut(s, t, i), s.stamps[i].fs \in {f, Local}
      PROVE  Dropped(s, t, f)
  BY <1>3, CutKeeps
<1> QED BY <1>1, <1>2, <1>3 DEF t

(* And vfs_addstamp: f is in the list once, if it cannot hide behind a NULL *)
(* link.                                                                    *)
Put(s, t, f) ==
  /\ Listed(t) /\ SameButStamps(s, t) /\ t.at = s.at
  /\ \A g : Has(t, g) <=> Has(s, g) \/ (f # Local /\ g = f)
  /\ \A c : WalkAt(s, c) => WalkAt(t, c)
  /\ Len(t.stamps) <= Len(s.stamps) + 1

LEMMA AddDoes ==
  ASSUME NEW s, Listed(s), NEW f \in Places, f # Local /\ Has(s, f) => ~Has(s, Local)
  PROVE  Put(s, vfs_addstamp(s, f), f)
<1> DEFINE t == vfs_addstamp(s, f)
<1>0. Counts(s) /\ s.stamps \in Seq(Stamps) /\ Len(s.stamps) \in Nat /\ s.at \in Nat
  BY LenProperties DEF Listed
<1>1. ASSUME SameNames(s, t), f = Local \/ Has(s, f) PROVE Put(s, t, f)
  <2> HIDE DEF t
  <2>1. /\ Listed(t) /\ \A g : Has(t, g) <=> Has(s, g)
        /\ \A c : WalkAt(s, c) => WalkAt(t, c)
    BY <1>1, NamesDo
  <2>2. SameButStamps(s, t) /\ t.at = s.at /\ Len(t.stamps) = Len(s.stamps)
    BY <1>1 DEF SameNames
  <2> QED BY <1>0, <1>1, <2>1, <2>2 DEF Put
<1>2. CASE f = Local
  <2>1. t = s
    BY <1>2 DEF vfs_addstamp
  <2>2. SameNames(s, s)
    BY StampDoes
  <2> QED BY <1>1, <1>2, <2>1, <2>2
<1>3. CASE f # Local /\ Found(s, f)
  <2>1. t = Fresh(s, f)
    BY <1>3 DEF vfs_addstamp
  <2>2. SameNames(s, Fresh(s, f))
    BY <1>3, StampDoes
  <2>3. Has(s, f)
    <3>1. vfs_stamp_compare(s, f) \in 1 .. Len(s.stamps)
      BY <1>3, CompareDoes DEF Found
    <3> QED BY <1>3, <3>1 DEF Found, Has
  <2> QED BY <1>1, <2>1, <2>2, <2>3
<1>4. CASE f # Local /\ ~Found(s, f)
  <2> DEFINE e == [fs |-> f, old |-> FALSE]
             q == Append(s.stamps, e)
  <2>1. t = [s EXCEPT !.stamps = q]
    BY <1>4 DEF vfs_addstamp
  <2>2. ~Has(s, f)
    <3>1. SUFFICES ASSUME Has(s, f) PROVE FALSE
      OBVIOUS
    <3>2. ~Has(s, Local)
      BY <1>4, <3>1
    <3>3. vfs_stamp_compare(s, f) # 0 /\ vfs_stamp_compare(s, f) \in 1 .. Len(s.stamps)
          /\ s.stamps[vfs_stamp_compare(s, f)].fs \in {f, Local}
      BY <3>1, CompareDoes
    <3>4. s.stamps[vfs_stamp_compare(s, f)].fs = f
      BY <3>2, <3>3 DEF Has
    <3> QED BY <1>4, <3>3, <3>4 DEF Found
  <2>3. e \in Stamps
    BY DEF Stamps
  <2>e. e.fs = f
    OBVIOUS
  <2> HIDE DEF e
  <2>4. q \in Seq(Stamps) /\ Len(q) = Len(s.stamps) + 1 /\ q[Len(s.stamps) + 1] = e
        /\ \A i \in 1 .. Len(s.stamps) : q[i] = s.stamps[i]
    BY <1>0, <2>3, AppendProperties
  <2> HIDE DEF q, t
  <2>5. t.stamps = q /\ t.at = s.at
    BY <1>0, <2>1 DEF Counts
  <2>6. SameButStamps(s, t)
    BY <1>0, <2>1, StampsOnly
  <2>7. Counts(t)
    BY <1>0, <2>6, SameCounts
  <2>8. \A i \in 1 .. Len(s.stamps) + 1 : q[i].fs = IF i \in 1 .. Len(s.stamps) THEN s.stamps[i].fs ELSE f
    BY <1>0, <2>4, <2>e
  <2>9. \A g : Has(t, g) <=> Has(s, g) \/ g = f
    <3>1. ASSUME NEW g, Has(t, g) PROVE Has(s, g) \/ g = f
      BY <1>0, <2>4, <2>5, <2>8, <3>1 DEF Has
    <3>2. ASSUME NEW g, Has(s, g) PROVE Has(t, g)
      <4>1. PICK i \in 1 .. Len(s.stamps) : s.stamps[i].fs = g
        BY <3>2 DEF Has
      <4>2. i \in 1 .. Len(t.stamps) /\ t.stamps[i].fs = g
        BY <1>0, <2>4, <2>5, <4>1
      <4> QED BY <4>2 DEF Has
    <3>3. Has(t, f)
      <4>1. Len(s.stamps) + 1 \in 1 .. Len(t.stamps) /\ t.stamps[Len(s.stamps) + 1].fs = f
        BY <1>0, <2>4, <2>5, <2>e
      <4> QED BY <4>1 DEF Has
    <3> QED BY <3>1, <3>2, <3>3
  <2>10. Distinct(t)
    <3>1. \A i \in 1 .. Len(s.stamps) : s.stamps[i].fs # f
      BY <2>2 DEF Has
    <3>2. \A i, j \in 1 .. Len(s.stamps) :
            i # j /\ s.stamps[i].fs # Local => s.stamps[i].fs # s.stamps[j].fs
      BY DEF Listed, Distinct
    <3>3. \A i, j \in 1 .. Len(s.stamps) + 1 : i # j /\ q[i].fs # Local => q[i].fs # q[j].fs
      BY <1>0, <2>8, <3>1, <3>2
    <3> QED BY <2>4, <2>5, <3>3 DEF Distinct
  <2>11. Behind(t)
    <3>1. \A i \in 1 .. Len(s.stamps) : s.stamps[i].fs = Local => i < s.at
      BY DEF Listed, Behind
    <3>2. \A i \in 1 .. Len(s.stamps) + 1 : q[i].fs = Local => i < s.at
      BY <1>4, <2>8, <3>1
    <3> QED BY <2>4, <2>5, <3>2 DEF Behind
  <2>12. \A c : WalkAt(s, c) => WalkAt(t, c)
    BY <1>0, <2>4, <2>5 DEF WalkAt
  <2>13. Listed(t)
    BY <1>0, <2>4, <2>5, <2>7, <2>10, <2>11 DEF Listed
  <2>14. Len(t.stamps) <= Len(s.stamps) + 1
    BY <1>0, <2>4, <2>5
  <2>15. Put(s, t, f)
    BY <1>4, <2>5, <2>6, <2>9, <2>12, <2>13, <2>14 DEF Put
  <2> QED BY <2>15 DEF t
<1> QED BY <1>2, <1>3, <1>4

(* A list without NULL links is no longer than there are archives.          *)
LEMMA LenBound ==
  ASSUME NEW s, Listed(s), ~Has(s, Local)
  PROVE  Len(s.stamps) <= Cardinality(Archives)
<1> DEFINE len == Len(s.stamps)
           m == [i \in 1 .. len |-> s.stamps[i].fs]
<1>1. len \in Nat /\ IsFiniteSet(Archives) /\ Cardinality(Archives) \in Nat
  BY LenProperties, FewAssumption, FS_CardinalityType DEF Listed
<1>2. \A i \in 1 .. len : s.stamps[i].fs \in Archives
  <2> SUFFICES ASSUME NEW i \in 1 .. len PROVE s.stamps[i].fs \in Archives
    OBVIOUS
  <2>1. s.stamps \in Seq(Stamps)
    BY DEF Listed
  <2>2. s.stamps[i] \in Stamps
    BY <2>1, ElementOfSeq
  <2>3. s.stamps[i].fs # Local
    BY DEF Has
  <2> QED BY <2>2, <2>3 DEF Stamps, Places
<1>3. m \in [1 .. len -> Archives]
  BY <1>2
<1>4. IsFiniteSet(1 .. len) /\ Cardinality(1 .. len) = len
  <2> HIDE DEF len
  <2>1. IsFiniteSet(1 .. len) /\ Cardinality(1 .. len) = IF 1 > len THEN 0 ELSE len - 1 + 1
    BY <1>1, FS_Interval
  <2> QED BY <1>1, <2>1
<1>5. \A i, j \in 1 .. len : i # j => m[i] # m[j]
  BY <1>2, LocalAssumption DEF Listed, Distinct
<1> HIDE DEF m, len
<1>6. SUFFICES ASSUME ~(len <= Cardinality(Archives)) PROVE FALSE
  BY DEF len
<1>7. Cardinality(Archives) < Cardinality(1 .. len)
  BY <1>1, <1>4, <1>6
<1>8. \E i, j \in 1 .. len : i # j /\ m[i] = m[j]
  BY <1>1, <1>3, <1>4, <1>7, FS_PigeonHole
<1> QED BY <1>5, <1>8

(* vfs_stamp_create first takes away a stamp of the current directory.      *)
Released(s, here) == vfs_rmstamp(Asked(s, here), vfs_getid(s, here))

Eased(s, t, here) ==
  /\ Listed(t) /\ SameButStamps(s, t)
  /\ \A g : Has(t, g) => Has(s, g)
  /\ \A g : Has(s, g) /\ g # Local /\ ~(g = here /\ here \in s.live) => Has(t, g)
  /\ s.at = 0 => t.at = 0
  /\ \A c : WalkAt(s, c) /\ c # Local /\ c \notin s.live => WalkAt(t, c)
  /\ Len(t.stamps) <= Len(s.stamps)
  /\ Has(s, Local) => Len(t.stamps) = Len(s.stamps) - 1

LEMMA ReleasedDoes ==
  ASSUME NEW s, Listed(s), NEW here
  PROVE  Eased(s, Released(s, here), here)
<1> DEFINE a == Asked(s, here)
           f == vfs_getid(s, here)
           d == vfs_rmstamp(a, f)
<1>1. SameNames(s, a)
  BY StampDoes
<1>2. f = IF here \in s.live THEN here ELSE Local
  BY DEF vfs_getid
<1> HIDE DEF a, f
<1>3. Listed(a) /\ (\A g : Has(a, g) <=> Has(s, g)) /\ (\A c : WalkAt(s, c) => WalkAt(a, c))
  BY <1>1, NamesDo
<1>4. Dropped(a, d, f)
  BY <1>3, RmDoes
<1>5. d = Released(s, here)
  BY DEF Released, a, f
<1> HIDE DEF d
<1>6. SameButStamps(s, a) /\ Len(a.stamps) = Len(s.stamps) /\ a.at = s.at
  BY <1>1 DEF SameNames
<1>7. Len(s.stamps) \in Nat
  BY LenProperties DEF Listed
<1>8. Listed(d) /\ SameButStamps(s, d)
  BY <1>4, <1>6, SameTwice DEF Dropped
<1>9. \A g : Has(d, g) => Has(s, g)
  BY <1>3, <1>4 DEF Dropped
<1>10. \A g : Has(s, g) /\ g # Local /\ ~(g = here /\ here \in s.live) => Has(d, g)
  BY <1>2, <1>3, <1>4 DEF Dropped
<1>11. \A c : WalkAt(s, c) /\ c # Local /\ c \notin s.live => WalkAt(d, c)
  BY <1>2, <1>3, <1>4 DEF Dropped
<1>12. s.at = 0 => d.at = 0
  BY <1>4, <1>6 DEF Dropped
<1>13. Len(d.stamps) <= Len(s.stamps) /\ (Has(s, Local) => Len(d.stamps) = Len(s.stamps) - 1)
  <2>1. Has(a, Local) <=> Has(s, Local)
    BY <1>3
  <2>2. \/ Len(d.stamps) = Len(a.stamps) - 1
        \/ Len(d.stamps) = Len(a.stamps) /\ ~Has(a, Local)
    BY <1>4 DEF Dropped
  <2> QED BY <1>6, <1>7, <2>1, <2>2
<1> QED BY <1>5, <1>8, <1>9, <1>10, <1>11, <1>12, <1>13 DEF Eased

(* No NULL link can hide the stamp of f from vfs_stamp_create.              *)
NoneHidden(s, f, here) ==
  f # Local /\ Has(Released(s, here), f) => ~Has(Released(s, here), Local)

(* From s to t, no archive of K was forgotten, and the walk stays where it  *)
(* was.                                                                     *)
Tidied(s, t, here, at, X, K) ==
  /\ Neat(t, X) /\ Cared(t, here, at, K)
  /\ s.at = 0 => t.at = 0
  /\ \A c : WalkAt(s, c) /\ c # Local /\ c \notin s.live => WalkAt(t, c)
  /\ Len(t.stamps) <= Len(s.stamps) + 1
  /\ Has(t, Local) => Has(s, Local) /\ Len(t.stamps) <= Len(s.stamps)

(* vfs_stamp_create: a user left f.                                         *)
LEMMA CreateDoes ==
  ASSUME NEW X, NEW s, Neat(s, X), NEW f \in Places, f # Local => f \in s.live,
         NEW here, NEW at, NoneHidden(s, f, here),
         NEW K, \A g \in K : g \in s.live /\ (g # f => Busy(s, g, here, at) \/ Has(s, g))
  PROVE  Tidied(s, vfs_stamp_create(s, f, here, at), here, at, X, K)
<1> DEFINE d == Released(s, here)
           e == vfs_addstamp(d, f)
           t == vfs_stamp_create(s, f, here, at)
           idle == ~(f = Local \/ vfs_getid(s, here) = f
                     \/ check_panel_timestamp(s, f, at) \/ ~nothingisopen(s, f))
<1>1. Listed(s) /\ s.live \subseteq Archives /\ \A g \in Archives \ X : Has(s, g) => g \in s.live
  BY DEF Neat
<1>2. Eased(s, d, here)
  BY <1>1, ReleasedDoes
<1>3. t = IF idle THEN e ELSE d
  BY DEF vfs_stamp_create, Released
<1>4. idle \/ f = Local \/ Busy(s, f, here, at)
  <2>1. CASE vfs_getid(s, here) = f
    BY <2>1 DEF vfs_getid, Busy
  <2>2. CASE check_panel_timestamp(s, f, at) /\ f # Local
    BY <2>2 DEF check_panel_timestamp, Busy
  <2>3. CASE ~nothingisopen(s, f) /\ f # Local
    <3>1. f \in Archives /\ s.fd[f] \in Int
      BY <1>1, <2>3 DEF Listed, Counts, Places
    <3> QED BY <2>3, <3>1 DEF nothingisopen, Busy
  <2> QED BY <2>1, <2>2, <2>3
<1>n. f # Local /\ Has(d, f) => ~Has(d, Local)
  BY DEF NoneHidden
<1>l. Len(s.stamps) \in Nat
  BY <1>1, LenProperties DEF Listed
<1> HIDE DEF d, e, t, idle
<1>5. Put(d, e, f)
  <2>1. Listed(d)
    BY <1>2 DEF Eased
  <2> QED BY <1>n, <2>1, AddDoes DEF e
<1>6. SameButStamps(s, d) /\ d.live = s.live /\ d.fd = s.fd
  BY <1>2 DEF Eased, SameButStamps
<1>7. SameButStamps(s, e)
  BY <1>5, <1>6, SameTwice DEF Put
<1>8. Listed(t) /\ SameButStamps(s, t) /\ t.live = s.live /\ t.fd = s.fd
  BY <1>2, <1>3, <1>5, <1>6, <1>7 DEF Eased, Put, SameButStamps
<1>9. \A g : Has(t, g) => Has(s, g) \/ (f # Local /\ g = f)
  BY <1>2, <1>3, <1>5 DEF Eased, Put
<1>10. \A g : Has(d, g) => Has(t, g)
  BY <1>3, <1>5 DEF Put
<1>11. idle /\ f # Local => Has(t, f)
  BY <1>3, <1>5 DEF Put
<1>12. Neat(t, X)
  BY <1>1, <1>8, <1>9 DEF Neat
<1>13. \A g : Busy(s, g, here, at) => Busy(t, g, here, at)
  BY <1>8 DEF Busy
<1>14. ASSUME NEW g \in K PROVE g \in t.live /\ (Busy(t, g, here, at) \/ Has(t, g))
  <2>1. g \in s.live /\ g \in t.live /\ g # Local
    BY <1>1, <1>8, <1>14, LocalAssumption
  <2>2. CASE g = f
    BY <1>4, <1>11, <1>13, <2>1, <2>2
  <2>3. CASE g # f /\ Busy(s, g, here, at)
    BY <1>13, <2>1, <2>3
  <2>4. CASE g # f /\ Has(s, g)
    <3>1. CASE g = here
      BY <2>1, <3>1, <1>13 DEF Busy
    <3>2. CASE g # here
      BY <1>2, <1>10, <2>1, <2>4, <3>2 DEF Eased
    <3> QED BY <3>1, <3>2
  <2> QED BY <1>14, <2>2, <2>3, <2>4
<1>15. Cared(t, here, at, K)
  BY <1>14 DEF Cared
<1>16. s.at = 0 => t.at = 0
  BY <1>2, <1>3, <1>5 DEF Eased, Put
<1>17. \A c : WalkAt(s, c) /\ c # Local /\ c \notin s.live => WalkAt(t, c)
  BY <1>2, <1>3, <1>5 DEF Eased, Put
<1>18. Len(t.stamps) <= Len(s.stamps) + 1 /\ (Has(t, Local) => Has(s, Local) /\ Len(t.stamps) <= Len(s.stamps))
  <2>1. Len(d.stamps) \in Nat /\ Len(e.stamps) \in Nat
    BY <1>2, <1>5, LenProperties DEF Listed, Eased, Put
  <2>2. Len(d.stamps) <= Len(s.stamps) /\ (Has(s, Local) => Len(d.stamps) = Len(s.stamps) - 1)
    BY <1>2 DEF Eased
  <2>3. Len(e.stamps) <= Len(d.stamps) + 1
    BY <1>5 DEF Put
  <2>4. Has(t, Local) => Has(s, Local)
    BY <1>9
  <2> QED BY <1>3, <1>l, <2>1, <2>2, <2>3, <2>4
<1> QED BY <1>8, <1>12, <1>15, <1>16, <1>17, <1>18 DEF Tidied, t

-----------------------------------------------------------------------------
(* A change that leaves the list alone.                                     *)
LEMMA SameList ==
  ASSUME NEW s, NEW t, Listed(s), Counts(t), t.stamps = s.stamps, t.at = s.at
  PROVE  /\ Listed(t) /\ \A f : Has(t, f) <=> Has(s, f)
         /\ \A c : WalkAt(t, c) <=> WalkAt(s, c)
BY DEF Listed, Distinct, Behind, Has, WalkAt

(* While no list is walked, none has a NULL link.                           *)
LEMMA NoneNull ==
  ASSUME NEW s, Listed(s), s.at = 0
  PROVE  ~Has(s, Local) /\ \A f, here : NoneHidden(s, f, here)
<1>1. ASSUME NEW t, Listed(t), t.at = 0 PROVE ~Has(t, Local)
  <2>1. Len(t.stamps) \in Nat
    BY <1>1, LenProperties DEF Listed
  <2>2. \A i \in 1 .. Len(t.stamps) : t.stamps[i].fs = Local => i < 0
    BY <1>1 DEF Listed, Behind
  <2> QED BY <2>1, <2>2 DEF Has
<1>2. \A here : Eased(s, Released(s, here), here)
  BY ReleasedDoes
<1>3. \A here : ~Has(Released(s, here), Local)
  BY <1>1, <1>2 DEF Eased
<1> QED BY <1>1, <1>3 DEF NoneHidden

(* extfs_open_archive, or the archive that is there.                        *)
LEMMA LiveTidy ==
  ASSUME NEW X, NEW s, Neat(s, X), NEW f \in Archives, NEW here, NEW at, NEW K, Cared(s, here, at, K)
  PROVE  LET t == Live(s, f)
         IN  /\ Neat(t, X) /\ Cared(t, here, at, K) /\ t.at = s.at
             /\ Len(t.stamps) = Len(s.stamps)
             /\ \A g : Has(t, g) <=> Has(s, g)
             /\ \A c : WalkAt(s, c) => WalkAt(t, c)
<1> DEFINE t == Live(s, f)
<1>1. Listed(s) /\ Counts(s) /\ s.live \subseteq Archives
  BY DEF Neat, Listed
<1>2. CASE f \in s.live
  <2>1. t = vfs_stamp(s, f)
    BY <1>2 DEF Live
  <2>2. SameNames(s, t)
    BY <1>1, <2>1, StampDoes
  <2> HIDE DEF t
  <2>3. /\ \A g : Has(t, g) <=> Has(s, g)
        /\ Neat(t, X) /\ \A c : WalkAt(s, c) => WalkAt(t, c)
        /\ Cared(t, here, at, K)
    BY <1>1, <2>2, NamesDo
  <2>4. t.at = s.at /\ Len(t.stamps) = Len(s.stamps)
    BY <2>2 DEF SameNames
  <2> QED BY <2>3, <2>4 DEF t
<1>3. CASE f \notin s.live
  <2>1. t = [s EXCEPT !.live = @ \cup {f}]
    BY <1>3 DEF Live
  <2> HIDE DEF t
  <2>2. t.live = s.live \cup {f} /\ t.stamps = s.stamps /\ t.at = s.at /\ t.fd = s.fd /\ Counts(t)
    BY <1>1, <2>1 DEF Counts
  <2>3. /\ Listed(t) /\ \A g : Has(t, g) <=> Has(s, g)
        /\ \A c : WalkAt(t, c) <=> WalkAt(s, c)
    BY <1>1, <2>2, SameList
  <2>4. Neat(t, X)
    BY <2>2, <2>3 DEF Neat
  <2>5. Cared(t, here, at, K)
    BY <2>2, <2>3 DEF Cared, Busy
  <2> QED BY <2>2, <2>3, <2>4, <2>5 DEF t
<1> QED BY <1>2, <1>3

(* A file of f is opened.                                                   *)
Used(s, t, f, here, at, X, K) ==
  /\ Neat(t, X) /\ Cared(t, here, at, K \cup {f})
  /\ s.at = 0 => t.at = 0
  /\ \A c : WalkAt(s, c) /\ c # Local /\ c # f => WalkAt(t, c)
  /\ Has(t, Local) => Has(s, Local)
  /\ Len(t.stamps) <= Len(s.stamps)
  /\ Has(s, Local) => Len(t.stamps) = Len(s.stamps) - 1

(* Its archive needs no stamp: the file is open.                            *)
LEMMA OpenedTidy ==
  ASSUME NEW X, NEW s, Neat(s, X), NEW f \in Archives, s.fd[f] >= 0,
         NEW here, NEW at, NEW K, Cared(s, here, at, K)
  PROVE  Used(s, Opened(s, f), f, here, at, X, K)
<1> DEFINE a == Live(s, f)
           b == vfs_rmstamp(a, f)
           t == [b EXCEPT !.fd[f] = @ + 1]
<1>1. Listed(s) /\ Counts(s)
  BY DEF Neat, Listed
<1>2. /\ Neat(a, X) /\ Cared(a, here, at, K) /\ a.at = s.at
      /\ Len(a.stamps) = Len(s.stamps)
      /\ \A g : Has(a, g) <=> Has(s, g)
      /\ \A c : WalkAt(s, c) => WalkAt(a, c)
  BY LiveTidy
<1>3. Moved(s, a, f, 0) /\ f \in a.live
  BY <1>1, LiveDoes
<1>t. Opened(s, f) = t
  BY DEF Opened
<1> HIDE DEF a
<1>4. Dropped(a, b, f)
  BY <1>2, RmDoes DEF Neat
<1> HIDE DEF b
<1>5. b.live = a.live /\ b.fd = a.fd /\ Listed(b) /\ Counts(b)
  BY <1>4 DEF Dropped, SameButStamps, Listed
<1>6. t.live = b.live /\ t.stamps = b.stamps /\ t.at = b.at /\ t.fd = [b.fd EXCEPT ![f] = @ + 1]
  BY <1>5 DEF Counts
<1>7. Counts(t)
  BY <1>5, CountMoved, 1 \in Int DEF Moved
<1> HIDE DEF t
<1>8. /\ Listed(t) /\ \A g : Has(t, g) <=> Has(b, g)
      /\ \A c : WalkAt(t, c) <=> WalkAt(b, c)
  BY <1>5, <1>6, <1>7, SameList
<1>9. t.fd[f] > 0 /\ \A g \in Archives : g # f => t.fd[g] = a.fd[g]
  <2>1. a.fd[f] = s.fd[f] + 0 /\ s.fd[f] \in Int /\ DOMAIN b.fd = Archives
    BY <1>1, <1>3, <1>5 DEF Moved, Counts
  <2> QED BY <1>5, <1>6, <2>1
<1>10. Neat(t, X)
  <2>1. \A g : Has(t, g) => Has(a, g)
    BY <1>4, <1>8 DEF Dropped
  <2> QED BY <1>2, <1>5, <1>6, <1>8, <2>1 DEF Neat
<1>11. Cared(t, here, at, K \cup {f})
  <2> SUFFICES ASSUME NEW g \in K \cup {f} PROVE g \in t.live /\ (Busy(t, g, here, at) \/ Has(t, g))
    BY DEF Cared
  <2>1. CASE g = f
    BY <1>3, <1>5, <1>6, <1>9, <2>1 DEF Busy
  <2>2. CASE g # f
    <3>1. g \in a.live /\ (Busy(a, g, here, at) \/ Has(a, g)) /\ g \in t.live /\ g \in Archives
      BY <1>2, <1>5, <1>6, <2>2 DEF Cared, Neat
    <3>2. Busy(a, g, here, at) => Busy(t, g, here, at)
      BY <1>9, <2>2, <3>1 DEF Busy
    <3>3. Has(a, g) => Has(t, g)
      BY <1>4, <1>8, <2>2, <3>1, LocalAssumption DEF Dropped
    <3> QED BY <3>1, <3>2, <3>3
  <2> QED BY <2>1, <2>2
<1>12. s.at = 0 => t.at = 0
  BY <1>2, <1>4, <1>6 DEF Dropped
<1>13. \A c : WalkAt(s, c) /\ c # Local /\ c # f => WalkAt(t, c)
  BY <1>2, <1>4, <1>8 DEF Dropped
<1>14. Has(t, Local) => Has(s, Local)
  BY <1>2, <1>4, <1>8 DEF Dropped
<1>15. Len(t.stamps) <= Len(s.stamps) /\ (Has(s, Local) => Len(t.stamps) = Len(s.stamps) - 1)
  <2>1. Len(s.stamps) \in Nat
    BY <1>1, LenProperties DEF Listed
  <2>2. \/ Len(b.stamps) = Len(a.stamps) - 1
        \/ Len(b.stamps) = Len(a.stamps) /\ ~Has(a, Local)
    BY <1>4 DEF Dropped
  <2>3. Has(a, Local) <=> Has(s, Local)
    BY <1>2
  <2> QED BY <1>2, <1>6, <2>1, <2>2, <2>3
<1> QED BY <1>t, <1>10, <1>11, <1>12, <1>13, <1>14, <1>15 DEF Used

(* The count of open files of f changes.                                    *)
Shifted(s, t, f, d, X) ==
  /\ Neat(t, X) /\ t.stamps = s.stamps /\ t.at = s.at /\ t.live = s.live
  /\ t.fd[f] = s.fd[f] + d /\ s.fd[f] \in Int
  /\ \A g \in Archives : g # f => t.fd[g] = s.fd[g]
  /\ \A g : Has(t, g) <=> Has(s, g)
  /\ \A c : WalkAt(t, c) <=> WalkAt(s, c)

LEMMA CountTidy ==
  ASSUME NEW X, NEW s, Neat(s, X), NEW f \in Archives, NEW d \in Int
  PROVE  Shifted(s, [s EXCEPT !.fd[f] = @ + d], f, d, X)
<1> DEFINE t == [s EXCEPT !.fd[f] = @ + d]
<1>1. Listed(s) /\ Counts(s)
  BY DEF Neat, Listed
<1>2. Moved(s, t, f, d)
  BY <1>1, CountMoved
<1>3. t.stamps = s.stamps /\ t.at = s.at /\ t.live = s.live
  BY <1>1 DEF Counts
<1> HIDE DEF t
<1>4. Counts(t) /\ \A g \in Archives : t.fd[g] = IF g = f THEN s.fd[g] + d ELSE s.fd[g]
  BY <1>2 DEF Moved
<1>5. /\ Listed(t) /\ \A g : Has(t, g) <=> Has(s, g)
      /\ \A c : WalkAt(t, c) <=> WalkAt(s, c)
  BY <1>1, <1>3, <1>4, SameList
<1>6. Neat(t, X)
  BY <1>3, <1>5 DEF Neat
<1>7. s.fd[f] \in Int
  BY <1>1 DEF Counts
<1>8. t.fd[f] = s.fd[f] + d /\ \A g \in Archives : g # f => t.fd[g] = s.fd[g]
  BY <1>4
<1> QED BY <1>3, <1>5, <1>6, <1>7, <1>8 DEF Shifted, t

(* extfs_close: the last file closed is a user that left.                   *)
LEMMA CloseTidy ==
  ASSUME NEW X, NEW s, Neat(s, X), NEW f \in Archives, f \in s.live, s.fd[f] >= 1,
         NEW here, NEW at, NEW K, Cared(s, here, at, K),
         NoneHidden([s EXCEPT !.fd[f] = @ - 1], f, here)
  PROVE  Tidied(s, extfs_close(s, f, here, at), here, at, X, K)
<1> DEFINE b == [s EXCEPT !.fd[f] = @ - 1]
           d == [s EXCEPT !.fd[f] = @ + -1]
           t == extfs_close(s, f, here, at)
<1>1. b = d
  BY DEF Neat, Listed, Counts
<1>2. /\ Neat(d, X) /\ d.stamps = s.stamps /\ d.at = s.at /\ d.live = s.live
      /\ d.fd[f] = s.fd[f] + -1 /\ s.fd[f] \in Int
      /\ \A g \in Archives : g # f => d.fd[g] = s.fd[g]
      /\ \A g : Has(d, g) <=> Has(s, g)
      /\ \A c : WalkAt(d, c) <=> WalkAt(s, c)
  <2>1. Shifted(s, d, f, -1, X)
    BY CountTidy, -1 \in Int
  <2> HIDE DEF d
  <2> QED BY <2>1 DEF Shifted
<1>3. t = IF b.fd[f] = 0 THEN vfs_stamp_create(b, f, here, at) ELSE b
  BY DEF extfs_close
<1>4. NoneHidden(b, f, here)
  OBVIOUS
<1> HIDE DEF b, d, t
<1>5. Neat(b, X)
  BY <1>1, <1>2
<1>6. \A g \in K : g \in b.live /\ (g # f => Busy(b, g, here, at) \/ Has(b, g))
  <2> SUFFICES ASSUME NEW g \in K PROVE g \in b.live /\ (g # f => Busy(b, g, here, at) \/ Has(b, g))
    OBVIOUS
  <2>1. g \in s.live /\ (Busy(s, g, here, at) \/ Has(s, g)) /\ g \in Archives
    BY DEF Cared, Neat
  <2> QED BY <1>1, <1>2, <2>1 DEF Busy
<1>7. Len(s.stamps) \in Nat
  BY LenProperties DEF Neat, Listed
<1>8. CASE b.fd[f] = 0
  <2>1. f \in Places /\ (f # Local => f \in b.live)
    BY <1>1, <1>2 DEF Places
  <2>2. Tidied(b, t, here, at, X, K)
    BY <1>3, <1>4, <1>5, <1>6, <1>8, <2>1, CreateDoes
  <2>3. Tidied(s, t, here, at, X, K)
    BY <1>1, <1>2, <2>2 DEF Tidied
  <2> QED BY <2>3 DEF t
<1>9. CASE b.fd[f] # 0
  <2>1. t = b /\ b.fd[f] > 0
    BY <1>1, <1>2, <1>3, <1>9
  <2>2. Busy(b, f, here, at)
    BY <1>1, <1>2, <2>1 DEF Busy
  <2>3. Cared(b, here, at, K)
    BY <1>6, <2>2 DEF Cared
  <2>4. Tidied(s, t, here, at, X, K)
    BY <1>1, <1>2, <1>5, <1>7, <2>1, <2>3 DEF Tidied
  <2> QED BY <2>4 DEF t
<1> QED BY <1>8, <1>9

-----------------------------------------------------------------------------
(* While no list is walked.                                                 *)
Resting(s, here, at, K) == Neat(s, {}) /\ Cared(s, here, at, K) /\ s.at = 0

(* A user of y went to where it is now.                                     *)
LEMMA LeaveRests ==
  ASSUME NEW s, NEW here, NEW at, NEW K, Resting(s, here, at, K),
         NEW y \in Places, NEW there, NEW now,
         \A g \in K : g # y /\ Busy(s, g, here, at) => Busy(s, g, there, now)
  PROVE  Resting(vfs_stamp_create(Asked(s, y), vfs_getid(s, y), there, now), there, now, K)
<1> DEFINE a == Asked(s, y)
           f == vfs_getid(s, y)
           t == vfs_stamp_create(a, f, there, now)
<1>1. Listed(s) /\ s.live \subseteq Archives
  BY DEF Resting, Neat
<1>2. SameNames(s, a)
  BY <1>1, StampDoes
<1>3. f = (IF y \in s.live THEN y ELSE Local) /\ f \in Places
  BY DEF vfs_getid, Places
<1> HIDE DEF a, f
<1>4. Neat(a, {}) /\ Listed(a) /\ \A g : Has(a, g) <=> Has(s, g)
  BY <1>1, <1>2, NamesDo DEF Resting
<1>5. a.at = 0 /\ a.live = s.live /\ a.fd = s.fd
  BY <1>2 DEF SameNames, SameButStamps, Resting
<1>6. NoneHidden(a, f, there)
  BY <1>4, <1>5, NoneNull
<1>7. f # Local => f \in a.live
  BY <1>3, <1>5
<1>8. \A g \in K : g \in a.live /\ (g # f => Busy(a, g, there, now) \/ Has(a, g))
  <2> SUFFICES ASSUME NEW g \in K PROVE g \in a.live /\ (g # f => Busy(a, g, there, now) \/ Has(a, g))
    OBVIOUS
  <2>1. g \in s.live /\ (Busy(s, g, here, at) \/ Has(s, g))
    BY DEF Resting, Cared
  <2>2. g # y /\ Busy(s, g, here, at) => Busy(s, g, there, now)
    OBVIOUS
  <2>3. Busy(s, g, there, now) => Busy(a, g, there, now)
    BY <1>5 DEF Busy
  <2> QED BY <1>3, <1>4, <1>5, <2>1, <2>2, <2>3
<1>9. Tidied(a, t, there, now, {}, K)
  BY <1>3, <1>4, <1>6, <1>7, <1>8, CreateDoes
<1> HIDE DEF t
<1>10. Resting(t, there, now, K)
  BY <1>5, <1>9 DEF Tidied, Resting
<1> QED BY <1>10 DEF t, a, f

(* A file is opened, and closed.                                            *)
LEMMA OpenedRests ==
  ASSUME NEW s, NEW here, NEW at, NEW K, Resting(s, here, at, K), NEW f \in Archives, s.fd[f] >= 0
  PROVE  Resting(Opened(s, f), here, at, K \cup {f})
<1>1. Used(s, Opened(s, f), f, here, at, {}, K)
  BY OpenedTidy DEF Resting
<1> QED BY <1>1 DEF Used, Resting

LEMMA CloseRests ==
  ASSUME NEW s, NEW here, NEW at, NEW K, Resting(s, here, at, K),
         NEW f \in Archives, f \in s.live, s.fd[f] >= 1
  PROVE  Resting(extfs_close(s, f, here, at), here, at, K)
<1> DEFINE b == [s EXCEPT !.fd[f] = @ - 1]
<1>1. Listed(b) /\ b.at = 0
  <2>1. b = [s EXCEPT !.fd[f] = @ + -1]
    BY DEF Resting, Neat, Listed, Counts
  <2>2. Shifted(s, [s EXCEPT !.fd[f] = @ + -1], f, -1, {})
    BY CountTidy, -1 \in Int DEF Resting
  <2> HIDE DEF b
  <2>3. Shifted(s, b, f, -1, {})
    BY <2>1, <2>2
  <2> QED BY <2>3 DEF Shifted, Neat, Resting
<1>2. NoneHidden(b, f, here)
  <2> HIDE DEF b
  <2> QED BY <1>1, NoneNull
<1>3. Tidied(s, extfs_close(s, f, here, at), here, at, {}, K)
  BY <1>2, CloseTidy DEF Resting
<1> QED BY <1>3 DEF Tidied, Resting

(* extfs_getlocalcopy leaves one file open.                                 *)
LEMMA LocalCopyRests ==
  ASSUME NEW s, NEW here, NEW at, NEW K, Resting(s, here, at, K), NEW f \in Archives, s.fd[f] >= 0
  PROVE  Resting(extfs_getlocalcopy(s, f, here, at), here, at, K \cup {f})
<1> DEFINE a == Opened(s, f)
           b == [a EXCEPT !.fd[f] = @ + 1]
           J == K \cup {f}
<1>1. Resting(a, here, at, J)
  BY OpenedRests
<1>2. a.fd[f] = s.fd[f] + 1 /\ f \in a.live /\ s.fd[f] \in Int
  <2>1. Counts(s)
    BY DEF Resting, Neat, Listed
  <2>2. Moved(s, a, f, 1) /\ f \in a.live
    BY <2>1, ArchiveOpenedDoes
  <2> HIDE DEF a
  <2> QED BY <2>1, <2>2 DEF Moved, Counts
<1>e. extfs_getlocalcopy(s, f, here, at) = extfs_close(b, f, here, at)
  BY DEF extfs_getlocalcopy
<1> HIDE DEF a, J
<1>3. /\ Neat(b, {}) /\ b.at = a.at /\ b.live = a.live
      /\ b.fd[f] = a.fd[f] + 1
      /\ \A g \in Archives : g # f => b.fd[g] = a.fd[g]
      /\ \A g : Has(b, g) <=> Has(a, g)
  <2>1. Neat(a, {}) /\ 1 \in Int
    BY <1>1 DEF Resting
  <2>2. Shifted(a, b, f, 1, {})
    BY <2>1, CountTidy
  <2> HIDE DEF b
  <2> QED BY <2>2 DEF Shifted
<1> HIDE DEF b
<1>4. b.fd[f] >= 1
  BY <1>2, <1>3
<1>5. Cared(b, here, at, J)
  <2> SUFFICES ASSUME NEW g \in J PROVE g \in b.live /\ (Busy(b, g, here, at) \/ Has(b, g))
    BY DEF Cared
  <2>1. g \in a.live /\ (Busy(a, g, here, at) \/ Has(a, g)) /\ g \in Archives
    BY <1>1 DEF Resting, Cared, Neat
  <2>2. CASE g = f
    BY <1>3, <1>2, <2>1, <2>2 DEF Busy
  <2>3. CASE g # f
    BY <1>3, <2>1, <2>3 DEF Busy
  <2> QED BY <2>2, <2>3
<1>6. Resting(b, here, at, J)
  BY <1>1, <1>3, <1>5 DEF Resting
<1>7. Resting(extfs_close(b, f, here, at), here, at, J)
  BY <1>2, <1>3, <1>4, <1>6, CloseRests
<1> QED BY <1>e, <1>7 DEF J

(* The count of open files is never negative.                               *)
LEMMA FdNat ==
  ASSUME NEW s, NEW u \in [Archives -> Nat], Kept(s, u), NEW f \in Archives
  PROVE  s.fd[f] >= u[f] /\ s.fd[f] >= 0 /\ s.fd[f] \in Int
<1>1. Counts(s) /\ s.fd[f] = u[f] + Cardinality(LocalCopies(s, f)) /\ u[f] \in Nat
  BY DEF Kept, Counted
<1>2. Cardinality(LocalCopies(s, f)) \in Nat
  BY <1>1, CopiesFinite
<1> QED BY <1>1, <1>2

(* extfs_get_path.                                                          *)
LEMMA GetPathRests ==
  ASSUME NEW s, NEW here, NEW at, NEW K, Resting(s, here, at, K),
         NEW u \in [Archives -> Nat], Kept(s, u), NEW f \in Archives
  PROVE  Resting(extfs_get_path(s, f, here, at), here, at, K)
<1> DEFINE t == extfs_get_path(s, f, here, at)
<1>1. Counts(s)
  BY DEF Kept, Counted
<1>2. CASE f \in s.live \/ Within[f] = Local
  <2>1. t = Live(s, f)
    BY <1>2 DEF extfs_get_path
  <2>2. Neat(Live(s, f), {}) /\ Cared(Live(s, f), here, at, K) /\ Live(s, f).at = s.at
    BY LiveTidy DEF Resting
  <2> QED BY <2>1, <2>2 DEF Resting
<1>3. CASE f \notin s.live /\ Within[f] # Local
  <2> DEFINE o == Within[f]
             a == Live(s, o)
             g == extfs_getlocalcopy(a, o, here, at)
  <2>1. o \in Archives
    BY <1>3, WithinAssumption
  <2>2. t = [g EXCEPT !.live = @ \cup {f}, !.copy = @ \cup {f}]
    BY <1>3 DEF extfs_get_path
  <2>3. Neat(a, {}) /\ Cared(a, here, at, K) /\ a.at = s.at
    BY <2>1, LiveTidy DEF Resting
  <2>4. Moved(s, a, o, 0)
    BY <1>1, LiveDoes
  <2> HIDE DEF t, o, a
  <2>5. a.fd[o] >= 0
    <3>1. s.fd[o] >= 0 /\ s.fd[o] \in Int
      BY <2>1, FdNat
    <3> QED BY <2>1, <2>4, <3>1 DEF Moved
  <2>6. Resting(a, here, at, K)
    BY <2>3 DEF Resting
  <2>7. Resting(g, here, at, K \cup {o})
    BY <2>1, <2>5, <2>6, LocalCopyRests
  <2> HIDE DEF g
  <2>8. Listed(g) /\ Counts(g)
    BY <2>7 DEF Resting, Neat, Listed
  <2>9. t.live = g.live \cup {f} /\ t.stamps = g.stamps /\ t.at = g.at /\ t.fd = g.fd /\ Counts(t)
    BY <1>3, <2>2, <2>8 DEF Counts
  <2>10. Listed(t) /\ \A h : Has(t, h) <=> Has(g, h)
    BY <2>8, <2>9, SameList
  <2>11. Neat(t, {})
    BY <2>7, <2>9, <2>10 DEF Resting, Neat
  <2>12. Cared(t, here, at, K)
    BY <2>7, <2>9, <2>10 DEF Resting, Cared, Busy
  <2>13. Resting(t, here, at, K)
    BY <2>7, <2>9, <2>11, <2>12 DEF Resting
  <2> QED BY <2>13 DEF t
<1> QED BY <1>2, <1>3

-----------------------------------------------------------------------------
(* At most four archives: three links are no place for a stamp hidden by a  *)
(* NULL link, next to the one the walk is at.                               *)
LEMMA ThreeLinks ==
  ASSUME NEW s, Listed(s), Len(s.stamps) <= 2, NEW c, NEW o, WalkAt(s, c), Has(s, o), Has(s, Local),
         c # o, c # Local, o # Local
  PROVE  FALSE
<1>1. Len(s.stamps) \in Nat
  BY LenProperties DEF Listed
<1>2. PICK i \in 1 .. Len(s.stamps) : s.stamps[i].fs = o
  BY DEF Has
<1>3. PICK j \in 1 .. Len(s.stamps) : s.stamps[j].fs = Local
  BY DEF Has
<1>4. s.at \in 1 .. Len(s.stamps) /\ s.stamps[s.at].fs = c
  BY DEF WalkAt
<1>5. i # j /\ i # s.at /\ j # s.at
  BY <1>2, <1>3, <1>4
<1> QED BY <1>1, <1>2, <1>3, <1>4, <1>5

(* vfs_s_free_super, where the walk is: the list is no longer than before,  *)
(* and the walk still at the stamp of c.                                    *)
Freed(s, t, c, here, at, K) ==
  /\ Neat(t, {c}) /\ Cared(t, here, at, K \ {c}) /\ WalkAt(t, c) /\ c \notin t.live
  /\ Len(t.stamps) <= Cardinality(Archives)
  /\ s.live \subseteq t.live \cup {c}

(* What opening and closing the outer archive adds to the list has a place  *)
(* in it, and cannot double a stamp.                                        *)
LEMMA FreeTidy ==
  ASSUME NEW s, Neat(s, {}), NEW c \in Archives, WalkAt(s, c), Len(s.stamps) <= Cardinality(Archives),
         NEW u \in [Archives -> Nat], Kept(s, u), NEW here, NEW at, NEW K, Cared(s, here, at, K)
  PROVE  Freed(s, vfs_s_free_super(s, c, here, at), c, here, at, K)
<1> DEFINE gone == [s EXCEPT !.live = @ \ {c}, !.fd[c] = 0, !.copy = {x \in @ : Within[x] # c}]
           t == vfs_s_free_super(s, c, here, at)
           J == K \ {c}
           o == Within[c]
<1>1. Listed(s) /\ Counts(s) /\ s.live \subseteq Archives
  BY DEF Neat, Listed
<1>2. gone.live = s.live \ {c} /\ gone.copy = {x \in s.copy : Within[x] # c}
      /\ gone.fd = [s.fd EXCEPT ![c] = 0] /\ DOMAIN gone = DOMAIN s
      /\ gone.stamps = s.stamps /\ gone.at = s.at
  BY <1>1 DEF Counts
<1>3. t = IF Within[c] = Local THEN gone ELSE extfs_ungetlocalcopy(gone, c, here, at)
  BY DEF vfs_s_free_super
<1> HIDE DEF t, gone
<1>4. Counts(gone)
  BY <1>1, <1>2 DEF Counts
<1>5. /\ Listed(gone) /\ \A g : Has(gone, g) <=> Has(s, g)
      /\ \A x : WalkAt(gone, x) <=> WalkAt(s, x)
  BY <1>1, <1>2, <1>4, SameList
<1>6. Neat(gone, {c})
  BY <1>2, <1>5 DEF Neat
<1>7. Cared(gone, here, at, J)
  <2> SUFFICES ASSUME NEW g \in J PROVE g \in gone.live /\ (Busy(gone, g, here, at) \/ Has(gone, g))
    BY DEF Cared
  <2>1. g \in s.live /\ (Busy(s, g, here, at) \/ Has(s, g)) /\ g # c /\ g \in Archives
    BY <1>1 DEF Cared
  <2>2. gone.fd[g] = s.fd[g]
    BY <1>1, <1>2, <2>1 DEF Counts
  <2> QED BY <1>2, <1>5, <2>1, <2>2 DEF Busy
<1>8. CASE Within[c] = Local
  <2>1. t = gone
    BY <1>3, <1>8
  <2> QED BY <1>2, <1>5, <1>6, <1>7, <2>1 DEF Freed, t
<1>9. CASE Within[c] # Local
  <2> DEFINE d == IF c \in s.copy THEN -1 ELSE 0
             a == Opened(gone, o)
             b == [a EXCEPT !.fd[o] = IF c \in gone.copy THEN @ - 1 ELSE @]
             b1 == [a EXCEPT !.fd[o] = @ + d]
             e == extfs_close(b, o, here, at)
             closed == [b EXCEPT !.fd[o] = @ - 1]
             closed1 == [b EXCEPT !.fd[o] = @ + -1]
  <2>1. o \in Archives /\ o # c /\ o # Local /\ c # Local
    BY <1>9, WithinAssumption, NestAssumption, LocalAssumption
  <2>2. c \in gone.copy <=> c \in s.copy
    BY <1>1, <1>2, <2>1 DEF Counts
  <2>3. t = [e EXCEPT !.copy = @ \ {c}]
    BY <1>3, <1>9 DEF extfs_ungetlocalcopy
  <2>4. gone.fd[o] = s.fd[o] /\ s.fd[o] \in Int /\ s.fd[o] >= 0 /\ s.fd[o] + d >= 0
    <3>1. s.fd[o] = u[o] + Cardinality(LocalCopies(s, o)) /\ u[o] \in Nat
          /\ IsFiniteSet(LocalCopies(s, o)) /\ Cardinality(LocalCopies(s, o)) \in Nat
      BY <1>1, <2>1, CopiesFinite DEF Kept, Counted
    <3>2. c \in s.copy => Cardinality(LocalCopies(s, o)) # 0
      <4>1. c \in s.copy => LocalCopies(s, o) # {}
        BY DEF LocalCopies
      <4> QED BY <3>1, <4>1, FS_EmptySet
    <3>3. gone.fd[o] = s.fd[o]
      BY <1>1, <1>2, <2>1 DEF Counts
    <3> HIDE DEF o
    <3> QED BY <3>1, <3>2, <3>3
  <2> HIDE DEF o
  <2>5. Used(gone, a, o, here, at, {c}, J)
    BY <1>6, <1>7, <2>1, <2>4, OpenedTidy
  <2>6. Moved(gone, a, o, 1) /\ o \in a.live
    BY <1>4, ArchiveOpenedDoes
  <2> HIDE DEF a
  <2>7. Counts(a) /\ a.live = gone.live \cup {o} /\ a.fd[o] = s.fd[o] + 1 /\ Neat(a, {c})
        /\ Cared(a, here, at, J \cup {o})
    BY <2>1, <2>4, <2>5, <2>6 DEF Moved, Used
  <2>8. b = b1
    <3>1. \A g \in Archives : a.fd[g] \in Int
      BY <2>7 DEF Counts
    <3>2. CASE c \in s.copy
      BY <3>1, <3>2, <2>2, <2>7 DEF Counts
    <3>3. CASE c \notin s.copy
      BY SMTT(60), <3>1, <3>3, <2>2, <2>7 DEF Counts
    <3> QED BY <3>2, <3>3
  <2>d. d \in Int
    OBVIOUS
  <2>9. /\ Neat(b1, {c}) /\ b1.stamps = a.stamps /\ b1.at = a.at /\ b1.live = a.live
        /\ b1.fd[o] = a.fd[o] + d
        /\ \A g \in Archives : g # o => b1.fd[g] = a.fd[g]
        /\ \A g : Has(b1, g) <=> Has(a, g)
        /\ \A x : WalkAt(b1, x) <=> WalkAt(a, x)
    <3> DEFINE X == {c}
    <3>1. Neat(a, X) /\ o \in Archives /\ d \in Int
      BY <2>1, <2>7, <2>d
    <3> HIDE DEF d, X
    <3>2. Shifted(a, b1, o, d, X)
      BY <3>1, CountTidy
    <3> HIDE DEF b1
    <3> QED BY <3>2 DEF Shifted, X
  <2> HIDE DEF b, b1
  <2>10. b.fd[o] >= 1 /\ b.fd[o] > 0
    <3> HIDE DEF d
    <3> QED BY <2>4, <2>7, <2>8, <2>9, <2>d
  <2>11. Cared(b, here, at, J)
    <3> SUFFICES ASSUME NEW g \in J PROVE g \in b.live /\ (Busy(b, g, here, at) \/ Has(b, g))
      BY DEF Cared
    <3>1. g \in a.live /\ (Busy(a, g, here, at) \/ Has(a, g)) /\ g \in Archives
      BY <2>7 DEF Cared, Neat
    <3>2. CASE g = o
      BY <2>8, <2>9, <2>10, <3>1, <3>2 DEF Busy
    <3>3. CASE g # o
      BY <2>8, <2>9, <3>1, <3>3 DEF Busy
    <3> QED BY <3>2, <3>3
  <2>12. closed = closed1
    BY <2>8, <2>9 DEF Neat, Listed, Counts
  <2>13. /\ Neat(closed1, {c}) /\ closed1.stamps = b.stamps /\ closed1.at = b.at /\ closed1.live = b.live
         /\ \A g : Has(closed1, g) <=> Has(b, g)
         /\ \A x : WalkAt(closed1, x) <=> WalkAt(b, x)
    <3> DEFINE X == {c}
    <3>1. Neat(b, X) /\ o \in Archives /\ -1 \in Int
      BY <2>1, <2>8, <2>9
    <3> HIDE DEF X
    <3>2. Shifted(b, closed1, o, -1, X)
      BY <3>1, CountTidy
    <3> HIDE DEF closed1
    <3> QED BY <3>2 DEF Shifted, X
  <2> HIDE DEF closed1
  <2>14. NoneHidden(closed, o, here)
    <3> HIDE DEF closed
    <3> DEFINE r == Released(closed, here)
    <3>1. SUFFICES ASSUME Has(r, o), Has(r, Local) PROVE FALSE
      BY DEF NoneHidden
    <3>2. Eased(closed, r, here)
      <4>1. Listed(closed)
        BY <2>12, <2>13 DEF Neat
      <4> QED BY <4>1, ReleasedDoes
    <3> HIDE DEF r
    <3>3. Has(closed, Local) /\ Len(r.stamps) = Len(closed.stamps) - 1 /\ Listed(r)
      BY <3>1, <3>2 DEF Eased
    <3>4. Has(gone, Local) /\ Len(closed.stamps) = Len(gone.stamps) - 1
      BY <2>5, <2>8, <2>9, <2>12, <2>13, <3>3 DEF Used
    <3>5. WalkAt(closed, c)
      BY <1>5, <2>1, <2>5, <2>8, <2>9, <2>12, <2>13 DEF Used
    <3>6. c \notin closed.live
      BY <1>2, <2>1, <2>7, <2>8, <2>9, <2>12, <2>13
    <3>7. WalkAt(r, c)
      BY <2>1, <3>2, <3>5, <3>6 DEF Eased
    <3>8. Len(gone.stamps) \in Nat /\ Len(gone.stamps) <= 4
      <4>1. Len(s.stamps) \in Nat
        BY <1>1, LenProperties DEF Listed
      <4>2. Cardinality(Archives) \in Nat /\ Cardinality(Archives) <= 4
        BY FewAssumption, FS_CardinalityType
      <4> QED BY <1>2, <4>1, <4>2
    <3>9. Len(r.stamps) <= 2
      BY <3>3, <3>4, <3>8
    <3> QED BY <2>1, <3>1, <3>3, <3>7, <3>9, ThreeLinks
  <2>15. Tidied(b, e, here, at, {c}, J)
    <3>1. NoneHidden([b EXCEPT !.fd[o] = @ - 1], o, here)
      BY <2>14
    <3>2. Neat(b, {c}) /\ o \in b.live
      BY <2>6, <2>8, <2>9
    <3> QED BY <2>1, <2>10, <2>11, <3>1, <3>2, CloseTidy
  <2>16. Moved(b, e, o, -1)
    <3>1. Counts(b)
      BY <2>8, <2>9 DEF Neat, Listed
    <3> QED BY <3>1, CloseDoes
  <2> HIDE DEF e, closed
  <2>17. Neat(e, {c}) /\ Cared(e, here, at, J) /\ Counts(e) /\ Listed(e)
    BY <2>15 DEF Tidied, Neat, Listed
  <2>18. t.live = e.live /\ t.stamps = e.stamps /\ t.at = e.at /\ t.fd = e.fd /\ Counts(t)
    BY <2>3, <2>17 DEF Counts
  <2>19. /\ Listed(t) /\ \A g : Has(t, g) <=> Has(e, g)
         /\ \A x : WalkAt(t, x) <=> WalkAt(e, x)
    BY <2>17, <2>18, SameList
  <2>20. Neat(t, {c})
    BY <2>17, <2>18, <2>19 DEF Neat
  <2>21. Cared(t, here, at, J)
    BY <2>17, <2>18, <2>19 DEF Cared, Busy
  <2>22. WalkAt(t, c)
    <3>1. WalkAt(b, c) /\ c \notin b.live
      BY <1>2, <1>5, <2>1, <2>5, <2>7, <2>8, <2>9 DEF Used
    <3> QED BY <2>1, <2>15, <2>19, <3>1 DEF Tidied
  <2>23. c \notin t.live /\ s.live \subseteq t.live \cup {c}
    <3>1. b.live \subseteq e.live /\ e.live \subseteq b.live \cup {o}
      BY <2>16 DEF Moved
    <3> QED BY <1>2, <2>1, <2>7, <2>8, <2>9, <2>18, <3>1
  <2>24. Len(t.stamps) <= Cardinality(Archives)
    <3>1. CASE Has(t, Local)
      <4>1. Has(e, Local)
        BY <2>19, <3>1
      <4>2. Len(e.stamps) <= Len(b.stamps)
        BY <2>15, <4>1 DEF Tidied
      <4>3. Len(b.stamps) <= Len(s.stamps)
        BY <1>2, <2>5, <2>8, <2>9 DEF Used
      <4>4. Len(e.stamps) \in Nat /\ Len(b.stamps) \in Nat /\ Len(s.stamps) \in Nat
            /\ Cardinality(Archives) \in Nat
        BY <1>1, <2>8, <2>9, <2>17, LenProperties, FewAssumption, FS_CardinalityType DEF Neat, Listed
      <4> QED BY <2>18, <4>2, <4>3, <4>4
    <3>2. CASE ~Has(t, Local)
      BY <2>19, <3>2, LenBound
    <3> QED BY <3>1, <3>2
  <2>25. Freed(s, t, c, here, at, K)
    BY <2>20, <2>21, <2>22, <2>23, <2>24 DEF Freed
  <2> QED BY <2>25 DEF t
<1> QED BY <1>8, <1>9

-----------------------------------------------------------------------------
(* The links that g_slist_remove_all has kept of the first k.               *)
KeptRun(F, q) ==
  /\ F \in [0..Len(q) -> Seq(Stamps)] /\ F[0] = << >>
  /\ \A k \in 1..Len(q) : F[k] = IF q[k].fs = Local THEN F[k - 1] ELSE Append(F[k - 1], q[k])

LEMMA RemovalRuns ==
  ASSUME NEW q \in Seq(Stamps)
  PROVE  \E F : KeptRun(F, q) /\ F[Len(q)] = g_slist_remove_all(q)
<1> DEFINE len == Len(q)
           st == [k \in 1..len |-> [x \in Seq(Stamps) |-> IF q[k].fs = Local THEN x ELSE Append(x, q[k])]]
           R(C) == [k \in 0..len |->
             IF k = 0 THEN << >> ELSE IF q[k].fs = Local THEN C[k - 1] ELSE Append(C[k - 1], q[k])]
           C == CHOOSE f : f = R(f)
<1>1. len \in Nat /\ \A k \in 1..len : q[k] \in Stamps
  BY LenProperties, ElementOfSeq
<1>2. g_slist_remove_all(q) = C[len]
  BY DEF g_slist_remove_all
<1> HIDE DEF len
<1>3. PICK F \in [0..len -> Seq(Stamps)] : Turns(F, len, << >>, st)
  <2>1. st \in [1..len -> [Seq(Stamps) -> Seq(Stamps)]] /\ << >> \in Seq(Stamps)
    BY <1>1
  <2> HIDE DEF st
  <2> QED BY <1>1, <2>1, TurnsTaken
<1>4. KeptRun(F, q)
  <2>1. ASSUME NEW k \in 1..len
        PROVE  F[k] = IF q[k].fs = Local THEN F[k - 1] ELSE Append(F[k - 1], q[k])
    <3>1. k - 1 \in 0..len
      BY <1>1
    <3> QED BY <1>3, <3>1 DEF Turns
  <2> QED BY <1>3, <2>1 DEF KeptRun, Turns, len
<1>k. F \in [0..len -> Seq(Stamps)] /\ F[0] = << >>
      /\ \A k \in 1..len : F[k] = IF q[k].fs = Local THEN F[k - 1] ELSE Append(F[k - 1], q[k])
  BY <1>4 DEF KeptRun, len
<1>5. F = R(F)
  <2>1. \A k \in 0..len : k = 0 \/ k \in 1..len
    BY <1>1
  <2>2. \A k \in 1..len : k # 0
    BY <1>1
  <2> QED BY <1>k, <2>1, <2>2
<1>6. C = R(C)
  <2> HIDE DEF R
  <2> QED BY <1>5
<1>7. \A k \in 0..len : C[k] = F[k]
  <2> DEFINE T == {k \in Nat : k <= len => C[k] = F[k]}
  <2> HIDE DEF C
  <2>1. 0 \in T
    BY <1>1, <1>6, <1>k
  <2>2. ASSUME NEW k \in Nat, k \in T PROVE k + 1 \in T
    <3> SUFFICES ASSUME k + 1 <= len PROVE C[k + 1] = F[k + 1]
      OBVIOUS
    <3>1. PICK j \in 1..len : j = k + 1 /\ j - 1 = k /\ j # 0 /\ j \in 0..len
      BY <1>1
    <3>2. C[j] = IF q[j].fs = Local THEN C[j - 1] ELSE Append(C[j - 1], q[j])
      BY <1>6, <3>1
    <3>3. C[j - 1] = F[j - 1]
      BY <1>1, <2>2, <3>1
    <3>4. F[j] = IF q[j].fs = Local THEN F[j - 1] ELSE Append(F[j - 1], q[j])
      BY <3>1, <1>k
    <3> QED BY <3>1, <3>2, <3>3, <3>4, Zenon
  <2> HIDE DEF T
  <2>3. Nat \subseteq T
    BY <2>1, <2>2, NatInduct
  <2> QED BY <2>3, <1>1 DEF T
<1> HIDE DEF C
<1>8. g_slist_remove_all(q) = F[len]
  BY <1>1, <1>2, <1>7
<1> QED BY <1>4, <1>8 DEF len

(* It keeps the stamps, each as often as it was, and nothing else.          *)
Purged(q, r, k) ==
  /\ r \in Seq(Stamps)
  /\ \A i \in 1..Len(r) : \E j \in 1..k : r[i] = q[j] /\ q[j].fs # Local
  /\ \A j \in 1..k : q[j].fs # Local => \E i \in 1..Len(r) : r[i] = q[j]
  /\ \A i, j \in 1..Len(r) : i # j => r[i].fs # r[j].fs

LEMMA RemoveAllDoes ==
  ASSUME NEW q \in Seq(Stamps),
         \A i, j \in 1..Len(q) : i # j /\ q[i].fs # Local => q[i].fs # q[j].fs
  PROVE  Purged(q, g_slist_remove_all(q), Len(q))
<1> DEFINE len == Len(q)
<1>1. PICK F : KeptRun(F, q) /\ F[len] = g_slist_remove_all(q)
  BY RemovalRuns
<1> DEFINE T == {k \in Nat : k <= len => Purged(q, F[k], k)}
<1>2. len \in Nat /\ \A k \in 1..len : q[k] \in Stamps
  BY LenProperties, ElementOfSeq
<1>d. \A i, j \in 1..len : i # j /\ q[i].fs # Local => q[i].fs # q[j].fs
  OBVIOUS
<1>k. F \in [0..len -> Seq(Stamps)] /\ F[0] = << >>
      /\ \A k \in 1..len : F[k] = IF q[k].fs = Local THEN F[k - 1] ELSE Append(F[k - 1], q[k])
  BY <1>1 DEF KeptRun
<1> HIDE DEF len
<1>3. 0 \in T
  BY <1>k, EmptySeq DEF Purged
<1>4. ASSUME NEW k \in Nat, k \in T PROVE k + 1 \in T
  <2> SUFFICES ASSUME k + 1 <= len PROVE Purged(q, F[k + 1], k + 1)
    OBVIOUS
  <2>1. PICK j \in 1..len : j = k + 1 /\ j - 1 = k
    BY <1>2
  <2> DEFINE p == F[k]
             r == F[j]
  <2>2. Purged(q, p, k)
    BY <1>2, <1>4
  <2>3. r = IF q[j].fs = Local THEN p ELSE Append(p, q[j])
    BY <1>k, <2>1
  <2> HIDE DEF p, r
  <2>4. /\ p \in Seq(Stamps)
        /\ \A i \in 1..Len(p) : \E x \in 1..k : p[i] = q[x] /\ q[x].fs # Local
        /\ \A x \in 1..k : q[x].fs # Local => \E i \in 1..Len(p) : p[i] = q[x]
        /\ \A i, x \in 1..Len(p) : i # x => p[i].fs # p[x].fs
    BY <2>2 DEF Purged
  <2>5. /\ \A x \in 1..k : x \in 1..j /\ x \in 1..len /\ x # j
        /\ \A x \in 1..j : x \in 1..k \/ x = j
        /\ j \in 1..j
    BY <1>2, <2>1
  <2>6. CASE q[j].fs = Local
    <3>1. r = p
      BY <2>3, <2>6
    <3> QED BY <2>1, <2>4, <2>5, <2>6, <3>1 DEF Purged, r
  <2>7. CASE q[j].fs # Local
    <3>1. r = Append(p, q[j]) /\ q[j] \in Stamps /\ Len(p) \in Nat
      BY <1>2, <2>3, <2>4, <2>7, LenProperties
    <3>2. r \in Seq(Stamps) /\ Len(r) = Len(p) + 1 /\ r[Len(p) + 1] = q[j]
          /\ \A i \in 1..Len(p) : r[i] = p[i]
      BY <2>4, <3>1, AppendProperties
    <3>3. \A i \in 1..Len(r) : i \in 1..Len(p) \/ i = Len(p) + 1
      BY <3>1, <3>2
    <3>4. \A i \in 1..Len(p) : i \in 1..Len(r)
      BY <3>1, <3>2
    <3>5. Len(p) + 1 \in 1..Len(r)
      BY <3>1, <3>2
    <3>6. \A i \in 1..Len(r) : \E x \in 1..j : r[i] = q[x] /\ q[x].fs # Local
      <4> TAKE i \in 1..Len(r)
      <4>1. CASE i \in 1..Len(p)
        <5>1. PICK x \in 1..k : p[i] = q[x] /\ q[x].fs # Local
          BY <2>4, <4>1
        <5>2. x \in 1..j /\ r[i] = q[x]
          BY <2>5, <3>2, <4>1, <5>1
        <5> QED BY <5>1, <5>2
      <4>2. CASE i = Len(p) + 1
        BY <2>5, <2>7, <3>2, <4>2
      <4> QED BY <3>3, <4>1, <4>2
    <3>7. \A x \in 1..j : q[x].fs # Local => \E i \in 1..Len(r) : r[i] = q[x]
      <4> SUFFICES ASSUME NEW x \in 1..j, q[x].fs # Local PROVE \E i \in 1..Len(r) : r[i] = q[x]
        OBVIOUS
      <4>1. CASE x \in 1..k
        <5>1. PICK i \in 1..Len(p) : p[i] = q[x]
          BY <2>4, <4>1
        <5>2. i \in 1..Len(r) /\ r[i] = q[x]
          BY <3>2, <3>4, <5>1
        <5> QED BY <5>2
      <4>2. CASE x = j
        BY <3>2, <3>5, <4>2
      <4> QED BY <2>5, <4>1, <4>2
    <3>8. \A i \in 1..Len(p) : p[i].fs # q[j].fs
      <4> TAKE i \in 1..Len(p)
      <4>1. PICK x \in 1..k : p[i] = q[x]
        BY <2>4
      <4>2. x \in 1..len /\ x # j
        BY <2>5
      <4>3. q[j].fs # q[x].fs
        BY <1>d, <2>1, <2>7, <4>2
      <4> QED BY <4>1, <4>3
    <3>9. \A i, x \in 1..Len(r) : i # x => r[i].fs # r[x].fs
      <4> SUFFICES ASSUME NEW i \in 1..Len(r), NEW x \in 1..Len(r), i # x PROVE r[i].fs # r[x].fs
        OBVIOUS
      <4>1. CASE i \in 1..Len(p) /\ x \in 1..Len(p)
        BY ZenonT(60), <2>4, <3>2, <4>1
      <4>2. CASE i = Len(p) + 1
        BY <3>2, <3>3, <3>8, <4>2
      <4>3. CASE x = Len(p) + 1
        BY <3>2, <3>3, <3>8, <4>3
      <4> QED BY <3>3, <4>1, <4>2, <4>3
    <3> QED BY <2>1, <3>2, <3>6, <3>7, <3>9 DEF Purged, r
  <2> QED BY <2>6, <2>7
<1> HIDE DEF T
<1>5. Nat \subseteq T
  BY <1>3, <1>4, NatInduct
<1>6. Purged(q, F[len], len)
  <2>1. len \in T
    BY <1>2, <1>5
  <2> QED BY <2>1, <1>2 DEF T
<1> QED BY <1>1, <1>6 DEF len

-----------------------------------------------------------------------------
(* While a list is walked.                                                  *)
Walked(s, here, at, K) ==
  /\ Neat(s, {}) /\ Cared(s, here, at, K) /\ s.at >= 1
  /\ Len(s.stamps) <= Cardinality(Archives)

(* Another list in the place of the one of s.                               *)
Replaced(s, t, q, x) ==
  /\ SameButStamps(s, t) /\ t.stamps = q /\ t.at = x

(* It may hold the same stamps in another order, and links that are NULL    *)
(* behind the walk.                                                         *)
LEMMA ReplacedDoes ==
  ASSUME NEW s, Neat(s, {}), NEW q \in Seq(Stamps), NEW x \in Nat, NEW t, Replaced(s, t, q, x),
         \A g \in Archives : (\E i \in 1..Len(q) : q[i].fs = g) <=> Has(s, g),
         \A i, j \in 1..Len(q) : i # j /\ q[i].fs # Local => q[i].fs # q[j].fs,
         \A i \in 1..Len(q) : q[i].fs = Local => i < x,
         NEW here, NEW at, NEW K, Cared(s, here, at, K)
  PROVE  Neat(t, {}) /\ Cared(t, here, at, K) /\ t.at = x /\ t.stamps = q
<1>1. Counts(t) /\ t.live = s.live /\ t.fd = s.fd /\ t.stamps = q /\ t.at = x
  BY SameCounts DEF Replaced, SameButStamps, Neat, Listed
<1>2. Distinct(t) /\ Behind(t)
  BY <1>1 DEF Distinct, Behind
<1>3. \A g \in Archives : Has(t, g) <=> Has(s, g)
  BY <1>1 DEF Has
<1>4. Neat(t, {})
  BY <1>1, <1>2, <1>3 DEF Neat, Listed
<1>5. K \subseteq Archives
  BY DEF Cared, Neat
<1>6. Cared(t, here, at, K)
  BY <1>1, <1>3, <1>5 DEF Cared, Busy
<1> QED BY <1>1, <1>4, <1>6

(* The timer begins at the first stamp,                                     *)
LEMMA TimerStarts ==
  ASSUME NEW s, NEW here, NEW at, NEW K, Resting(s, here, at, K)
  PROVE  Walked([s EXCEPT !.at = 1], here, at, K)
<1> DEFINE t == [s EXCEPT !.at = 1]
           q == s.stamps
<1>1. Listed(s) /\ Counts(s) /\ q \in Seq(Stamps) /\ ~Has(s, Local)
  BY NoneNull DEF Resting, Neat, Listed
<1>2. Replaced(s, t, q, 1)
  BY <1>1 DEF Replaced, SameButStamps, Counts
<1>3. /\ \A g \in Archives : (\E i \in 1..Len(q) : q[i].fs = g) <=> Has(s, g)
      /\ \A i, j \in 1..Len(q) : i # j /\ q[i].fs # Local => q[i].fs # q[j].fs
      /\ \A i \in 1..Len(q) : q[i].fs = Local => i < 1
  BY <1>1 DEF Has, Listed, Distinct
<1>4. Len(q) <= Cardinality(Archives)
  BY <1>1, LenBound
<1> HIDE DEF t, q
<1>5. Neat(t, {}) /\ Cared(t, here, at, K) /\ t.at = 1 /\ t.stamps = q
  <2>1. Neat(s, {}) /\ Cared(s, here, at, K) /\ 1 \in Nat
    BY DEF Resting
  <2> QED BY <1>1, <1>2, <1>3, <2>1, ReplacedDoes
<1> QED BY <1>4, <1>5 DEF Walked, t

(* "Free VFSs now" at the last.                                             *)
LEMMA FreeStarts ==
  ASSUME NEW s, NEW here, NEW at, NEW K, Resting(s, here, at, K)
  PROVE  Walked([Reversed(s) EXCEPT !.at = 1], here, at, K)
<1> DEFINE len == Len(s.stamps)
           q == [i \in DOMAIN s.stamps |-> s.stamps[len + 1 - i]]
           t == [Reversed(s) EXCEPT !.at = 1]
<1>1. Listed(s) /\ Counts(s) /\ s.stamps \in Seq(Stamps) /\ ~Has(s, Local) /\ Distinct(s)
  BY NoneNull DEF Resting, Neat, Listed
<1>2. len \in Nat /\ DOMAIN s.stamps = 1..len /\ \A i \in 1..len : s.stamps[i] \in Stamps
  BY <1>1, LenProperties, ElementOfSeq
<1>r. Reversed(s) = [s EXCEPT !.stamps = q]
  BY DEF Reversed
<1>d. /\ \A i, j \in 1..len : i # j /\ s.stamps[i].fs # Local => s.stamps[i].fs # s.stamps[j].fs
      /\ \A i \in 1..len : s.stamps[i].fs # Local
      /\ \A g : Has(s, g) <=> \E i \in 1..len : s.stamps[i].fs = g
  BY <1>1 DEF Distinct, Has
<1> HIDE DEF len
<1> DEFINE m(i) == len + 1 - i
<1>3. /\ \A i \in 1..len : m(i) \in 1..len /\ m(m(i)) = i
      /\ \A i, j \in 1..len : i # j => m(i) # m(j)
  BY <1>2
<1>q. q = [i \in 1..len |-> s.stamps[m(i)]]
  BY <1>2
<1> HIDE DEF q, m
<1>4. q \in Seq(Stamps) /\ Len(q) = len /\ \A i \in 1..len : q[i] = s.stamps[m(i)]
  <2>1. q \in [1..len -> Stamps]
    BY <1>2, <1>3, <1>q
  <2>2. q \in Seq(Stamps)
    BY <1>2, <2>1
  <2>3. Len(q) = len
    BY <1>2, <2>1, <2>2, LenProperties
  <2> QED BY <1>q, <2>2, <2>3
<1>5. Replaced(s, t, q, 1)
  BY <1>1, <1>r DEF Replaced, SameButStamps, Counts
<1> HIDE DEF t
<1>6. \A g \in Archives : (\E i \in 1..Len(q) : q[i].fs = g) <=> Has(s, g)
  <2> SUFFICES ASSUME NEW g \in Archives PROVE (\E i \in 1..len : q[i].fs = g) <=> Has(s, g)
    BY <1>4
  <2>1. ASSUME NEW i \in 1..len, q[i].fs = g PROVE Has(s, g)
    <3>1. s.stamps[m(i)].fs = g /\ m(i) \in 1..len
      BY <1>3, <1>4, <2>1
    <3> QED BY <1>d, <3>1
  <2>2. ASSUME Has(s, g) PROVE \E i \in 1..len : q[i].fs = g
    <3>1. PICK i \in 1..len : s.stamps[i].fs = g
      BY <1>d, <2>2
    <3>2. m(i) \in 1..len /\ q[m(i)].fs = g
      BY <1>3, <1>4, <3>1
    <3> QED BY <3>2
  <2> QED BY <2>1, <2>2
<1>7. \A i, j \in 1..Len(q) : i # j /\ q[i].fs # Local => q[i].fs # q[j].fs
  <2> SUFFICES ASSUME NEW i \in 1..len, NEW j \in 1..len, i # j PROVE q[i].fs # q[j].fs
    BY <1>4
  <2>1. m(i) # m(j) /\ m(i) \in 1..len /\ m(j) \in 1..len
    BY <1>3
  <2>2. s.stamps[m(i)].fs # s.stamps[m(j)].fs
    BY <1>d, <2>1
  <2> QED BY <1>4, <2>2
<1>8. \A i \in 1..Len(q) : q[i].fs = Local => i < 1
  BY <1>3, <1>4, <1>d
<1>9. Len(q) <= Cardinality(Archives)
  BY <1>1, <1>4, LenBound DEF len
<1>10. Neat(t, {}) /\ Cared(t, here, at, K) /\ t.at = 1 /\ t.stamps = q
  <2>1. Neat(s, {}) /\ Cared(s, here, at, K) /\ 1 \in Nat
    BY DEF Resting
  <2> QED BY <1>4, <1>5, <1>6, <1>7, <1>8, <2>1, ReplacedDoes
<1> QED BY <1>9, <1>10 DEF Walked, t

(* A turn that frees nothing.                                               *)
LEMMA WalkOn ==
  ASSUME NEW s, NEW here, NEW at, NEW K, Walked(s, here, at, K), NEW t, SameButStamps(s, t),
         t.at = s.at + 1, t.stamps \in Seq(Stamps), Len(t.stamps) = Len(s.stamps),
         \A i \in 1..Len(s.stamps) : t.stamps[i].fs = s.stamps[i].fs
  PROVE  Walked(t, here, at, K)
<1>1. Listed(s) /\ s.at \in Nat /\ Neat(s, {}) /\ Cared(s, here, at, K)
  BY DEF Walked, Neat, Listed
<1> DEFINE q == t.stamps
           x == t.at
<1>2. x \in Nat /\ x >= 1 /\ \A i \in Nat : i < s.at => i < x
  BY <1>1
<1>3. Replaced(s, t, q, x)
  BY DEF Replaced
<1>4. q \in Seq(Stamps) /\ Len(q) = Len(s.stamps) /\ \A i \in 1..Len(q) : q[i].fs = s.stamps[i].fs
  OBVIOUS
<1> HIDE DEF q, x
<1>5. \A g \in Archives : (\E i \in 1..Len(q) : q[i].fs = g) <=> Has(s, g)
  BY <1>4 DEF Has
<1>6. \A i, j \in 1..Len(q) : i # j /\ q[i].fs # Local => q[i].fs # q[j].fs
  BY <1>1, <1>4 DEF Listed, Distinct
<1>7. \A i \in 1..Len(q) : q[i].fs = Local => i < x
  BY <1>1, <1>2, <1>4 DEF Listed, Behind
<1>8. Neat(t, {}) /\ Cared(t, here, at, K) /\ t.at = x /\ t.stamps = q
  BY SMTT(60), <1>1, <1>2, <1>3, <1>4, <1>5, <1>6, <1>7, ReplacedDoes
<1> QED BY <1>2, <1>4, <1>8 DEF Walked

(* One that freed c: the link becomes NULL.                                 *)
LEMMA WalkFreed ==
  ASSUME NEW c \in Archives, NEW r, NEW s, NEW here, NEW at, NEW K, Freed(r, s, c, here, at, K)
  PROVE  Walked([s EXCEPT !.stamps[s.at] = Nulled, !.at = @ + 1], here, at, K \ {c})
<1> DEFINE q == [s.stamps EXCEPT ![s.at] = Nulled]
           t == [s EXCEPT !.stamps[s.at] = Nulled, !.at = @ + 1]
           J == K \ {c}
<1>1. Neat(s, {c}) /\ Listed(s) /\ Counts(s) /\ s.at \in 1..Len(s.stamps) /\ s.stamps[s.at].fs = c
      /\ c \notin s.live /\ s.stamps \in Seq(Stamps) /\ Len(s.stamps) \in Nat /\ s.at \in Nat
      /\ Cared(s, here, at, J)
  BY LenProperties DEF Freed, Neat, Listed, WalkAt
<1>2. t.stamps = q /\ t.at = s.at + 1 /\ t.live = s.live /\ t.fd = s.fd /\ Counts(t)
  BY <1>1 DEF Counts
<1> HIDE DEF t
<1>3. Nulled \in Stamps /\ Nulled.fs = Local
  BY DEF Nulled, Stamps, Places
<1>4. q \in Seq(Stamps) /\ Len(q) = Len(s.stamps)
      /\ \A i \in 1..Len(s.stamps) : q[i] = IF i = s.at THEN Nulled ELSE s.stamps[i]
  BY <1>1, <1>3, ExceptSeq
<1> HIDE DEF q
<1>5. c # Local
  BY LocalAssumption
<1>d. /\ \A i, j \in 1..Len(s.stamps) : i # j /\ s.stamps[i].fs # Local => s.stamps[i].fs # s.stamps[j].fs
      /\ \A i \in 1..Len(s.stamps) : s.stamps[i].fs = Local => i < s.at
  BY <1>1 DEF Listed, Distinct, Behind
<1>6. Distinct(t)
  <2> SUFFICES ASSUME NEW i \in 1..Len(s.stamps), NEW j \in 1..Len(s.stamps), i # j, q[i].fs # Local
               PROVE  q[i].fs # q[j].fs
    BY <1>2, <1>4 DEF Distinct
  <2> QED BY <1>3, <1>4, <1>d
<1>7. Behind(t)
  <2>1. \A i \in 1..Len(s.stamps) : q[i].fs = Local => i < s.at + 1
    <3> SUFFICES ASSUME NEW i \in 1..Len(s.stamps), q[i].fs = Local PROVE i < s.at + 1
      OBVIOUS
    <3>1. i = s.at \/ i < s.at
      BY <1>4, <1>d
    <3> QED BY <1>1, <3>1
  <2> QED BY <1>2, <1>4, <2>1 DEF Behind
<1>8. \A g \in Archives : Has(t, g) <=> Has(s, g) /\ g # c
  <2> SUFFICES ASSUME NEW g \in Archives PROVE Has(t, g) <=> Has(s, g) /\ g # c
    OBVIOUS
  <2>1. ASSUME NEW i \in 1..Len(s.stamps), q[i].fs = g PROVE s.stamps[i].fs = g /\ g # c
    BY <1>1, <1>3, <1>4, <1>5, <1>d, <2>1, LocalAssumption
  <2>2. ASSUME NEW i \in 1..Len(s.stamps), s.stamps[i].fs = g, g # c PROVE q[i].fs = g
    BY <1>1, <1>4, <2>2
  <2> QED BY <1>2, <1>4, <2>1, <2>2 DEF Has
<1>9. Neat(t, {})
  BY <1>1, <1>2, <1>4, <1>6, <1>7, <1>8 DEF Neat, Listed
<1>10. Cared(t, here, at, J)
  <2> SUFFICES ASSUME NEW g \in J PROVE g \in t.live /\ (Busy(t, g, here, at) \/ Has(t, g))
    BY DEF Cared
  <2>1. g \in s.live /\ (Busy(s, g, here, at) \/ Has(s, g)) /\ g \in Archives /\ g # c
    BY <1>1 DEF Cared, Neat
  <2> QED BY <1>2, <1>8, <2>1 DEF Busy
<1>11. Len(t.stamps) <= Cardinality(Archives) /\ t.at >= 1
  BY <1>1, <1>2, <1>4 DEF Freed
<1> QED BY <1>9, <1>10, <1>11 DEF Walked, t

(* The NULL links go.                                                       *)
LEMMA WalkEnds ==
  ASSUME NEW s, NEW here, NEW at, NEW K, Walked(s, here, at, K)
  PROVE  Resting([s EXCEPT !.stamps = g_slist_remove_all(@), !.at = 0], here, at, K)
<1> DEFINE q == s.stamps
           r == g_slist_remove_all(q)
           t == [s EXCEPT !.stamps = r, !.at = 0]
<1>1. Neat(s, {}) /\ Listed(s) /\ Counts(s) /\ Cared(s, here, at, K) /\ q \in Seq(Stamps)
  BY DEF Walked, Neat, Listed
<1>2. Purged(q, r, Len(q))
  <2>1. \A i, j \in 1..Len(q) : i # j /\ q[i].fs # Local => q[i].fs # q[j].fs
    BY <1>1 DEF Listed, Distinct
  <2> HIDE DEF q
  <2> QED BY <1>1, <2>1, RemoveAllDoes
<1> HIDE DEF r
<1>3. Replaced(s, t, r, 0)
  BY <1>1 DEF Replaced, SameButStamps, Counts
<1>p. /\ r \in Seq(Stamps)
      /\ \A i \in 1..Len(r) : \E j \in 1..Len(q) : r[i] = q[j] /\ q[j].fs # Local
      /\ \A j \in 1..Len(q) : q[j].fs # Local => \E i \in 1..Len(r) : r[i] = q[j]
      /\ \A i, j \in 1..Len(r) : i # j => r[i].fs # r[j].fs
  BY <1>2 DEF Purged
<1>h. t = [s EXCEPT !.stamps = g_slist_remove_all(@), !.at = 0]
  BY DEF r
<1> HIDE DEF t
<1>4. \A g \in Archives : (\E i \in 1..Len(r) : r[i].fs = g) <=> Has(s, g)
  <2> SUFFICES ASSUME NEW g \in Archives PROVE (\E i \in 1..Len(r) : r[i].fs = g) <=> Has(s, g)
    OBVIOUS
  <2>1. g # Local
    BY LocalAssumption
  <2>2. ASSUME NEW i \in 1..Len(r), r[i].fs = g PROVE Has(s, g)
    BY <1>p, <2>2 DEF Has
  <2>3. ASSUME Has(s, g) PROVE \E i \in 1..Len(r) : r[i].fs = g
    <3>1. PICK j \in 1..Len(q) : q[j].fs = g
      BY <2>3 DEF Has
    <3>2. PICK i \in 1..Len(r) : r[i] = q[j]
      BY <1>p, <2>1, <3>1
    <3> QED BY <3>1, <3>2
  <2> QED BY <2>2, <2>3
<1>5. \A i, j \in 1..Len(r) : i # j /\ r[i].fs # Local => r[i].fs # r[j].fs
  BY <1>p
<1>6. \A i \in 1..Len(r) : r[i].fs = Local => i < 0
  BY <1>p
<1>7. Neat(t, {}) /\ Cared(t, here, at, K) /\ t.at = 0 /\ t.stamps = r
  <2>1. 0 \in Nat /\ r \in Seq(Stamps) /\ Neat(s, {}) /\ Cared(s, here, at, K)
    BY <1>1, <1>p
  <2> HIDE DEF q
  <2> QED BY <1>3, <1>4, <1>5, <1>6, <2>1, ReplacedDoes
<1>8. Resting(t, here, at, K)
  BY <1>7 DEF Resting
<1> QED BY <1>8, <1>h

-----------------------------------------------------------------------------
(* An archive of which a user holds a file open is there.                   *)
UsedLive(s, u) == \A f \in Archives : u[f] > 0 => f \in s.live

(* While a panel is not a listing, no stamp is made, but what has none is   *)
(* forgotten.                                                               *)
Excused == ~Listings /\ expiring = "no" => \A f \in seen : InUse(f) \/ Stamped(f)

StInv ==
  /\ VsInv /\ UsedLive(vfs, used) /\ Excused
  /\ expiring = "no" => Resting(vfs, cwd, panel, seen)
  /\ expiring \in {"timer", "now"} => Walked(vfs, cwd, panel, seen)

(* What was in use is remembered as long as it is open.                     *)
LEMMA RememberDoes ==
  ASSUME Remember, NEW J, seen \cap vfs'.live \subseteq J, Cared(vfs', cwd', panel', J)
  PROVE  Cared(vfs', cwd', panel', seen')
<1>1. \A f \in Archives : InUse(f)' => f \in vfs'.live /\ Busy(vfs', f, cwd', panel')
  BY DEF InUse, Busy
<1>2. \A f \in seen' : f \in J \/ (f \in Archives /\ InUse(f)')
  BY DEF Remember
<1> QED BY <1>1, <1>2 DEF Cared

(* While a panel is not a listing, those are that have a stamp.             *)
LEMMA RememberExcused ==
  ASSUME Remember, ~Listings
  PROVE  \A f \in seen' : InUse(f)' \/ (f \in seen \cap vfs'.live /\ Stamped(f)')
BY DEF Remember

(* So when no list is walked, and when one is.                              *)
LEMMA RememberResting ==
  ASSUME Remember, NEW J, seen \cap vfs'.live \subseteq J, Resting(vfs', cwd', panel', J)
  PROVE  Resting(vfs', cwd', panel', seen')
BY RememberDoes DEF Resting

LEMMA RememberWalked ==
  ASSUME Remember, NEW J, seen \cap vfs'.live \subseteq J, Walked(vfs', cwd', panel', J)
  PROVE  Walked(vfs', cwd', panel', seen')
BY RememberDoes DEF Walked

(* mc_chdir: the archive left is cared for.                                 *)
LEMMA ChdirRests ==
  ASSUME NEW u \in [Archives -> Nat], NEW s, Kept(s, u), NEW from \in Places, NEW to \in Places, NEW at,
         NEW K, Resting(s, from, at, K)
  PROVE  Resting(mc_chdir(s, from, to, at), to, at, K)
<1> DEFINE r == Reached(s, from, to, at)
<1>1. Resting(r, from, at, K)
  BY GetPathRests DEF Reached, Places
<1>2. mc_chdir(s, from, to, at) = vfs_stamp_create(Asked(r, from), vfs_getid(r, from), to, at)
  BY DEF mc_chdir
<1> HIDE DEF r
<1>3. \A g \in K : g # from /\ Busy(r, g, from, at) => Busy(r, g, to, at)
  BY DEF Busy
<1>4. Resting(vfs_stamp_create(Asked(r, from), vfs_getid(r, from), to, at), to, at, K)
  BY <1>1, <1>3, LeaveRests
<1> QED BY <1>2, <1>4

(* Archives are only freed by vfs_expire.                                   *)
LEMMA PathLives ==
  ASSUME NEW s, Counts(s), NEW f \in Archives, NEW here, NEW at
  PROVE  s.live \subseteq extfs_get_path(s, f, here, at).live
<1> DEFINE t == extfs_get_path(s, f, here, at)
<1>1. CASE f \in s.live \/ Within[f] = Local
  <2>1. t = Live(s, f)
    BY <1>1 DEF extfs_get_path
  <2>2. Moved(s, Live(s, f), f, 0)
    BY LiveDoes
  <2> QED BY <2>1, <2>2 DEF Moved
<1>2. CASE f \notin s.live /\ Within[f] # Local
  <2> DEFINE o == Within[f]
             a == Live(s, o)
             g == extfs_getlocalcopy(a, o, here, at)
  <2>1. t = [g EXCEPT !.live = @ \cup {f}, !.copy = @ \cup {f}]
    BY <1>2 DEF extfs_get_path
  <2>2. Moved(s, a, o, 0) /\ Counts(a)
    BY LiveDoes DEF Moved
  <2> HIDE DEF a
  <2>3. Moved(a, g, o, 1)
    BY <2>2, GetLocalCopyDoes
  <2> HIDE DEF g
  <2>4. t.live = g.live \cup {f}
    BY <2>1, <2>3 DEF Moved, Counts
  <2> QED BY <2>2, <2>3, <2>4 DEF Moved
<1> QED BY <1>1, <1>2

(* mc_chdir frees none.                                                     *)
LEMMA ChdirLives ==
  ASSUME NEW u \in [Archives -> Nat], NEW s, Kept(s, u), NEW from, NEW to \in Places, NEW at
  PROVE  s.live \subseteq mc_chdir(s, from, to, at).live
<1> DEFINE r == Reached(s, from, to, at)
           a == Asked(r, from)
           t == vfs_stamp_create(a, vfs_getid(r, from), to, at)
<1>1. s.live \subseteq r.live
  BY PathLives DEF Reached, Places, Kept, Counted
<1>2. Counts(r)
  BY GetPathDoes DEF Reached, Places, Kept, Counted
<1>3. mc_chdir(s, from, to, at) = t
  BY DEF mc_chdir
<1> HIDE DEF r
<1>4. SameButStamps(r, a) /\ Counts(a)
  BY <1>2, StampingDoes, SameCounts
<1> HIDE DEF a
<1>5. SameButStamps(a, t)
  BY <1>4, StampCreateDoes
<1> HIDE DEF t
<1> QED BY <1>1, <1>3, <1>4, <1>5 DEF SameButStamps

(* At first nothing is open, and there is no stamp.                         *)
LEMMA StStarts == VsInit => StInv
<1> SUFFICES ASSUME VsInit PROVE StInv
  OBVIOUS
<1>1. vfs = [live |-> {}, fd |-> [f \in Archives |-> 0], copy |-> {}, stamps |-> << >>, at |-> 0]
      /\ used = [f \in Archives |-> 0] /\ seen = {} /\ cwd = Local /\ expiring = "no"
  BY DEF VsInit
<1>2. VsInv
  BY VsStarts
<1>3. Listed(vfs)
  <2>1. Counts(vfs)
    BY <1>2 DEF VsInv, Kept, Counted
  <2>2. vfs.stamps = << >> /\ vfs.at = 0 /\ Len(vfs.stamps) = 0
    BY <1>1
  <2> QED BY <2>1, <2>2, EmptySeq DEF Listed, Distinct, Behind
<1>4. Neat(vfs, {})
  <2>1. \A g : ~Has(vfs, g)
    BY <1>1 DEF Has
  <2>2. vfs.live = {}
    BY <1>1
  <2> QED BY <1>3, <2>1, <2>2 DEF Neat
<1>5. Resting(vfs, cwd, panel, seen)
  <2>1. vfs.at = 0
    BY <1>1
  <2> QED BY <1>1, <1>4, <2>1 DEF Resting, Cared
<1>6. UsedLive(vfs, used)
  BY <1>1 DEF UsedLive
<1> QED BY <1>1, <1>2, <1>5, <1>6 DEF StInv, Excused

(* Every step cares for the archives.                                       *)
LEMMA StStep ==
  ASSUME StInv, VsNext
  PROVE  StInv'
<1>0. /\ VsInv' /\ VsInv /\ cwd \in Places /\ UsedLive(vfs, used) /\ Excused
      /\ panel \in [Panels -> Places \cup {NoListing}] /\ used \in [Archives -> Nat] /\ Kept(vfs, used) /\ Counts(vfs)
      /\ expiring \in {"no", "timer", "now", "quit"}
      /\ expiring \in {"now", "quit"} => NoFileOpen
      /\ expiring = "no" => Resting(vfs, cwd, panel, seen)
      /\ expiring \in {"timer", "now"} => Walked(vfs, cwd, panel, seen)
  BY VsStep DEF StInv, VsInv, Kept, Counted
(* A panel that makes way for another view is not the only one.             *)
<1>x. ASSUME Remember, ~Listings' => ~Listings PROVE Excused'
  <2>1. ASSUME ~Listings' PROVE \A f \in seen' : InUse(f)' \/ Stamped(f)'
    BY <1>x, <2>1, RememberExcused
  <2> QED BY <2>1 DEF Excused
(* What is left to show when nothing is walked before or after.             *)
<1>q. ASSUME NEW J, Remember, Resting(vfs', cwd', panel', J), seen \cap vfs'.live \subseteq J,
             UNCHANGED expiring, expiring = "no", UNCHANGED panel \/ Excused', UsedLive(vfs', used')
      PROVE  StInv'
  <2>1. Resting(vfs', cwd', panel', seen')
    BY <1>q, RememberResting
  <2>2. Excused'
    BY <1>q, <1>x DEF Listings
  <2> QED BY <1>0, <1>q, <2>1, <2>2 DEF StInv
<1>1. ASSUME NEW p \in Panels, NEW f \in Places, panel_do_cd_int(p, f)
      PROVE  StInv'
  <2> DEFINE s == mc_chdir(vfs, cwd, f, panel)
             y == panel[p]
             now == [panel EXCEPT ![p] = f]
             t == vfs_stamp_create(Asked(s, y), vfs_getid(s, y), f, now)
  <2>1. expiring = "no" /\ vfs' = t /\ panel' = now /\ cwd' = f /\ UNCHANGED <<used, expiring>> /\ Remember
    BY <1>1 DEF panel_do_cd_int
  <2>r. panel[p] \in Places /\ expiring = "no" /\ Resting(vfs, cwd, panel, seen)
    BY <1>0, <1>1 DEF panel_do_cd_int
  <2>2. Resting(s, f, panel, seen)
    BY <1>0, <2>r, ChdirRests
  <2>x. Excused'
    <3>1. NoListing # f
      BY LocalAssumption DEF Places
    <3>2. ~Listings' => ~Listings
      BY <1>0, <2>1, <3>1 DEF Listings
    <3> QED BY <1>x, <2>1, <3>2
  <2>3. vfs.live \subseteq s.live /\ Counts(s)
    BY <1>0, ChdirLives, ChdirDoes DEF Kept, Counted
  <2> HIDE DEF s
  <2>4. \A g \in seen : g # y /\ Busy(s, g, f, panel) => Busy(s, g, f, now)
    <3>1. NoListing # y
      BY <2>r, LocalAssumption DEF Places
    <3> QED BY <1>0, <3>1 DEF Busy
  <2>5. y \in Places
    BY <2>r
  <2> HIDE DEF y, now
  <2>6. Resting(t, f, now, seen)
    BY <2>2, <2>4, <2>5, LeaveRests
  <2>7. t.live = s.live
    <3>1. SameButStamps(s, Asked(s, y)) /\ Counts(Asked(s, y))
      BY <2>3, StampingDoes, SameCounts
    <3>2. SameButStamps(Asked(s, y), t)
      BY <3>1, StampCreateDoes
    <3> QED BY <3>1, <3>2 DEF SameButStamps
  <2> HIDE DEF t
  <2>8. UsedLive(vfs', used')
    BY <1>0, <2>1, <2>3, <2>7 DEF UsedLive
  <2>9. Resting(vfs', cwd', panel', seen) /\ seen \cap vfs'.live \subseteq seen
    BY <2>1, <2>6
  <2> QED BY <1>q, <2>1, <2>8, <2>9, <2>x
<1>2. ASSUME NEW p \in Panels, panel_focus(p)
      PROVE  StInv'
  <2> DEFINE f == panel[p]
             t == mc_chdir(vfs, cwd, f, panel)
  <2>1. expiring = "no" /\ vfs' = t /\ cwd' = f /\ UNCHANGED <<panel, used, expiring>> /\ Remember
    BY <1>2 DEF panel_focus
  <2>2. f \in Places /\ Resting(vfs, cwd, panel, seen)
    BY <1>0, <1>2, <2>1 DEF panel_focus
  <2> HIDE DEF f
  <2>3. Resting(t, f, panel, seen) /\ vfs.live \subseteq t.live
    BY <1>0, <2>2, ChdirRests, ChdirLives
  <2> HIDE DEF t
  <2>4. UsedLive(vfs', used')
    BY <1>0, <2>1, <2>3 DEF UsedLive
  <2>5. Resting(vfs', cwd', panel', seen) /\ seen \cap vfs'.live \subseteq seen
    BY <2>1, <2>3
  <2> QED BY <1>q, <2>1, <2>4, <2>5
<1>3. ASSUME NEW p \in Panels, panel_destroy(p)
      PROVE  StInv'
  <2> DEFINE y == panel[p]
             a == Asked(vfs, y)
             f == vfs_getid(vfs, y)
             t == vfs_addstamp(a, f)
             now == [panel EXCEPT ![p] = NoListing]
  <2>1. expiring = "no" /\ vfs' = t /\ panel' = now /\ UNCHANGED <<cwd, used, expiring>> /\ Remember
    BY <1>3 DEF panel_destroy
  <2>2. Resting(vfs, cwd, panel, seen) /\ Listed(vfs) /\ vfs.live \subseteq Archives
    BY <1>0, <2>1 DEF Resting, Neat
  <2>l. Listings
    BY <1>3 DEF panel_destroy
  <2>o. \A g \in Archives : Busy(vfs, g, cwd, panel) =>
          g = y \/ (g \in vfs.live /\ (vfs.fd[g] > 0 \/ cwd = g \/ \E q \in Panels : now[q] = g))
    BY <1>0, <2>l DEF Busy, Listings
  <2>3. f = (IF y \in vfs.live THEN y ELSE Local) /\ f \in Places
    BY <2>2 DEF vfs_getid, Places
  <2>4. \A g \in Archives : g # y /\ Busy(vfs, g, cwd, panel) => Busy(vfs, g, cwd, now)
    BY <1>0 DEF Busy
  <2>5. SameNames(vfs, a)
    BY <2>2, StampDoes
  <2> HIDE DEF y, now, a, f
  <2>6. Listed(a) /\ (\A g : Has(a, g) <=> Has(vfs, g)) /\ a.at = 0 /\ SameButStamps(vfs, a)
    BY <2>2, <2>5, NamesDo DEF SameNames, Resting
  <2>7. Put(a, t, f)
    <3>1. ~Has(a, Local)
      BY <2>6, NoneNull
    <3> QED BY <2>3, <2>6, <3>1, AddDoes
  <2> HIDE DEF t
  <2>8. Listed(t) /\ t.at = 0 /\ t.live = vfs.live /\ t.fd = vfs.fd
        /\ \A g : Has(t, g) <=> Has(vfs, g) \/ (f # Local /\ g = f)
    BY <2>6, <2>7 DEF Put, SameButStamps
  <2>9. Neat(t, {})
    BY <2>2, <2>3, <2>8 DEF Resting, Neat
  <2>10. Cared(t, cwd, now, seen)
    <3> SUFFICES ASSUME NEW g \in seen PROVE g \in t.live /\ (Busy(t, g, cwd, now) \/ Has(t, g))
      BY DEF Cared
    <3>1. g \in vfs.live /\ (Busy(vfs, g, cwd, panel) \/ Has(vfs, g)) /\ g \in Archives /\ g # Local
      BY <2>2, LocalAssumption DEF Resting, Cared
    <3>2. Busy(vfs, g, cwd, now) => Busy(t, g, cwd, now)
      BY <2>8 DEF Busy
    <3> QED BY <2>3, <2>4, <2>8, <3>1, <3>2
  <2>x. Excused'
    <3>1. ASSUME NEW g \in seen', ~InUse(g)' PROVE Stamped(g)'
      <4>1. g \in seen /\ g \in vfs.live /\ g \in Archives /\ g # Local
            /\ (Busy(vfs, g, cwd, panel) \/ Has(vfs, g))
        BY <2>1, <2>2, <3>1, LocalAssumption DEF Remember, Resting, Cared
      <4>2. Has(t, g)
        <5>1. CASE Has(vfs, g)
          BY <2>8, <5>1
        <5>2. CASE Busy(vfs, g, cwd, panel)
          <6>1. g = y
            BY <2>1, <2>8, <2>o, <3>1, <4>1, <5>2 DEF InUse
          <6> QED BY <2>3, <2>8, <4>1, <6>1
        <5> QED BY <4>1, <5>1, <5>2
      <4> QED BY <2>1, <4>2 DEF Stamped, Has
    <3> QED BY <3>1 DEF Excused
  <2>11. Resting(t, cwd, now, seen)
    BY <2>8, <2>9, <2>10 DEF Resting
  <2>12. UsedLive(vfs', used')
    BY <1>0, <2>1, <2>8 DEF UsedLive
  <2>13. Resting(vfs', cwd', panel', seen) /\ seen \cap vfs'.live \subseteq seen
    BY <2>1, <2>11
  <2> QED BY <1>q, <2>1, <2>12, <2>13, <2>x
<1>4. ASSUME NEW f \in Archives, stat(f)
      PROVE  StInv'
  <2> DEFINE t == extfs_get_path(vfs, f, cwd, panel)
  <2>1. expiring = "no" /\ vfs' = t /\ UNCHANGED <<cwd, panel, used, expiring>> /\ Remember
    BY <1>4 DEF stat
  <2>2. Resting(t, cwd, panel, seen)
    BY <1>0, <2>1, GetPathRests
  <2>3. vfs.live \subseteq t.live
    BY <1>0, PathLives
  <2> HIDE DEF t
  <2>4. UsedLive(vfs', used')
    BY <1>0, <2>1, <2>3 DEF UsedLive
  <2>5. Resting(vfs', cwd', panel', seen) /\ seen \cap vfs'.live \subseteq seen
    BY <1>0, <2>1, <2>2
  <2> QED BY <1>q, <2>1, <2>4, <2>5
<1>5. ASSUME NEW f \in Archives, extfs_open(f)
      PROVE  StInv'
  <2> DEFINE s == extfs_get_path(vfs, f, cwd, panel)
             t == Opened(s, f)
             J == seen \cup {f}
  <2>1. expiring = "no" /\ vfs' = t /\ used' = [used EXCEPT ![f] = @ + 1]
        /\ UNCHANGED <<cwd, panel, expiring>> /\ Remember
    BY <1>5 DEF extfs_open
  <2>2. Resting(s, cwd, panel, seen)
    BY <1>0, <2>1, GetPathRests
  <2>3. vfs.live \subseteq s.live /\ Kept(s, used)
    BY <1>0, PathLives, GetPathDoes
  <2> HIDE DEF s
  <2>4. s.fd[f] >= 0
    BY <1>0, <2>3, FdNat
  <2>5. Resting(t, cwd, panel, J)
    BY <2>2, <2>4, OpenedRests
  <2>6. Moved(s, t, f, 1) /\ f \in t.live
    BY <2>3, ArchiveOpenedDoes DEF Kept, Counted
  <2> HIDE DEF t
  <2>7. UsedLive(vfs', used')
    BY <1>0, <2>1, <2>3, <2>6 DEF UsedLive, Moved
  <2>8. Resting(vfs', cwd', panel', J) /\ seen \cap vfs'.live \subseteq J
    BY <1>0, <2>1, <2>5
  <2> HIDE DEF J
  <2> QED BY <1>q, <2>1, <2>7, <2>8
<1>6. ASSUME NEW f \in Archives, close_file(f)
      PROVE  StInv'
  <2> DEFINE t == extfs_close(vfs, f, cwd, panel)
  <2>1. expiring = "no" /\ vfs' = t /\ used' = [used EXCEPT ![f] = @ - 1] /\ used[f] > 0
        /\ UNCHANGED <<cwd, panel, expiring>> /\ Remember
    BY <1>6 DEF close_file
  <2>2. f \in vfs.live /\ vfs.fd[f] >= 1
    <3>1. used[f] \in Nat
      BY <1>0
    <3>2. vfs.fd[f] >= used[f] /\ vfs.fd[f] \in Int
      BY <1>0, FdNat
    <3> QED BY <1>0, <2>1, <3>1, <3>2 DEF UsedLive
  <2>3. Resting(t, cwd, panel, seen)
    BY <1>0, <2>1, <2>2, CloseRests
  <2>4. Moved(vfs, t, f, -1)
    BY <1>0, CloseDoes
  <2> HIDE DEF t
  <2>5. UsedLive(vfs', used')
    BY <1>0, <2>1, <2>4 DEF UsedLive, Moved
  <2>6. Resting(vfs', cwd', panel', seen) /\ seen \cap vfs'.live \subseteq seen
    BY <1>0, <2>1, <2>3
  <2> QED BY <1>q, <2>1, <2>5, <2>6
<1>7. ASSUME vfs_timeout
      PROVE  StInv'
  <2> DEFINE q == [i \in DOMAIN vfs.stamps |-> [vfs.stamps[i] EXCEPT !.old = TRUE]]
             t == [vfs EXCEPT !.stamps = q]
  <2>1. expiring = "no" /\ vfs' = t /\ UNCHANGED <<cwd, panel, used, expiring>> /\ Remember
    BY <1>7 DEF vfs_timeout
  <2>2. Resting(vfs, cwd, panel, seen) /\ Listed(vfs) /\ vfs.stamps \in Seq(Stamps)
        /\ Len(vfs.stamps) \in Nat /\ DOMAIN vfs.stamps = 1..Len(vfs.stamps)
    BY <1>0, <2>1, LenProperties DEF Resting, Neat, Listed
  <2>3. \A i \in 1..Len(vfs.stamps) :
          [vfs.stamps[i] EXCEPT !.old = TRUE] \in Stamps
          /\ [vfs.stamps[i] EXCEPT !.old = TRUE].fs = vfs.stamps[i].fs
    <3> SUFFICES ASSUME NEW x \in Stamps
                 PROVE  [x EXCEPT !.old = TRUE] \in Stamps /\ [x EXCEPT !.old = TRUE].fs = x.fs
      BY <2>2, ElementOfSeq
    <3> QED BY DEF Stamps
  <2>4. q \in [1..Len(vfs.stamps) -> Stamps] /\ \A i \in 1..Len(vfs.stamps) : q[i].fs = vfs.stamps[i].fs
    BY <2>2, <2>3
  <2> HIDE DEF q
  <2>5. q \in Seq(Stamps) /\ Len(q) = Len(vfs.stamps)
    <3>1. q \in Seq(Stamps)
      BY <2>2, <2>4
    <3> QED BY <2>2, <2>4, <3>1, LenProperties
  <2>6. SameButStamps(vfs, t) /\ t.stamps = q /\ t.at = vfs.at
    BY <1>0 DEF SameButStamps, Counts
  <2> HIDE DEF t
  <2>7. SameNames(vfs, t)
    BY <2>4, <2>5, <2>6 DEF SameNames
  <2>8. Neat(t, {}) /\ Cared(t, cwd, panel, seen)
    BY <2>2, <2>7, NamesDo DEF Resting
  <2>9. Resting(t, cwd, panel, seen)
    BY <2>2, <2>6, <2>8 DEF Resting
  <2>10. UsedLive(vfs', used')
    BY <1>0, <2>1, <2>6 DEF UsedLive, SameButStamps
  <2>11. Resting(vfs', cwd', panel', seen) /\ seen \cap vfs'.live \subseteq seen
    BY <1>0, <2>1, <2>9
  <2> QED BY <1>q, <2>1, <2>10, <2>11
(* And when a list is walked afterwards.                                    *)
<1>w. ASSUME NEW J, Remember, Walked(vfs', cwd', panel', J), seen \cap vfs'.live \subseteq J,
             expiring' \in {"timer", "now"}, UsedLive(vfs', used')
      PROVE  StInv'
  <2>1. Walked(vfs', cwd', panel', seen')
    BY <1>w, RememberWalked
  <2>2. expiring' # "no"
    BY <1>w
  <2> QED BY <1>0, <1>w, <2>1, <2>2 DEF StInv, Excused
<1>8. ASSUME vfs_timeout_handler
      PROVE  StInv'
  <2> DEFINE t == [vfs EXCEPT !.at = 1]
  <2>1. expiring = "no" /\ vfs' = t /\ expiring' = "timer" /\ UNCHANGED <<cwd, panel, used>> /\ Remember
    BY <1>8 DEF vfs_timeout_handler
  <2>2. Walked(t, cwd, panel, seen)
    BY <1>0, <2>1, TimerStarts
  <2>3. t.live = vfs.live
    BY <1>0 DEF Counts
  <2> HIDE DEF t
  <2>4. UsedLive(vfs', used')
    BY <1>0, <2>1, <2>3 DEF UsedLive
  <2>5. Walked(vfs', cwd', panel', seen) /\ seen \cap vfs'.live \subseteq seen
    BY <2>1, <2>2
  <2> QED BY <1>w, <2>1, <2>4, <2>5
<1>9. ASSUME free_now
      PROVE  StInv'
  <2> DEFINE t == [Reversed(vfs) EXCEPT !.at = 1]
  <2>1. expiring = "no" /\ vfs' = t /\ expiring' = "now" /\ UNCHANGED <<cwd, panel, used>> /\ Remember
    BY <1>9 DEF free_now
  <2>2. Walked(t, cwd, panel, seen)
    BY <1>0, <2>1, FreeStarts
  <2>3. t.live = vfs.live
    BY <1>0 DEF Counts, Reversed
  <2> HIDE DEF t
  <2>4. UsedLive(vfs', used')
    BY <1>0, <2>1, <2>3 DEF UsedLive
  <2>5. Walked(vfs', cwd', panel', seen) /\ seen \cap vfs'.live \subseteq seen
    BY <2>1, <2>2
  <2> QED BY <1>w, <2>1, <2>4, <2>5
(* No user holds a file open, and mc is about to end.                       *)
<1>e. ASSUME expiring' = "quit", NoFileOpen, UNCHANGED <<cwd, used>>
      PROVE  StInv'
  <2>1. UsedLive(vfs', used')
    BY <1>e DEF UsedLive, NoFileOpen
  <2> QED BY <1>0, <1>e, <2>1 DEF StInv, Excused
<1>10. ASSUME mc_quits
       PROVE  StInv'
  BY <1>10, <1>e DEF mc_quits
<1>11. ASSUME vfs_expire_one
       PROVE  StInv'
  <2> DEFINE stamp == vfs.stamps[vfs.at]
             c == stamp.fs
             freed == vfs_s_free_super(vfs, c, cwd, panel)
             after == [freed EXCEPT !.stamps[freed.at] = Nulled, !.at = @ + 1]
             on == [vfs EXCEPT !.at = @ + 1]
             renewed == [vfs EXCEPT !.stamps[vfs.at].old = FALSE, !.at = @ + 1]
  <2>1. /\ expiring # "no" /\ vfs.at \in 1..Len(vfs.stamps) /\ UNCHANGED <<cwd, panel, used, expiring>> /\ Remember
        /\ vfs' = IF expiring = "timer" /\ ~stamp.old THEN on
                  ELSE IF expiring = "timer" /\ ~nothingisopen(vfs, c) THEN renewed ELSE after
    BY <1>11 DEF vfs_expire_one
  <2>2. CASE expiring = "quit"
    BY <1>0, <1>e, <2>1, <2>2
  <2>3. CASE expiring \in {"timer", "now"}
    <3>1. Walked(vfs, cwd, panel, seen) /\ Neat(vfs, {}) /\ Listed(vfs) /\ vfs.stamps \in Seq(Stamps)
          /\ Len(vfs.stamps) <= Cardinality(Archives) /\ Cared(vfs, cwd, panel, seen)
      BY <1>0, <2>3 DEF Walked, Neat, Listed
    <3>2. stamp \in Stamps
      BY <2>1, <3>1, ElementOfSeq
    <3>n. Len(vfs.stamps) \in Nat
      BY <3>1, LenProperties
    <3>3. c \in Archives
      <4>1. c # Local
        <5>1. vfs.stamps[vfs.at].fs = Local => vfs.at < vfs.at
          BY <2>1, <3>1 DEF Listed, Behind
        <5> QED BY <2>1, <3>n, <5>1
      <4> QED BY <3>2, <4>1 DEF Stamps, Places
    <3>4. WalkAt(vfs, c)
      BY SMTT(60), <2>1 DEF WalkAt
    <3>5. CASE vfs' = on
      <4> HIDE DEF stamp, c
      <4>1. SameButStamps(vfs, vfs') /\ vfs'.at = vfs.at + 1 /\ vfs'.stamps = vfs.stamps
        BY <1>0, <3>5 DEF SameButStamps, Counts
      <4>2. Walked(vfs', cwd, panel, seen)
        BY SMTT(60), <3>1, <4>1, WalkOn
      <4>3. UsedLive(vfs', used')
        BY SMTT(60), <1>0, <2>1, <4>1 DEF UsedLive, SameButStamps
      <4>4. Walked(vfs', cwd', panel', seen) /\ seen \cap vfs'.live \subseteq seen
        BY <2>1, <4>2
      <4> QED BY ZenonT(60), <1>w, <2>1, <2>3, <4>3, <4>4
    <3>6. CASE vfs' = renewed
      <4> DEFINE x == [stamp EXCEPT !.old = FALSE]
                 q == [vfs.stamps EXCEPT ![vfs.at] = x]
      <4>1. x \in Stamps /\ x.fs = c
        BY <3>2 DEF Stamps
      <4>2. vfs' = [vfs EXCEPT !.stamps = q, !.at = @ + 1]
        BY <3>6
      <4> HIDE DEF x, stamp
      <4>3. q \in Seq(Stamps) /\ Len(q) = Len(vfs.stamps)
            /\ \A i \in 1..Len(vfs.stamps) : q[i] = IF i = vfs.at THEN x ELSE vfs.stamps[i]
        BY <2>1, <3>1, <4>1, ExceptSeq
      <4> HIDE DEF q
      <4>4. SameButStamps(vfs, vfs') /\ vfs'.at = vfs.at + 1 /\ vfs'.stamps = q
        BY <1>0, <4>2 DEF SameButStamps, Counts
      <4>5. \A i \in 1..Len(vfs.stamps) : q[i].fs = vfs.stamps[i].fs
        BY <4>1, <4>3 DEF stamp
      <4>6. Walked(vfs', cwd, panel, seen)
        BY <3>1, <4>3, <4>4, <4>5, WalkOn
      <4>7. UsedLive(vfs', used')
        BY <1>0, <2>1, <4>4 DEF UsedLive, SameButStamps
      <4>8. Walked(vfs', cwd', panel', seen) /\ seen \cap vfs'.live \subseteq seen
        BY <2>1, <4>6
      <4> QED BY <1>w, <2>1, <2>3, <4>7, <4>8
    <3>7. CASE vfs' = after /\ (expiring = "timer" => nothingisopen(vfs, c))
      <4> DEFINE J == seen \ {c}
      <4> HIDE DEF stamp, freed, J
      <4>1. Freed(vfs, freed, c, cwd, panel, seen)
        BY <1>0, <3>1, <3>3, <3>4, FreeTidy DEF freed
      <4>2. Walked(after, cwd, panel, J)
        BY <3>3, <4>1, WalkFreed DEF J
      <4>3. after.live = freed.live
        <5>1. Counts(freed)
          BY <4>1 DEF Freed, Neat, Listed
        <5> QED BY <5>1 DEF Counts
      <4> HIDE DEF after
      <4>4. ~(used[c] > 0)
        <5>1. CASE expiring = "timer"
          <6>1. vfs.fd[c] >= used[c] /\ vfs.fd[c] \in Int /\ used[c] \in Nat
            BY <1>0, <3>3, FdNat
          <6> QED BY <3>7, <5>1, <6>1 DEF nothingisopen
        <5>2. CASE expiring = "now"
          BY <1>0, <3>3, <5>2 DEF NoFileOpen
        <5> QED BY <2>3, <5>1, <5>2
      <4>5. UsedLive(vfs', used')
        BY <1>0, <2>1, <3>7, <4>1, <4>3, <4>4 DEF UsedLive, Freed
      <4>6. seen \cap vfs'.live \subseteq J
        BY <3>7, <4>1, <4>3 DEF Freed, J
      <4>7. Walked(vfs', cwd', panel', J)
        BY <2>1, <3>7, <4>2
      <4> QED BY <1>w, <2>1, <2>3, <4>5, <4>6, <4>7
    <3> QED BY <2>1, <3>5, <3>6, <3>7
  <2> QED BY <1>0, <2>1, <2>2, <2>3
<1>12. ASSUME vfs_expire_end
       PROVE  StInv'
  <2> DEFINE t == [vfs EXCEPT !.stamps = g_slist_remove_all(@), !.at = 0]
  <2>1. expiring \in {"timer", "now"} /\ vfs' = t /\ expiring' = "no" /\ UNCHANGED <<cwd, panel, used>> /\ Remember
    BY <1>12 DEF vfs_expire_end
  <2>2. Resting(t, cwd, panel, seen)
    BY <1>0, <2>1, WalkEnds
  <2>3. t.live = vfs.live
    BY <1>0 DEF Counts
  <2> HIDE DEF t
  <2>4. UsedLive(vfs', used')
    BY <1>0, <2>1, <2>3 DEF UsedLive
  <2>5. Resting(vfs', cwd', panel', seen) /\ seen \cap vfs'.live \subseteq seen
    BY <1>0, <2>1, <2>2
  <2>6. Resting(vfs', cwd', panel', seen')
    BY <2>1, <2>5, RememberResting
  <2>7. expiring' \notin {"timer", "now"}
    BY <2>1
  <2>8. Excused'
    BY <1>x, <2>1 DEF Listings
  <2> QED BY <1>0, <2>4, <2>6, <2>7, <2>8 DEF StInv
<1>13. ASSUME NEW p \in Panels, NEW f \in Places, panel_sized_with_dir_new(p, f)
       PROVE  StInv'
  <2> DEFINE s == mc_chdir(vfs, cwd, f, panel)
             t == mc_chdir(s, f, cwd, panel)
             now == [panel EXCEPT ![p] = f]
  <2>1. expiring = "no" /\ vfs' = t /\ panel' = now /\ UNCHANGED <<cwd, used, expiring>> /\ Remember
    BY <1>13 DEF panel_sized_with_dir_new
  <2>2. Resting(vfs, cwd, panel, seen) /\ ~Listings
    BY <1>0, <1>13, <2>1 DEF panel_sized_with_dir_new, Listings
  <2>3. Resting(s, f, panel, seen) /\ vfs.live \subseteq s.live /\ Kept(s, used)
    BY <1>0, <2>2, ChdirRests, ChdirLives, ChdirDoes
  <2> HIDE DEF s
  <2>4. Resting(t, cwd, panel, seen) /\ s.live \subseteq t.live
    BY <1>0, <2>3, ChdirRests, ChdirLives
  <2> HIDE DEF t, now
  <2>5. UsedLive(vfs', used')
    BY <1>0, <2>1, <2>3, <2>4 DEF UsedLive
  <2>6. \A g \in seen' : InUse(g)' \/ (g \in vfs'.live /\ Stamped(g)')
    BY <2>1, <2>2, RememberExcused
  <2>7. Cared(vfs', cwd', panel', seen')
    BY <2>6 DEF InUse, Stamped, Cared, Busy, Has
  <2>8. Resting(vfs', cwd', panel', seen')
    BY <2>1, <2>4, <2>7 DEF Resting
  <2>9. Excused'
    BY <2>6 DEF Excused
  <2> QED BY <1>0, <2>1, <2>5, <2>8, <2>9 DEF StInv
<1> QED BY <1>1, <1>2, <1>3, <1>4, <1>5, <1>6, <1>7, <1>8, <1>9, <1>10, <1>11, <1>12, <1>13 DEF VsNext

(* While no list is walked, the stamps are in order, and nothing idle is    *)
(* without one.                                                             *)
LEMMA StExact == StInv => StampsExact
<1> SUFFICES ASSUME StInv, expiring = "no" PROVE StampsAreLive /\ IdleIsStamped
  BY DEF StampsExact
<1>1. Resting(vfs, cwd, panel, seen) /\ Neat(vfs, {}) /\ Listed(vfs) /\ Cared(vfs, cwd, panel, seen)
      /\ ~Has(vfs, Local) /\ vfs.stamps \in Seq(Stamps)
  BY NoneNull DEF StInv, Resting, Neat, Listed
<1>2. \A i \in 1..Len(vfs.stamps) : vfs.stamps[i].fs \in Places /\ vfs.stamps[i].fs # Local
  <2> SUFFICES ASSUME NEW i \in 1..Len(vfs.stamps)
               PROVE  vfs.stamps[i].fs \in Places /\ vfs.stamps[i].fs # Local
    OBVIOUS
  <2>1. vfs.stamps[i] \in Stamps
    BY <1>1, ElementOfSeq
  <2> QED BY <1>1, <2>1 DEF Stamps, Has
<1>3. \A i \in 1..Len(vfs.stamps) : vfs.stamps[i].fs \in vfs.live
  BY <1>1, <1>2 DEF Neat, Has, Places
<1>4. \A i, j \in 1..Len(vfs.stamps) : i # j => vfs.stamps[i].fs # vfs.stamps[j].fs
  BY <1>1, <1>2 DEF Listed, Distinct
<1>5. IdleIsStamped
  <2>1. CASE Listings
    BY <1>1, <2>1 DEF IdleIsStamped, Listings, Cared, Busy, InUse, Stamped, Has
  <2>2. CASE ~Listings
    BY <2>2 DEF StInv, Excused, IdleIsStamped
  <2> QED BY <2>1, <2>2
<1> QED BY <1>3, <1>4, <1>5 DEF StampsAreLive

(* vfs_expire, vfs_stamp_create and vfs_rmstamp (lib/vfs/gc.c): while no    *)
(* list is walked, the stamps are those of open archives, each once; and an *)
(* archive that was in use and is no more has one, however it was left,     *)
(* whatever was opened and closed while the list was walked - but one left  *)
(* while a panel shows no listing, which check_panel_timestamp takes to use *)
(* every archive.                                                           *)
THEOREM StampsAlwaysExact == VsSpec => []StampsExact
<1>1. StInv /\ [VsNext]_vs_vars => StInv'
  <2>1. StInv /\ UNCHANGED vs_vars => StInv'
    BY ZenonT(60) DEF vs_vars, StInv, VsInv, NoFileOpen, Kept, Counted, Counts, LocalCopies, UsedLive,
           Resting, Walked, Neat, Listed, Distinct, Behind, Has, Cared, Busy,
           Excused, Listings, InUse, Stamped
  <2> QED BY <2>1, StStep
<1> QED BY <1>1, StStarts, StExact, PTL DEF VsSpec
=============================================================================
