--------------------------- MODULE EditSaveProofs ---------------------------
(***************************************************************************)
(* For every set of files and texts, every number of saves, of windows and *)
(* of writes by others: what a save promises the user about the file it    *)
(* writes over.  And for every pair of files and every use of the diff     *)
(* viewer: its rows show both files whole, and a merge changes what it was *)
(* asked to change.                                                        *)
(***************************************************************************)
EXTENDS EditSave, DiffView, SequenceTheorems, WellFoundedInduction, TLAPS

(* What a save has at hand, by where it is.                                 *)
InSave == save.at \notin {"idle", "ask_name", "ask_overwrite"}
Prompting == {"stat", "ask_detach", "ask_modified"}
TempName == Temp(save.file, saves)
RealName == Real(save.file)
Untouched == disk[RealName] = save.old

SaveShape ==
  /\ save.at # "idle" => edit.open
  /\ save.at \notin {"idle", "ask_name"} => save.file \in Files
  /\ InSave => saves >= 1
  /\ save.at # "idle" /\ save.cmd = "save" => save.file = edit.filename
  /\ save.at \in {"ask_name", "ask_overwrite"} => save.cmd = "save_as"
  /\ save.at = "stat" => save.mode = option_save_mode
  /\ save.at \in {"mkstemps", "backup", "rename"} => save.mode # "quick"
  /\ save.at = "backup" => save.mode = "backup"
  /\ save.at = "restat" => edit.lb = "asis"
  /\ save.at = "return" /\ save.res = 1 => Exists(RealName)
  /\ save.at = "reload" => edit.filename = save.file /\ Exists(RealName)
  /\ InSave /\ option_save_mode # "quick" /\ save.mode = "quick"
       => save.at \notin {"ask_detach", "ask_modified"}
  /\ InSave /\ edit.text \notin Texts => "empty" \in mishaps
  /\ edit.delete_file => edit.filename \in Files
  /\ "other" \in mishaps => others > 0

(* A temporary file is made by the save it is for, and holds no whole text  *)
(* before that has written it.                                              *)
TempsFresh ==
  /\ \A g \in Files, k \in 1 .. MaxSaves : k > saves => disk[Temp(g, k)] = Absent
  /\ save.at \in Prompting \cup {"mkstemps"} => disk[TempName] = Absent
  /\ save.at \in {"open", "write"} => ~Whole(TempName)

(* What has been written, or it was streamed out and lost, unnoticed, in    *)
(* which case its time is not taken either.                                 *)
TextWritten ==
  /\ save.at = "restat" /\ save.mode # "quick" => Holding(TempName, edit.text)
  /\ save.at = "restat" /\ save.mode = "quick"
       => Exists(RealName) /\ (Holding(RealName, edit.text) \/ "other" \in mishaps)
  /\ save.at \in {"backup", "rename"}
       => /\ Exists(TempName)
          /\ Holding(TempName, edit.text) \/ ("stream" \in mishaps /\ stat1 # TempName)

(* Which file has what the user had, at each step of a save.                *)
FileKept ==
  Undisturbed({"other", "stream"}) /\ others = 0 =>
    /\ save.at \in {"ask_detach", "ask_modified", "mkstemps", "open", "backup"} => Untouched
    /\ save.at \in {"write", "restat"} /\ save.mode # "quick" => Untouched
    /\ save.at = "rename" =>
         IF save.mode = "safe" THEN Untouched ELSE disk[Backup(save.file)] = save.old
    /\ save.at = "reload" => Holding(RealName, edit.text)

(* An unmodified text is that of its file, but for the time a save of it is *)
(* under way, or has failed.                                                *)
Overwriting ==
  /\ save.file = edit.filename
  /\ \/ save.at = "write" /\ save.mode = "quick"
     \/ save.at = "rename" /\ save.mode = "backup"
     \/ save.at = "return" /\ save.res = 0
UnmodifiedKept ==
  /\ edit.open /\ ~edit.modified /\ edit.filename # NoName /\ ~Overwriting
  /\ others = 0 /\ Undisturbed({"stream", "unlinked", "spoilt"})
  => Holding(Real(edit.filename), edit.text)

(* stat1 tells of writes by others: a file with that time holds the text    *)
(* last read or saved.                                                      *)
Saved == save.at = "return" /\ save.res = 1
KnownKept ==
  edit.open /\ Undisturbed({"other", "reload"}) /\ save.at # "reload" =>
    /\ stat1 = NoTime => edit.filename = NoName
    /\ edit.filename # NoName /\ stat1 = Real(edit.filename) /\ ~Saved =>
         Holding(stat1, known)
    /\ (Saved \/ save.at \in {"backup", "rename"}) /\ edit.lb = "asis" => stat1 # NoTime
    /\ Saved /\ stat1 = RealName => Holding(stat1, edit.text)

(* From the look at the time on, what a save is to replace is known, or the *)
(* user has agreed.                                                         *)
Replaces ==
  \/ save.at = "ask_detach" /\ ~save.meantime
  \/ save.at \in {"mkstemps", "open", "backup", "rename"}
  \/ save.at \in {"write", "restat"} /\ save.mode # "quick"
ReplacesKnown ==
  /\ Replaces /\ save.file = edit.filename /\ ~save.agreed
  /\ Undisturbed({"other", "reload"}) /\ Exists(RealName)
  => Holding(RealName, known)

(* Some whole text of a file is under a name that no step of the session    *)
(* takes away: not the file itself if the window is to remove it, or is     *)
(* about to truncate it.                                                    *)
AtRisk(f) ==
  \/ edit.delete_file /\ edit.filename = f /\ save.at # "reload" /\ ~(Saved /\ save.file = f)
  \/ save.at = "open" /\ save.mode = "quick" /\ save.file = f
CopyIsSafe ==
  option_save_mode # "quick" /\ Undisturbed({"stream", "unlinked", "empty"})
    => \A f \in held : \E n \in Names : n[1] = f /\ Whole(n) /\ (AtRisk(f) => n # Real(f))

IInv ==
  /\ TypeOK /\ SaveShape /\ TempsFresh /\ TextWritten
  /\ FileKept /\ ResultIsTrue /\ UnmodifiedKept /\ KnownKept /\ ReplacesKnown /\ CopyIsSafe

(* What the steps of a save, and those that begin one, leave alone.         *)
Same(s) ==
  /\ save'.cmd = s.cmd /\ save'.closing = s.closing /\ save'.file = s.file
  /\ save'.meantime = s.meantime /\ save'.old = s.old
SameText ==
  /\ edit'.open = edit.open /\ edit'.text = edit.text /\ edit'.filename = edit.filename
  /\ edit'.modified = edit.modified /\ edit'.delete_file = edit.delete_file

Outside == {"idle", "ask_name", "ask_overwrite"}

-----------------------------------------------------------------------------
(* Names are as different as they look.                                     *)
LEMMA NameFacts ==
  /\ \A f \in Files :
       /\ Real(f) \in Names /\ Backup(f) \in Names /\ Real(f)[1] = f /\ Backup(f)[1] = f
       /\ \A k \in 1 .. MaxSaves : Temp(f, k) \in Names /\ Temp(f, k)[1] = f
  /\ \A f, g : Real(f) = Real(g) <=> f = g
  /\ \A f, g : Real(f) # Backup(g)
  /\ \A f, g, k : Real(f) # Temp(g, k) /\ Backup(f) # Temp(g, k)
  /\ \A f, g, k, l : Temp(f, k) = Temp(g, l) <=> f = g /\ k = l
  /\ NoTime \notin Names /\ Stale \notin Names
  /\ \A f : Real(f) # NoTime /\ Real(f) # Stale
  /\ NoTime # Stale
BY SMTT(60), SaveAssumption DEF Real, Backup, Temp, Names, NoTime, Stale

(* A write is to the one file, and a time it had is not its time any more.  *)
LEMMA WriteDoes ==
  ASSUME disk \in [Names -> File \cup {Absent}], stat1 \in Names \cup {NoTime, Stale},
         NEW n \in Names, NEW t \in Contents, Write(n, t)
  PROVE  /\ disk' \in [Names -> File \cup {Absent}] /\ disk'[n] # Absent /\ disk'[n].text = t
         /\ \A m \in Names \ {n} : disk'[m] = disk[m]
         /\ stat1' = IF stat1 = n THEN Stale ELSE stat1
<1>1. [text |-> t, linked |-> Exists(n) /\ disk[n].linked] \in File
  BY DEF File, Exists
<1> QED BY <1>1, AbsentAssumption DEF Write, Put

(* A rename moves a file with its time.                                     *)
LEMMA RenameDoes ==
  ASSUME disk \in [Names -> File \cup {Absent}], stat1 \in Names \cup {NoTime, Stale},
         NEW m \in Names, NEW n \in Names, m # n, Rename(m, n)
  PROVE  /\ disk' \in [Names -> File \cup {Absent}]
         /\ disk'[m] = Absent /\ disk'[n] = disk[m]
         /\ \A k \in Names \ {m, n} : disk'[k] = disk[k]
         /\ stat1' = IF stat1 = m THEN n ELSE IF stat1 = n THEN Stale ELSE stat1
BY DEF Rename

(* Removing a file removes no other.                                        *)
LEMMA UnlinkedDoes ==
  ASSUME disk \in [Names -> File \cup {Absent}], NEW f \in Files
  PROVE  /\ Unlinked(f) \in [Names -> File \cup {Absent}]
         /\ Unlinked(f)[Real(f)] = Absent
         /\ \A k \in Names \ {Real(f)} : Unlinked(f)[k] = disk[k]
BY NameFacts DEF Unlinked

(* What the steps do to the variables of a save.                            *)
LEMMA GotoDoes ==
  ASSUME save \in SaveState, NEW x \in SaveCalls \cup {"return", "reload"}, Goto(x)
  PROVE  /\ save' \in SaveState /\ save'.at = x /\ Same(save)
         /\ save'.mode = save.mode /\ save'.res = save.res /\ save'.agreed = save.agreed
BY DEF Goto, SaveState, Same, SaveCalls, Dialogs

LEMMA ReturnDoes ==
  ASSUME save \in SaveState, NEW r \in {-1, 0, 1}, Return(r)
  PROVE  /\ save' \in SaveState /\ save'.at = "return" /\ Same(save)
         /\ save'.mode = save.mode /\ save'.res = r /\ save'.agreed = save.agreed
BY DEF Return, SaveState, Same

LEMMA InstallDoes ==
  ASSUME save \in SaveState, save' = Install(save)
  PROVE  /\ save' \in SaveState /\ Same(save)
         /\ save'.mode = save.mode /\ save'.agreed = save.agreed
         /\ save.mode = "quick" => save'.at = "return" /\ save'.res = 1
         /\ save.mode = "safe" => save'.at = "rename" /\ save'.res = save.res
         /\ save.mode = "backup" => save'.at = "backup" /\ save'.res = save.res
<1>1. save.mode \in Modes BY DEF SaveState
<1>2. CASE save.mode = "quick" BY <1>2 DEF Install, SaveState, Same, SaveCalls
<1>3. CASE save.mode = "safe" BY <1>3 DEF Install, SaveState, Same, SaveCalls
<1>4. CASE save.mode = "backup" BY <1>4 DEF Install, SaveState, Same, SaveCalls
<1> QED BY <1>1, <1>2, <1>3, <1>4 DEF Modes

LEMMA IdleTyped == Idle \in SaveState /\ NoEdit \in WEdit /\ Idle.at = "idle" /\ ~NoEdit.open
BY DEF Idle, SaveState, Modes, NoEdit, WEdit, Contents

(* A call of edit_save_file begins.                                         *)
LEMMA BeginDoes ==
  ASSUME NEW s \in SaveState, option_save_mode \in Modes, Begin(s)
  PROVE  /\ save' \in SaveState /\ save'.at = "stat" /\ Same(s)
         /\ save'.mode = option_save_mode /\ save'.agreed = s.agreed
         /\ saves < MaxSaves /\ saves' = saves + 1
         /\ disk' = disk /\ stat1' = stat1 /\ sessions' = sessions /\ others' = others
         /\ known' = known /\ held' = held /\ option_save_mode' = option_save_mode
         /\ edit.text \notin Texts => mishaps' = mishaps \cup {"empty"}
         /\ edit.text \in Texts => mishaps' = mishaps
BY DEF Begin, SaveState, Same, SaveCalls, Add

(* A name is asked for.                                                     *)
LEMMA AskNameDoes ==
  ASSUME NEW s \in SaveState, AskName(s)
  PROVE  /\ save' \in SaveState /\ save'.at = "ask_name" /\ save'.cmd = "save_as"
         /\ save'.closing = s.closing
         /\ save'.file = NoName /\ ~save'.agreed
         /\ UNCHANGED <<option_save_mode, disk, stat1, edit, saves, sessions, others, known, held>>
BY ZenonT(60), IdleTyped DEF AskName, SaveState, Idle, Dialogs, counters

(* Outside of a save there is nothing to keep of it.                        *)
LEMMA OutsideKeeps ==
  ASSUME TempsFresh, save'.at \in Outside, saves' = saves,
         \A g \in Files, k \in 1 .. MaxSaves : disk'[Temp(g, k)] = disk[Temp(g, k)]
  PROVE  TempsFresh' /\ TextWritten' /\ FileKept' /\ ResultIsTrue' /\ ReplacesKnown'
<1>1. TempsFresh'
  BY DEF TempsFresh, Prompting, Outside
<1>2. TextWritten' /\ FileKept' /\ ResultIsTrue' /\ ReplacesKnown'
  BY DEF TextWritten, FileKept, ResultIsTrue, ReplacesKnown, Replaces, At, Outside
<1> QED BY <1>1, <1>2

(* Closing a window, which removes no file but one at risk.                 *)
LEMMA ClosingKeeps ==
  ASSUME IInv, edit' = NoEdit, save' = Idle, stat1' = NoTime,
         saves' = saves, others' = others, option_save_mode' = option_save_mode, held' = held,
         \/ disk' = disk
         \/ \E f \in Files : AtRisk(f) /\ disk' = Unlinked(f),
         mishaps \subseteq mishaps', "other" \in mishaps' => "other" \in mishaps
  PROVE  /\ disk' \in [Names -> File \cup {Absent}] /\ edit' \in WEdit /\ save' \in SaveState
         /\ SaveShape' /\ TempsFresh' /\ TextWritten' /\ FileKept' /\ ResultIsTrue'
         /\ UnmodifiedKept' /\ KnownKept' /\ ReplacesKnown' /\ CopyIsSafe'
<1>1. /\ save'.at = "idle" /\ ~edit'.open /\ edit' \in WEdit /\ save' \in SaveState
      /\ ~edit'.delete_file
  BY IdleTyped DEF NoEdit
<1>2. /\ disk' \in [Names -> File \cup {Absent}]
      /\ \A n \in Names : disk'[n] = disk[n] \/ \E f \in Files : AtRisk(f) /\ n = Real(f)
  BY UnlinkedDoes, NameFacts DEF IInv, TypeOK
<1>3. TempsFresh' /\ TextWritten' /\ FileKept' /\ ResultIsTrue' /\ ReplacesKnown'
  BY <1>1, <1>2, NameFacts, OutsideKeeps DEF IInv, Outside
<1>4. SaveShape' /\ UnmodifiedKept' /\ KnownKept'
  BY <1>1 DEF IInv, SaveShape, UnmodifiedKept, KnownKept, InSave
<1>5. CopyIsSafe'
  <2> SUFFICES ASSUME option_save_mode # "quick", Undisturbed({"stream", "unlinked", "empty"})',
                      NEW f \in held
               PROVE  \E n \in Names : n[1] = f /\ Whole(n)' /\ (AtRisk(f)' => n # Real(f))
    BY DEF CopyIsSafe
  <2>1. PICK n \in Names : n[1] = f /\ Whole(n) /\ (AtRisk(f) => n # Real(f))
    BY DEF IInv, CopyIsSafe, Undisturbed
  <2>2. disk'[n] = disk[n]
    BY <2>1, <1>2, NameFacts
  <2>3. ~AtRisk(f)'
    BY <1>1 DEF AtRisk
  <2> QED BY <2>1, <2>2, <2>3 DEF Whole, Exists
<1> QED BY <1>1, <1>2, <1>3, <1>4, <1>5

(* A save that begins keeps the invariant, whichever command began it.      *)
LEMMA BeginKeeps ==
  ASSUME IInv, NEW s \in SaveState, Begin(s), SameText, edit' \in WEdit,
         edit.open, save.at \in Outside, s.file \in Files,
         s.cmd = "save" => s.file = edit.filename
  PROVE  IInv'
<1>1. /\ save' \in SaveState /\ save'.at = "stat" /\ Same(s)
      /\ save'.mode = option_save_mode /\ save'.agreed = s.agreed
      /\ saves < MaxSaves /\ saves' = saves + 1
      /\ disk' = disk /\ stat1' = stat1 /\ sessions' = sessions /\ others' = others
      /\ known' = known /\ held' = held /\ option_save_mode' = option_save_mode
      /\ edit.text \notin Texts => mishaps' = mishaps \cup {"empty"}
      /\ edit.text \in Texts => mishaps' = mishaps
  BY BeginDoes DEF IInv, TypeOK
<1>2. TypeOK'
  <2>1. saves' \in 0 .. MaxSaves
    BY <1>1, SaveAssumption DEF IInv, TypeOK
  <2>2. mishaps' \subseteq Mishap
    BY <1>1 DEF IInv, TypeOK, Mishap
  <2>3. edit'.open /\ save'.at # "idle"
    BY <1>1 DEF SameText
  <2> QED BY <1>1, <2>1, <2>2, <2>3 DEF IInv, TypeOK
<1>3. SaveShape' /\ ReplacesKnown' /\ TextWritten' /\ FileKept' /\ ResultIsTrue'
  BY <1>1
     DEF IInv, TypeOK, SaveShape, InSave, SameText, Same, ReplacesKnown, Replaces, TextWritten,
         FileKept, ResultIsTrue, At
<1>4. TempsFresh'
  BY <1>1, SaveAssumption DEF IInv, TypeOK, TempsFresh, Prompting, TempName, Same
<1>5. UnmodifiedKept' /\ KnownKept'
  BY <1>1
     DEF IInv, TypeOK, UnmodifiedKept, Overwriting, KnownKept, Saved, SameText, Undisturbed,
         Holding, Exists, Outside
<1>6. CopyIsSafe'
  BY <1>1 DEF IInv, CopyIsSafe, AtRisk, Saved, SameText, Undisturbed, Whole, Exists, Outside
<1> QED BY <1>2, <1>3, <1>4, <1>5, <1>6 DEF IInv

(* A name is asked for: the window is as it was, outside of a save.         *)
LEMMA AskNameKeeps ==
  ASSUME IInv, NEW s \in SaveState, AskName(s), edit.open,
         \/ save.at = "idle" /\ mishaps' = mishaps
         \/ save.at = "return" /\ save.res = 0 /\ NoteSpoilt
  PROVE  IInv'
<1>1. /\ save' \in SaveState /\ save'.at = "ask_name" /\ save'.cmd = "save_as" /\ ~save'.agreed
      /\ UNCHANGED <<option_save_mode, disk, stat1, edit, saves, sessions, others, known, held>>
  BY AskNameDoes
<1>2. /\ mishaps' \subseteq Mishap /\ mishaps \subseteq mishaps'
      /\ mishaps' \subseteq mishaps \cup {"spoilt"}
      /\ save.at # "reload" /\ ~Saved
      /\ Overwriting /\ edit.filename # NoName /\ ~edit.modified => "spoilt" \in mishaps'
  <2>1. CASE save.at = "idle" /\ mishaps' = mishaps
    BY <2>1 DEF IInv, TypeOK, Saved, Overwriting
  <2>2. CASE save.at = "return" /\ save.res = 0 /\ NoteSpoilt
    <3>1. CASE Spoilt
      <4>1. mishaps' = mishaps \cup {"spoilt"}
        BY <2>2, <3>1 DEF NoteSpoilt, Add
      <4> QED BY <2>2, <4>1 DEF IInv, TypeOK, Mishap, Saved
    <3>2. CASE ~Spoilt
      BY <2>2, <3>2 DEF IInv, TypeOK, NoteSpoilt, Spoilt, Saved, Overwriting
    <3> QED BY <3>1, <3>2
  <2> QED BY <2>1, <2>2
<1>3. TypeOK'
  BY <1>1, <1>2 DEF IInv, TypeOK
<1>4. TempsFresh' /\ TextWritten' /\ FileKept' /\ ResultIsTrue' /\ ReplacesKnown'
  BY <1>1, OutsideKeeps DEF IInv, Outside
<1>5. SaveShape'
  BY <1>1, <1>2 DEF IInv, SaveShape, InSave
<1>6. UnmodifiedKept'
  BY <1>1, <1>2 DEF IInv, UnmodifiedKept, Undisturbed, Holding, Exists
<1>7. KnownKept'
  BY <1>1, <1>2 DEF IInv, KnownKept, Saved, Undisturbed, Holding, Exists
<1>8. CopyIsSafe'
  BY <1>1, <1>2 DEF IInv, CopyIsSafe, AtRisk, Saved, Undisturbed, Whole, Exists
<1> QED BY <1>3, <1>4, <1>5, <1>6, <1>7, <1>8 DEF IInv

-----------------------------------------------------------------------------
(* The commands.                                                            *)
LEMMA LoadKeeps == ASSUME IInv, NEW f \in Files, edit_load_file(f) PROVE IInv'
<1> DEFINE text == IF Exists(Real(f)) THEN disk[Real(f)].text ELSE Empty
<1>1. /\ text \in Contents /\ disk' \in [Names -> File \cup {Absent}]
      /\ disk'[Real(f)] # Absent /\ disk'[Real(f)].text = text
      /\ \A n \in Names : disk[n] # Absent => disk'[n] = disk[n]
      /\ \A n \in Names \ {Real(f)} : disk'[n] = disk[n]
  <2>1. CASE Exists(Real(f))
    BY <2>1, NameFacts DEF edit_load_file, IInv, TypeOK, Exists, File
  <2>2. CASE ~Exists(Real(f))
    <3>1. [text |-> Empty, linked |-> FALSE] \in File /\ Empty \in Contents
      BY DEF File, Contents
    <3>2. disk' = [disk EXCEPT ![Real(f)] = [text |-> Empty, linked |-> FALSE]]
      BY <2>2 DEF edit_load_file, Exists, Put
    <3>3. disk \in [Names -> File \cup {Absent}] /\ Real(f) \in Names /\ disk[Real(f)] = Absent
      BY <2>2, NameFacts DEF IInv, TypeOK, Exists
    <3>4. text = Empty
      BY <3>3 DEF Exists
    <3> HIDE DEF text
    <3> QED BY <3>1, <3>2, <3>3, <3>4, AbsentAssumption
  <2> QED BY <2>1, <2>2
<1>2. /\ edit' \in WEdit /\ edit'.open /\ edit'.text = text /\ edit'.filename = f /\ ~edit'.modified
      /\ edit'.delete_file = ~Exists(Real(f))
      /\ save.at = "idle" /\ saves' = saves
      /\ UNCHANGED <<option_save_mode, save, saves, others, held, mishaps>>
      /\ stat1' = Real(f) /\ known' = text
  <2>1. [NoEdit EXCEPT !.open = TRUE, !.text = text, !.filename = f, !.delete_file = ~Exists(Real(f))] \in WEdit
    BY <1>1 DEF NoEdit, WEdit, Exists
  <2>2. save.at = "idle"
    BY DEF edit_load_file, IInv, SaveShape
  <2> QED BY <2>1, <2>2 DEF edit_load_file, NoEdit, Exists
<1> HIDE DEF text
<1>3. TypeOK'
  BY <1>1, <1>2, NameFacts, SaveAssumption DEF edit_load_file, IInv, TypeOK
<1>4. TempsFresh' /\ TextWritten' /\ FileKept' /\ ResultIsTrue' /\ ReplacesKnown'
  BY <1>1, <1>2, NameFacts, OutsideKeeps DEF IInv, Outside
<1>5. SaveShape' /\ UnmodifiedKept' /\ KnownKept'
  BY <1>1, <1>2, NameFacts
     DEF IInv, SaveShape, InSave, UnmodifiedKept, KnownKept, Saved, Holding, Exists
<1>6. CopyIsSafe'
  <2> SUFFICES ASSUME option_save_mode # "quick", Undisturbed({"stream", "unlinked", "empty"}),
                      NEW g \in held
               PROVE  \E n \in Names : n[1] = g /\ Whole(n)' /\ (AtRisk(g)' => n # Real(g))
    BY <1>2 DEF CopyIsSafe, Undisturbed
  <2>1. PICK n \in Names : n[1] = g /\ Whole(n)
    BY DEF IInv, CopyIsSafe
  <2>2. Whole(n)'
    BY <2>1, <1>1 DEF Whole, Exists
  <2>3. AtRisk(g)' => n # Real(g)
    BY <2>1, <1>2 DEF AtRisk, Whole, Exists
  <2> QED BY <2>1, <2>2, <2>3
<1> QED BY <1>3, <1>4, <1>5, <1>6 DEF IInv

LEMMA UnnamedKeeps == ASSUME IInv, open_unnamed PROVE IInv'
<1>1. /\ edit' \in WEdit /\ edit'.open /\ edit'.filename = NoName /\ ~edit'.delete_file
      /\ save.at = "idle" /\ stat1' = NoTime /\ known' \in Contents
      /\ UNCHANGED <<option_save_mode, disk, save, saves, others, held, mishaps>>
  <2>1. [NoEdit EXCEPT !.open = TRUE] \in WEdit
    BY IdleTyped DEF NoEdit, WEdit
  <2>2. save.at = "idle"
    BY DEF open_unnamed, IInv, SaveShape
  <2> QED BY <2>1, <2>2 DEF open_unnamed, NoEdit, Contents
<1>2. TypeOK'
  BY <1>1, SaveAssumption DEF open_unnamed, IInv, TypeOK
<1>3. TempsFresh' /\ TextWritten' /\ FileKept' /\ ResultIsTrue' /\ ReplacesKnown'
  BY <1>1, OutsideKeeps DEF IInv, Outside
<1>4. SaveShape' /\ UnmodifiedKept' /\ KnownKept'
  BY <1>1 DEF IInv, SaveShape, InSave, UnmodifiedKept, KnownKept, Saved
<1>5. CopyIsSafe'
  BY <1>1 DEF IInv, CopyIsSafe, AtRisk, Undisturbed, Whole, Exists, Saved
<1> QED BY <1>2, <1>3, <1>4, <1>5 DEF IInv

LEMMA ModificationKeeps ==
  ASSUME IInv, NEW t \in Texts, edit_modification(t)
  PROVE  IInv'
<1>1. /\ edit' \in WEdit /\ edit'.open /\ edit'.text = t /\ edit'.modified
      /\ edit'.filename = edit.filename /\ edit'.delete_file = edit.delete_file
      /\ edit.open /\ save.at = "idle"
      /\ UNCHANGED <<option_save_mode, disk, stat1, save, saves, sessions, others, known, held, mishaps>>
  <2>1. [edit EXCEPT !.text = t, !.modified = TRUE] \in WEdit
    BY DEF IInv, TypeOK, WEdit, Contents
  <2> QED BY <2>1, IdleTyped DEF edit_modification, IdleEditor, IInv, TypeOK, WEdit, counters
<1>2. TypeOK'
  BY <1>1 DEF IInv, TypeOK
<1>3. TempsFresh' /\ TextWritten' /\ FileKept' /\ ResultIsTrue' /\ ReplacesKnown'
  BY <1>1, OutsideKeeps DEF IInv, Outside
<1>4. SaveShape' /\ UnmodifiedKept' /\ KnownKept'
  BY <1>1
     DEF IInv, SaveShape, InSave, UnmodifiedKept, KnownKept, Saved, Undisturbed, Holding, Exists
<1>5. CopyIsSafe'
  BY <1>1 DEF IInv, CopyIsSafe, AtRisk, Undisturbed, Whole, Exists, Saved
<1> QED BY <1>2, <1>3, <1>4, <1>5 DEF IInv

LEMMA CommandsKeep == ASSUME IInv, Commands PROVE IInv'
<1>1. ASSUME NEW s \in SaveState, s.cmd = "save", IdleEditor, Save(s) PROVE IInv'
  <2>1. save.at = "idle" /\ edit.open
    BY <1>1, IdleTyped DEF IdleEditor
  <2>2. CASE edit.filename = NoName /\ AskName(s) /\ UNCHANGED mishaps
    BY <1>1, <2>1, <2>2, AskNameKeeps
  <2>3. CASE edit.filename # NoName /\ Begin([s EXCEPT !.file = edit.filename]) /\ UNCHANGED edit
    <3> DEFINE r == [s EXCEPT !.file = edit.filename]
    <3>1. edit.filename \in Files /\ edit \in WEdit
      BY <2>3 DEF IInv, TypeOK, WEdit
    <3>2. r \in SaveState /\ r.file = edit.filename
      BY <3>1, <1>1 DEF SaveState
    <3>3. SameText
      BY <2>3 DEF SameText
    <3> HIDE DEF r
    <3> QED BY <2>1, <2>3, <3>1, <3>2, <3>3, BeginKeeps DEF Outside, r
  <2> QED BY <1>1, <2>2, <2>3 DEF Save
<1>2. ASSUME NEW f \in Files, edit_load_file(f) PROVE IInv'
  BY <1>2, LoadKeeps
<1>3. CASE open_unnamed
  BY <1>3, UnnamedKeeps
<1>4. ASSUME NEW t \in Texts, edit_modification(t) PROVE IInv'
  BY <1>4, ModificationKeeps
<1>5. CASE edit_save_confirm_cmd
  BY <1>5, <1>1, IdleTyped DEF edit_save_confirm_cmd, Idle
<1>6. CASE edit_save_as_cmd
  BY <1>6, AskNameKeeps, IdleTyped DEF edit_save_as_cmd, IdleEditor
<1>7. CASE edit_close_cmd
  <2>1. /\ save.at = "idle" /\ edit.open /\ edit.delete_file \in BOOLEAN
        /\ edit.filename \in Files \cup {NoName}
        /\ edit' = NoEdit /\ save' = Idle /\ stat1' = NoTime
        /\ UNCHANGED <<option_save_mode, saves, sessions, others, known, held, mishaps>>
    BY <1>7, IdleTyped DEF edit_close_cmd, Close, IdleEditor, counters, IInv, TypeOK, WEdit
  <2>2. \/ disk' = disk
        \/ \E f \in Files : AtRisk(f) /\ disk' = Unlinked(f)
    BY <1>7, <2>1 DEF edit_close_cmd, Close, AtRisk, Saved, IInv, SaveShape
  <2>3. TypeOK'
    BY <2>1, <2>2, ClosingKeeps DEF IInv, TypeOK
  <2> QED BY <2>1, <2>2, <2>3, ClosingKeeps DEF IInv
<1>8. CASE close_after_save
  <2>1. [Idle EXCEPT !.closing = TRUE] \in SaveState /\ [Idle EXCEPT !.closing = TRUE].cmd = "save"
    BY IdleTyped DEF Idle, SaveState
  <2> QED BY <1>8, <1>1, <2>1 DEF close_after_save
<1> QED BY <1>2, <1>3, <1>4, <1>5, <1>6, <1>7, <1>8 DEF Commands

-----------------------------------------------------------------------------
(* The answers of the user.                                                 *)
LEMMA NamedKeeps ==
  ASSUME IInv, NEW f \in Files, NEW lb \in {"asis", "changed"}, save_as_named(f, lb)
  PROVE  IInv'
<1> DEFINE named == [save EXCEPT !.file = f]
<1>1. /\ save.at = "ask_name" /\ edit.open /\ save \in SaveState /\ save.cmd = "save_as"
      /\ edit' \in WEdit /\ SameText
  <2>1. save_as_named(f, lb) => edit' = [edit EXCEPT !.lb = lb] /\ save.at = "ask_name"
    BY DEF save_as_named, At
  <2> QED BY <2>1 DEF IInv, TypeOK, SaveShape, WEdit, SameText
<1>2. named \in SaveState /\ named.file = f /\ named.cmd = "save_as"
  BY <1>1 DEF SaveState
<1>3. CASE Begin(named)
  <2> HIDE DEF named
  <2> QED BY <1>1, <1>2, <1>3, BeginKeeps DEF Outside
<1>4. CASE /\ Exists(Real(f))
           /\ save' = [named EXCEPT !.at = "ask_overwrite"]
           /\ UNCHANGED <<option_save_mode, disk, stat1, counters, known, held, mishaps>>
  <2>1. /\ save' \in SaveState /\ save'.at = "ask_overwrite" /\ save'.file = f
        /\ save'.cmd = "save_as"
        /\ UNCHANGED <<option_save_mode, disk, stat1, saves, sessions, others, known, held, mishaps>>
    BY <1>1, <1>4 DEF SaveState, Dialogs, counters
  <2>2. TypeOK'
    BY <1>1, <2>1 DEF IInv, TypeOK, SameText
  <2>3. TempsFresh' /\ TextWritten' /\ FileKept' /\ ResultIsTrue' /\ ReplacesKnown'
    BY <2>1, OutsideKeeps DEF IInv, Outside
  <2>4. SaveShape' /\ UnmodifiedKept' /\ KnownKept'
    BY <1>1, <2>1
       DEF IInv, SaveShape, InSave, UnmodifiedKept, Overwriting, KnownKept, Saved, SameText,
           Undisturbed, Holding, Exists
  <2>5. CopyIsSafe'
    BY <1>1, <2>1 DEF IInv, CopyIsSafe, AtRisk, Saved, SameText, Undisturbed, Whole, Exists
  <2> QED BY <2>2, <2>3, <2>4, <2>5 DEF IInv
<1> QED BY <1>3, <1>4 DEF save_as_named

LEMMA OverwriteKeeps == ASSUME IInv, overwrite PROVE IInv'
<1> DEFINE s == [save EXCEPT !.agreed = TRUE]
<1>1. /\ save \in SaveState /\ save.at = "ask_overwrite" /\ edit.open /\ edit \in WEdit
      /\ save.file \in Files
      /\ save.cmd = "save_as"
  BY DEF overwrite, At, IInv, TypeOK, SaveShape
<1>2. s \in SaveState /\ s.file = save.file /\ s.cmd = "save_as"
  BY <1>1 DEF SaveState
<1>3. Begin(s) /\ edit' = edit
  BY DEF overwrite
<1>4. SameText
  BY <1>3 DEF SameText
<1> HIDE DEF s
<1> QED BY <1>1, <1>2, <1>3, <1>4, BeginKeeps DEF Outside

LEMMA SaveAsCancelledKeeps == ASSUME IInv, save_as_cancelled PROVE IInv'
<1>1. /\ save.at \in {"ask_name", "ask_overwrite"} /\ save' = Idle /\ save'.at = "idle"
      /\ save' \in SaveState
      /\ UNCHANGED <<option_save_mode, disk, stat1, edit, saves, sessions, others, known, held, mishaps>>
  BY IdleTyped DEF save_as_cancelled, Finish, At, counters
<1>2. TypeOK'
  BY <1>1 DEF IInv, TypeOK
<1>3. TempsFresh' /\ TextWritten' /\ FileKept' /\ ResultIsTrue' /\ ReplacesKnown'
  BY <1>1, OutsideKeeps DEF IInv, Outside
<1>4. SaveShape' /\ UnmodifiedKept' /\ KnownKept'
  BY <1>1
     DEF IInv, SaveShape, InSave, UnmodifiedKept, Overwriting, KnownKept, Saved, Undisturbed,
         Holding, Exists
<1>5. CopyIsSafe'
  BY <1>1 DEF IInv, CopyIsSafe, AtRisk, Saved, Undisturbed, Whole, Exists
<1> QED BY <1>2, <1>3, <1>4, <1>5 DEF IInv

LEMMA DetachKeeps ==
  ASSUME IInv, NEW yes \in BOOLEAN, detach_answered(yes)
  PROVE  IInv'
<1> DEFINE mode == IF yes THEN "safe" ELSE save.mode
           at == IF save.meantime THEN "ask_modified" ELSE Unprompted(mode)
<1>1. /\ save.at = "ask_detach" /\ save' \in SaveState /\ save'.at = at /\ Same(save)
      /\ save'.mode = mode /\ save'.res = save.res /\ save'.agreed = save.agreed
  <2>1. mode \in Modes /\ at \in Dialogs \cup SaveCalls
    BY DEF IInv, TypeOK, SaveState, Modes, Unprompted, Dialogs, SaveCalls
  <2>2. save' = [[save EXCEPT !.mode = mode] EXCEPT !.at = at] /\ save.at = "ask_detach"
    <3>1. [save EXCEPT !.mode = IF yes THEN "safe" ELSE @] = [save EXCEPT !.mode = mode]
      BY DEF IInv, TypeOK, SaveState
    <3>2. CheckMeantime([save EXCEPT !.mode = mode]) = at
      BY DEF CheckMeantime, IInv, TypeOK, SaveState
    <3> QED BY <3>1, <3>2 DEF detach_answered, At
  <2> HIDE DEF mode, at
  <2> QED BY <2>1, <2>2 DEF IInv, TypeOK, SaveState, Same
<1>2. /\ edit' \in WEdit /\ SameText /\ edit'.lb = edit.lb
      /\ UNCHANGED <<option_save_mode, disk, stat1, saves, sessions, others, known, held, mishaps>>
  BY DEF detach_answered, counters, IInv, TypeOK, WEdit, SameText
<1>3. /\ at \in {"ask_modified", "open", "mkstemps"} /\ mode \in Modes
      /\ mode = "quick" => save.mode = "quick"
      /\ at = "open" => mode = "quick"
      /\ at = "mkstemps" => mode # "quick"
      /\ at = "ask_modified" <=> save.meantime
  BY DEF Unprompted, IInv, TypeOK, SaveState, Modes
<1> HIDE DEF mode, at
<1>4. TypeOK'
  BY <1>1, <1>2, <1>3 DEF IInv, TypeOK, SameText, SaveShape
<1>5. SaveShape'
  BY <1>1, <1>2, <1>3 DEF IInv, SaveShape, InSave, SameText, Same
<1>6. TempsFresh'
  BY <1>1, <1>2, <1>3 DEF IInv, TempsFresh, Prompting, TempName, Same, Whole, Exists
<1>7. TextWritten' /\ FileKept' /\ ResultIsTrue'
  BY <1>1, <1>2, <1>3
     DEF IInv, TextWritten, FileKept, ResultIsTrue, At, Untouched, Same, Undisturbed, RealName
<1>8. ReplacesKnown'
  BY <1>1, <1>2, <1>3
     DEF IInv, ReplacesKnown, Replaces, SameText, Same, Undisturbed, Holding, Exists, RealName
<1>9. UnmodifiedKept' /\ KnownKept'
  BY <1>1, <1>2, <1>3
     DEF IInv, UnmodifiedKept, Overwriting, KnownKept, Saved, SameText, Undisturbed, Holding,
         Exists
<1>10. CopyIsSafe'
  BY <1>1, <1>2, <1>3
     DEF IInv, CopyIsSafe, AtRisk, Saved, SameText, Same, Undisturbed, Whole, Exists, SaveShape,
         InSave
<1> QED BY <1>4, <1>5, <1>6, <1>7, <1>8, <1>9, <1>10 DEF IInv

LEMMA SaveAnywayKeeps == ASSUME IInv, save_anyway PROVE IInv'
<1>1. /\ save.at = "ask_modified" /\ save' \in SaveState /\ Same(save)
      /\ save'.at = Unprompted(save.mode) /\ save'.mode = save.mode
      /\ save'.res = save.res /\ save'.agreed
  <2>1. Unprompted(save.mode) \in SaveCalls
    BY DEF Unprompted, SaveCalls
  <2> QED BY <2>1 DEF save_anyway, At, IInv, TypeOK, SaveState, Same
<1>2. /\ save'.at \in {"open", "mkstemps"}
      /\ save'.at = "open" => save.mode = "quick"
      /\ save'.at = "mkstemps" => save.mode # "quick"
  BY <1>1 DEF Unprompted
<1>3. UNCHANGED <<option_save_mode, disk, stat1, edit, saves, sessions, others, known, held, mishaps>>
  BY DEF save_anyway, counters
<1>4. TypeOK'
  BY <1>1, <1>2, <1>3 DEF IInv, TypeOK
<1>5. SaveShape'
  BY <1>1, <1>2, <1>3 DEF IInv, SaveShape, InSave, Same
<1>6. TempsFresh'
  BY <1>1, <1>2, <1>3 DEF IInv, TempsFresh, Prompting, TempName, Same, Whole, Exists
<1>7. TextWritten' /\ FileKept' /\ ResultIsTrue' /\ ReplacesKnown'
  BY <1>1, <1>2, <1>3
     DEF IInv, TextWritten, FileKept, ResultIsTrue, At, Untouched, Same, Undisturbed, RealName,
         ReplacesKnown
<1>8. UnmodifiedKept' /\ KnownKept'
  BY <1>1, <1>2, <1>3
     DEF IInv, UnmodifiedKept, Overwriting, KnownKept, Saved, Undisturbed, Holding, Exists
<1>9. CopyIsSafe'
  BY <1>1, <1>2, <1>3
     DEF IInv, CopyIsSafe, AtRisk, Saved, Same, Undisturbed, Whole, Exists, SaveShape, InSave
<1> QED BY <1>4, <1>5, <1>6, <1>7, <1>8, <1>9 DEF IInv

LEMMA SaveCancelledKeeps == ASSUME IInv, save_cancelled PROVE IInv'
<1>1. /\ save.at \in {"ask_detach", "ask_modified"} /\ save' \in SaveState
      /\ save'.at = "return" /\ Same(save)
      /\ save'.mode = save.mode /\ save'.res = -1 /\ save'.agreed = save.agreed
      /\ UNCHANGED <<option_save_mode, disk, stat1, edit, saves, sessions, others, known, held, mishaps>>
  BY ReturnDoes DEF save_cancelled, At, counters, IInv, TypeOK
<1>2. TypeOK'
  BY <1>1 DEF IInv, TypeOK
<1>3. SaveShape' /\ TempsFresh' /\ TextWritten'
  BY <1>1 DEF IInv, SaveShape, InSave, Same, TempsFresh, Prompting, TextWritten
<1>4. FileKept' /\ ResultIsTrue' /\ ReplacesKnown'
  BY <1>1
     DEF IInv, FileKept, ResultIsTrue, At, Untouched, Same, Undisturbed, RealName,
         ReplacesKnown, Replaces
<1>5. UnmodifiedKept' /\ KnownKept'
  BY <1>1 DEF IInv, UnmodifiedKept, Overwriting, KnownKept, Saved, Undisturbed, Holding, Exists
<1>6. CopyIsSafe'
  BY <1>1 DEF IInv, CopyIsSafe, AtRisk, Saved, Same, Undisturbed, Whole, Exists
<1> QED BY <1>2, <1>3, <1>4, <1>5, <1>6 DEF IInv

LEMMA AnswersKeep == ASSUME IInv, Answers PROVE IInv'
BY NamedKeeps, OverwriteKeeps, SaveAsCancelledKeeps, DetachKeeps, SaveAnywayKeeps,
   SaveCancelledKeeps
   DEF Answers

-----------------------------------------------------------------------------
(* The system calls of a save.                                              *)
LEMMA StatKeeps == ASSUME IInv, stat PROVE IInv'
<1> DEFINE d == disk[RealName]
           mode == IF d = Absent THEN "quick" ELSE save.mode
           meantime == d # Absent /\ stat1 \notin {NoTime, RealName}
           detach == mode = "quick" /\ d # Absent /\ d.linked /\ ~edit.skip_detach_prompt
           at == IF detach THEN "ask_detach" ELSE IF meantime THEN "ask_modified" ELSE Unprompted(mode)
<1>1. /\ save.at = "stat" /\ save.file \in Files /\ save.mode = option_save_mode
      /\ save \in SaveState
      /\ d \in File \cup {Absent} /\ edit.open
      /\ UNCHANGED <<option_save_mode, disk, stat1, edit, saves, sessions, others, known, held, mishaps>>
  BY NameFacts DEF stat, At, counters, IInv, TypeOK, SaveShape, RealName
<1>2. /\ save' \in SaveState /\ save'.at = at /\ save'.mode = mode
      /\ save'.meantime = meantime /\ save'.old = d
      /\ save'.cmd = save.cmd /\ save'.closing = save.closing /\ save'.file = save.file
      /\ save'.res = save.res /\ save'.agreed = save.agreed
  <2>1. mode \in Modes /\ at \in Dialogs \cup SaveCalls /\ meantime \in BOOLEAN
    BY <1>1 DEF SaveState, Modes, Unprompted, Dialogs, SaveCalls
  <2>2. save' = [[save EXCEPT !.mode = mode, !.old = d, !.meantime = meantime] EXCEPT !.at = at]
    <3>1. CheckMeantime([save EXCEPT !.mode = mode, !.old = d, !.meantime = meantime])
            = IF meantime THEN "ask_modified" ELSE Unprompted(mode)
      BY <1>1 DEF CheckMeantime, SaveState
    <3> QED BY <3>1 DEF stat, RealName
  <2> HIDE DEF d, mode, meantime, at
  <2> QED BY <1>1, <2>1, <2>2 DEF SaveState
<1>3. /\ at \in {"ask_detach", "ask_modified", "open", "mkstemps"} /\ mode \in Modes
      /\ at = "open" => mode = "quick"
      /\ at = "mkstemps" => mode # "quick"
      /\ mode = "quick" /\ option_save_mode # "quick" => d = Absent /\ at = "open"
      /\ ~meantime /\ d # Absent => stat1 \in {NoTime, RealName}
      /\ at \in {"open", "mkstemps"} => ~meantime
  BY <1>1 DEF Unprompted, SaveState, Modes
<1>4. TypeOK'
  BY <1>1, <1>2, <1>3 DEF IInv, TypeOK
<1>5. SaveShape'
  <2> HIDE DEF d, mode, meantime, at
  <2> QED BY <1>1, <1>2, <1>3 DEF IInv, SaveShape, InSave
<1>6. TempsFresh'
  <2> HIDE DEF d, mode, meantime, at
  <2> QED BY <1>1, <1>2, <1>3 DEF IInv, TempsFresh, Prompting, TempName, Whole, Exists
<1>7. TextWritten' /\ FileKept' /\ ResultIsTrue'
  <2>1. RealName' = RealName /\ save'.old = disk[RealName]
    BY <1>1, <1>2 DEF RealName
  <2> HIDE DEF d, mode, meantime, at
  <2> QED BY <1>1, <1>2, <1>3, <2>1 DEF IInv, TextWritten, FileKept, ResultIsTrue, At, Untouched
<1>8. ReplacesKnown'
  <2>1. Exists(RealName)' => d # Absent
    BY <1>1, <1>2 DEF Exists, RealName
  <2> HIDE DEF d, mode, meantime, at
  <2> QED BY <1>1, <1>2, <1>3, <2>1, NameFacts, SaveAssumption
             DEF IInv, ReplacesKnown, Replaces, KnownKept, Saved, Undisturbed, Holding, Exists,
                 RealName
<1>9. UnmodifiedKept' /\ KnownKept'
  <2> HIDE DEF d, mode, meantime, at
  <2> QED BY <1>1, <1>2, <1>3
             DEF IInv, UnmodifiedKept, Overwriting, KnownKept, Saved, Undisturbed, Holding,
                 Exists
<1>10. CopyIsSafe'
  <2>1. \A f \in Files :
          AtRisk(f)' => AtRisk(f) \/ option_save_mode = "quick" \/ (f = save.file /\ ~Exists(RealName))
    <3>1. d = Absent => ~Exists(RealName)
      BY DEF Exists
    <3> HIDE DEF d, mode, meantime, at
    <3> QED BY <1>1, <1>2, <1>3, <3>1 DEF AtRisk, Saved
  <2> SUFFICES ASSUME option_save_mode # "quick", Undisturbed({"stream", "unlinked", "empty"}),
                      NEW f \in held
               PROVE  \E n \in Names : n[1] = f /\ Whole(n)' /\ (AtRisk(f)' => n # Real(f))
    BY <1>1 DEF CopyIsSafe, Undisturbed
  <2>2. PICK n \in Names : n[1] = f /\ Whole(n) /\ (AtRisk(f) => n # Real(f))
    BY DEF IInv, CopyIsSafe
  <2>3. Whole(n)' /\ f \in Files
    BY <2>2, <1>1 DEF Whole, Exists, IInv, TypeOK
  <2>4. AtRisk(f)' => n # Real(f)
    BY <2>1, <2>2, <2>3 DEF Whole, RealName
  <2> QED BY <2>2, <2>3, <2>4
<1> QED BY <1>4, <1>5, <1>6, <1>7, <1>8, <1>9, <1>10 DEF IInv

(* What a step does that writes to the file a save has open: the other      *)
(* files are as they were.                                                  *)
LEMMA SavingWrites ==
  ASSUME IInv, InSave, NEW t \in Contents, Write(SaveName, t)
  PROVE  /\ SaveName = IF save.mode = "quick" THEN RealName ELSE TempName
         /\ RealName \in Names /\ TempName \in Names /\ RealName # TempName
         /\ Backup(save.file) \in Names /\ Backup(save.file) # RealName
         /\ Backup(save.file) # TempName
         /\ \A g \in Files, k \in 1 .. MaxSaves : k > saves => Temp(g, k) \in Names \ {SaveName}
         /\ \A g \in Files : Real(g) \in Names /\ (Real(g) = SaveName => g = save.file /\ save.mode = "quick")
         /\ disk' \in [Names -> File \cup {Absent}] /\ disk'[SaveName] # Absent
         /\ disk'[SaveName].text = t
         /\ \A m \in Names \ {SaveName} : disk'[m] = disk[m]
         /\ stat1' = IF stat1 = SaveName THEN Stale ELSE stat1
         /\ stat1' \in Names \cup {NoTime, Stale}
<1>1. save.file \in Files /\ saves \in 1 .. MaxSaves
  BY SaveAssumption DEF IInv, TypeOK, SaveShape, InSave
<1>2. SaveName \in Names
  BY <1>1, NameFacts DEF SaveName
<1> QED BY <1>1, <1>2, NameFacts, WriteDoes, SaveAssumption
           DEF IInv, TypeOK, SaveName, RealName, TempName

LEMMA MkstempsKeeps == ASSUME IInv, mkstemps PROVE IInv'
<1>1. /\ save.at = "mkstemps" /\ InSave /\ Write(SaveName, Empty) /\ save.mode # "quick"
      /\ save' \in SaveState /\ save'.at = "open" /\ Same(save)
      /\ save'.mode = save.mode /\ save'.res = save.res /\ save'.agreed = save.agreed
      /\ UNCHANGED <<option_save_mode, edit, saves, sessions, others, known, held, mishaps>>
  BY GotoDoes DEF mkstemps, At, counters, IInv, TypeOK, SaveShape, InSave, SaveCalls
<1>2. Empty \in Contents /\ Empty \notin Texts
  BY SaveAssumption DEF Contents
<1>3. TypeOK'
  BY <1>1, <1>2, SavingWrites DEF IInv, TypeOK
<1>4. SaveShape'
  BY <1>1, <1>2, SavingWrites DEF IInv, SaveShape, InSave, Same
<1>5. TempsFresh'
  BY <1>1, <1>2, SavingWrites DEF IInv, TempsFresh, Prompting, TempName, Same, Whole, Exists
<1>6. TextWritten' /\ FileKept' /\ ResultIsTrue'
  BY <1>1, <1>2, SavingWrites
     DEF IInv, TextWritten, FileKept, ResultIsTrue, At, Untouched, Same, Undisturbed, RealName
<1>7. ReplacesKnown'
  BY <1>1, <1>2, SavingWrites
     DEF IInv, ReplacesKnown, Replaces, Same, Undisturbed, Holding, Exists, RealName
<1>8. UnmodifiedKept' /\ KnownKept'
  BY <1>1, <1>2, SavingWrites, NameFacts
     DEF IInv, TypeOK, WEdit, UnmodifiedKept, Overwriting, KnownKept, Saved, Undisturbed,
         Holding, Exists
<1>9. CopyIsSafe'
  BY <1>1, <1>2, SavingWrites
     DEF IInv, CopyIsSafe, AtRisk, Saved, Same, Undisturbed, Whole, Exists, SaveShape, InSave,
         TempsFresh
<1> QED BY <1>3, <1>4, <1>5, <1>6, <1>7, <1>8, <1>9 DEF IInv

LEMMA OpenKeeps == ASSUME IInv, open_for_writing PROVE IInv'
<1>1. /\ save.at = "open" /\ InSave /\ Write(SaveName, Torn) /\ save.file \in Files
      /\ save' \in SaveState /\ save'.at = "write" /\ Same(save)
      /\ save'.mode = save.mode /\ save'.res = save.res /\ save'.agreed = save.agreed
      /\ UNCHANGED <<option_save_mode, edit, saves, sessions, others, known, held, mishaps>>
  BY GotoDoes DEF open_for_writing, At, counters, IInv, TypeOK, SaveShape, InSave, SaveCalls
<1>2. Torn \in Contents /\ Torn \notin Texts
  BY SaveAssumption DEF Contents
<1>3. TypeOK'
  BY <1>1, <1>2, SavingWrites DEF IInv, TypeOK
<1>4. SaveShape'
  BY <1>1, <1>2, SavingWrites DEF IInv, SaveShape, InSave, Same
<1>5. TempsFresh'
  BY <1>1, <1>2, SavingWrites DEF IInv, TempsFresh, Prompting, TempName, Same, Whole, Exists
<1>6. TextWritten' /\ FileKept' /\ ResultIsTrue'
  BY <1>1, <1>2, SavingWrites
     DEF IInv, TextWritten, FileKept, ResultIsTrue, At, Untouched, Same, Undisturbed, RealName
<1>7. ReplacesKnown'
  BY <1>1, <1>2, SavingWrites
     DEF IInv, ReplacesKnown, Replaces, Same, Undisturbed, Holding, Exists, RealName
<1>8. UnmodifiedKept' /\ KnownKept'
  BY <1>1, <1>2, SavingWrites, NameFacts
     DEF IInv, TypeOK, WEdit, UnmodifiedKept, Overwriting, KnownKept, Saved, Same, Undisturbed,
         Holding, Exists
<1>9. CopyIsSafe'
  <2> SUFFICES ASSUME option_save_mode # "quick", Undisturbed({"stream", "unlinked", "empty"}),
                      NEW f \in held
               PROVE  \E n \in Names : n[1] = f /\ Whole(n)' /\ (AtRisk(f)' => n # Real(f))
    BY <1>1 DEF CopyIsSafe, Undisturbed
  <2>1. PICK n \in Names : n[1] = f /\ Whole(n) /\ (AtRisk(f) => n # Real(f))
    BY DEF IInv, CopyIsSafe
  <2>2. n # SaveName
    <3>1. CASE save.mode = "quick"
      BY <1>1, <2>1, <3>1, NameFacts DEF SaveName, AtRisk
    <3>2. CASE save.mode # "quick"
      BY <1>1, <2>1, <3>2 DEF SaveName, IInv, TempsFresh, TempName
    <3> QED BY <3>1, <3>2
  <2>3. Whole(n)'
    BY <1>1, <1>2, <2>1, <2>2, SavingWrites DEF Whole, Exists
  <2>4. AtRisk(f)' => AtRisk(f)
    BY <1>1 DEF AtRisk, Saved, Same
  <2> QED BY <2>1, <2>3, <2>4
<1> QED BY <1>3, <1>4, <1>5, <1>6, <1>7, <1>8, <1>9 DEF IInv

LEMMA WriteAsisKeeps == ASSUME IInv, write_asis PROVE IInv'
<1>1. /\ save.at = "write" /\ InSave /\ Write(SaveName, edit.text) /\ edit.lb = "asis"
      /\ save' \in SaveState /\ save'.at = "restat" /\ Same(save)
      /\ save'.mode = save.mode /\ save'.res = save.res /\ save'.agreed = save.agreed
      /\ UNCHANGED <<option_save_mode, edit, saves, sessions, others, known, held, mishaps>>
  BY GotoDoes DEF write_asis, At, counters, IInv, TypeOK, SaveShape, InSave, SaveCalls
<1>2. edit.text \in Contents /\ save.file \in Files
  BY <1>1 DEF IInv, TypeOK, WEdit, SaveShape
<1>3. TypeOK'
  BY <1>1, <1>2, SavingWrites DEF IInv, TypeOK
<1>4. SaveShape'
  BY <1>1, <1>2, SavingWrites DEF IInv, SaveShape, InSave, Same
<1>5. TempsFresh'
  BY <1>1, <1>2, SavingWrites DEF IInv, TempsFresh, Prompting
<1>6. TextWritten'
  BY <1>1, <1>2, SavingWrites DEF TextWritten, Same, Holding, Exists, RealName, TempName
<1>7. FileKept' /\ ResultIsTrue'
  BY <1>1, <1>2, SavingWrites
     DEF IInv, FileKept, ResultIsTrue, At, Untouched, Same, Undisturbed, RealName
<1>8. ReplacesKnown'
  BY <1>1, <1>2, SavingWrites
     DEF IInv, ReplacesKnown, Replaces, Same, Undisturbed, Holding, Exists, RealName
<1>9. UnmodifiedKept'
  BY <1>1, <1>2, SavingWrites, NameFacts
     DEF IInv, TypeOK, WEdit, UnmodifiedKept, Overwriting, Same, Undisturbed, Holding, Exists,
         RealName
<1>10. KnownKept'
  BY <1>1, <1>2, SavingWrites, NameFacts
     DEF IInv, TypeOK, WEdit, KnownKept, Saved, Same, Undisturbed, Holding, Exists, RealName
<1>11. CopyIsSafe'
  <2> SUFFICES ASSUME option_save_mode # "quick", Undisturbed({"stream", "unlinked", "empty"}),
                      NEW f \in held
               PROVE  \E n \in Names : n[1] = f /\ Whole(n)' /\ (AtRisk(f)' => n # Real(f))
    BY <1>1 DEF CopyIsSafe, Undisturbed
  <2>1. PICK n \in Names : n[1] = f /\ Whole(n) /\ (AtRisk(f) => n # Real(f))
    BY DEF IInv, CopyIsSafe
  <2>2. edit.text \in Texts
    BY <1>1 DEF IInv, SaveShape, Undisturbed
  <2>3. Whole(n)'
    BY <1>1, <1>2, <2>1, <2>2, SavingWrites DEF Whole, Exists
  <2>4. AtRisk(f)' => AtRisk(f)
    BY <1>1 DEF AtRisk, Saved, Same
  <2> QED BY <2>1, <2>3, <2>4
<1> QED BY <1>3, <1>4, <1>5, <1>6, <1>7, <1>8, <1>9, <1>10, <1>11 DEF IInv

LEMMA RestatKeeps == ASSUME IInv, restat PROVE IInv'
<1>1. /\ save.at = "restat" /\ InSave /\ stat1' = SaveName /\ edit.lb = "asis"
      /\ save.file \in Files
      /\ saves \in 1 .. MaxSaves /\ save \in SaveState /\ edit.open /\ edit \in WEdit
      /\ save' \in SaveState /\ Same(save) /\ save'.mode = save.mode /\ save'.agreed = save.agreed
      /\ UNCHANGED <<option_save_mode, disk, edit, saves, sessions, others, known, held, mishaps>>
  BY InstallDoes, SaveAssumption DEF restat, At, counters, IInv, TypeOK, SaveShape, InSave
<1>2. /\ save.mode = "quick" => save'.at = "return" /\ save'.res = 1
      /\ save.mode = "safe" => save'.at = "rename"
      /\ save.mode = "backup" => save'.at = "backup"
      /\ save.mode \in Modes
  BY InstallDoes DEF restat, IInv, TypeOK, SaveState
<1>3. /\ SaveName = IF save.mode = "quick" THEN RealName ELSE TempName
      /\ RealName \in Names /\ TempName \in Names /\ RealName # NoTime /\ TempName # NoTime
      /\ \A g \in Files : Real(g) # TempName
      /\ \A g \in Files : Real(g) = RealName => g = save.file
  BY <1>1, NameFacts DEF SaveName, RealName, TempName
<1>4. TypeOK'
  BY <1>1, <1>2, <1>3 DEF IInv, TypeOK, Modes
<1>5. SaveShape'
  <2>1. save.mode = "quick" => Exists(RealName)'
    BY <1>1 DEF IInv, SaveShape, TextWritten, Exists, Holding, RealName, Same
  <2> QED BY <1>1, <1>2, <2>1 DEF IInv, SaveShape, InSave, Same, Modes
<1>6. TempsFresh' /\ TextWritten'
  BY <1>1, <1>2, <1>3
     DEF IInv, TempsFresh, Prompting, TextWritten, Same, Modes, Holding, Exists, TempName
<1>7. FileKept' /\ ResultIsTrue'
  BY <1>1, <1>2
     DEF IInv, FileKept, ResultIsTrue, TextWritten, At, Untouched, Same, Undisturbed, RealName,
         Modes, Holding, Exists
<1>8. ReplacesKnown'
  BY <1>1, <1>2
     DEF IInv, ReplacesKnown, Replaces, Same, Undisturbed, Holding, Exists, RealName, Modes
<1>9. UnmodifiedKept'
  BY <1>1, <1>2, NameFacts
     DEF IInv, UnmodifiedKept, Overwriting, Same, Undisturbed, Holding, Exists, RealName, Modes,
         WEdit
<1>10. KnownKept'
  BY <1>1, <1>2, <1>3
     DEF IInv, KnownKept, TextWritten, Saved, Same, Undisturbed, Holding, Exists, Modes, WEdit,
         RealName
<1>11. CopyIsSafe'
  <2>1. \A f \in Files : AtRisk(f)' => AtRisk(f)
    BY <1>1, <1>2 DEF AtRisk, Saved, Same, Modes
  <2> QED BY <1>1, <2>1 DEF IInv, TypeOK, CopyIsSafe, Undisturbed, Whole, Exists
<1> QED BY <1>4, <1>5, <1>6, <1>7, <1>8, <1>9, <1>10, <1>11 DEF IInv

LEMMA WriteStreamKeeps == ASSUME IInv, write_stream PROVE IInv'
<1>1. /\ save.at = "write" /\ InSave /\ edit.lb = "changed" /\ save.file \in Files
      /\ save \in SaveState /\ edit.open /\ edit \in WEdit
      /\ save' \in SaveState /\ Same(save) /\ save'.mode = save.mode /\ save'.agreed = save.agreed
      /\ save.mode = "quick" => save'.at = "return" /\ save'.res = 1
      /\ save.mode = "safe" => save'.at = "rename"
      /\ save.mode = "backup" => save'.at = "backup"
      /\ save.mode \in Modes
      /\ UNCHANGED <<option_save_mode, edit, saves, sessions, others, known, held>>
  BY InstallDoes DEF write_stream, At, counters, IInv, TypeOK, SaveShape, InSave, SaveState
<1>2. PICK t \in Contents : /\ Write(SaveName, t)
                            /\ \/ t = edit.text /\ mishaps' = mishaps
                               \/ t = Torn /\ mishaps' = mishaps \cup {"stream"}
  <2>1. edit.text \in Contents /\ Torn \in Contents
    BY <1>1 DEF WEdit, Contents
  <2>2. CASE Write(SaveName, edit.text) /\ UNCHANGED mishaps
    BY <2>1, <2>2
  <2>3. CASE Write(SaveName, Torn) /\ Add("stream")
    BY <2>1, <2>3 DEF Add
  <2> QED BY <2>2, <2>3 DEF write_stream
<1>3. /\ mishaps \subseteq mishaps' /\ mishaps' \subseteq Mishap
      /\ mishaps' \subseteq mishaps \cup {"stream"}
      /\ "stream" \in mishaps' \/ t = edit.text
  BY <1>2 DEF IInv, TypeOK, Mishap
<1>4. TypeOK'
  BY <1>1, <1>2, <1>3, SavingWrites DEF IInv, TypeOK, Modes
<1>5. SaveShape'
  BY <1>1, <1>2, <1>3, SavingWrites DEF IInv, SaveShape, InSave, Same, Modes, Exists, RealName
<1>6. TempsFresh'
  BY <1>1, <1>2, SavingWrites DEF IInv, TempsFresh, Prompting, Modes
<1>7. TextWritten'
  BY <1>1, <1>2, <1>3, SavingWrites, NameFacts
     DEF TextWritten, Same, Holding, Exists, RealName, TempName, Modes
<1>8. FileKept' /\ ResultIsTrue'
  BY <1>1, <1>2, <1>3, SavingWrites
     DEF IInv, FileKept, ResultIsTrue, At, Untouched, Same, Undisturbed, RealName, Modes,
         Holding, Exists
<1>9. ReplacesKnown'
  BY <1>1, <1>2, <1>3, SavingWrites
     DEF IInv, ReplacesKnown, Replaces, Same, Undisturbed, Holding, Exists, RealName, Modes
<1>10. UnmodifiedKept'
  BY <1>1, <1>2, <1>3, SavingWrites, NameFacts
     DEF IInv, TypeOK, WEdit, UnmodifiedKept, Overwriting, Same, Undisturbed, Holding, Exists,
         RealName, Modes
<1>11. KnownKept'
  BY <1>1, <1>2, <1>3, SavingWrites, NameFacts
     DEF IInv, TypeOK, WEdit, KnownKept, Saved, Same, Undisturbed, Holding, Exists, RealName,
         Modes
<1>12. CopyIsSafe'
  <2> SUFFICES ASSUME option_save_mode # "quick", Undisturbed({"stream", "unlinked", "empty"})',
                      NEW f \in held
               PROVE  \E n \in Names : n[1] = f /\ Whole(n)' /\ (AtRisk(f)' => n # Real(f))
    BY <1>1 DEF CopyIsSafe, Undisturbed
  <2>1. PICK n \in Names : n[1] = f /\ Whole(n) /\ (AtRisk(f) => n # Real(f))
    BY <1>3 DEF IInv, CopyIsSafe, Undisturbed
  <2>2. edit.text \in Texts /\ t = edit.text
    BY <1>1, <1>3 DEF IInv, SaveShape, Undisturbed
  <2>3. Whole(n)'
    BY <1>1, <1>2, <2>1, <2>2, SavingWrites DEF Whole, Exists
  <2>4. AtRisk(f)' => AtRisk(f)
    BY <1>1 DEF AtRisk, Saved, Same, Modes
  <2> QED BY <2>1, <2>3, <2>4
<1> QED BY <1>4, <1>5, <1>6, <1>7, <1>8, <1>9, <1>10, <1>11, <1>12 DEF IInv

(* A rename moves a file of the save to another of its names.               *)
LEMMA SavingRenames ==
  ASSUME IInv, InSave
  PROVE  /\ RealName \in Names /\ TempName \in Names /\ Backup(save.file) \in Names
         /\ RealName # TempName /\ Backup(save.file) # RealName /\ Backup(save.file) # TempName
         /\ RealName[1] = save.file /\ Backup(save.file)[1] = save.file /\ TempName[1] = save.file
         /\ \A g \in Files, k \in 1 .. MaxSaves :
               Temp(g, k) \in Names \ {RealName, Backup(save.file)} /\ (k > saves => Temp(g, k) # TempName)
         /\ \A g \in Files : /\ Real(g) \in Names /\ Real(g) # TempName /\ Real(g) # Backup(save.file)
                             /\ Real(g) = RealName => g = save.file
<1>1. save.file \in Files /\ saves \in 1 .. MaxSaves
  BY SaveAssumption DEF IInv, TypeOK, SaveShape, InSave
<1> QED BY <1>1, NameFacts, SaveAssumption DEF RealName, TempName

LEMMA RenameToBackupKeeps == ASSUME IInv, rename_to_backup PROVE IInv'
<1> DEFINE B == Backup(save.file)
<1>1. /\ save.at = "backup" /\ InSave /\ save.mode = "backup" /\ Rename(RealName, B)
      /\ save' \in SaveState /\ save'.at = "rename" /\ Same(save)
      /\ save'.mode = save.mode /\ save'.res = save.res /\ save'.agreed = save.agreed
      /\ UNCHANGED <<option_save_mode, edit, saves, sessions, others, known, held, mishaps>>
  BY GotoDoes
     DEF rename_to_backup, At, counters, IInv, TypeOK, SaveShape, InSave, SaveCalls, RealName
<1>2. /\ disk' \in [Names -> File \cup {Absent}]
      /\ disk'[RealName] = Absent /\ disk'[B] = disk[RealName]
      /\ \A k \in Names \ {RealName, B} : disk'[k] = disk[k]
      /\ stat1' = IF stat1 = RealName THEN B ELSE IF stat1 = B THEN Stale ELSE stat1
      /\ stat1' \in Names \cup {NoTime, Stale}
  <2>1. disk \in [Names -> File \cup {Absent}] /\ stat1 \in Names \cup {NoTime, Stale}
    BY DEF IInv, TypeOK
  <2> QED BY <1>1, <2>1, RenameDoes, SavingRenames
<1>3. TypeOK'
  BY <1>1, <1>2 DEF IInv, TypeOK
<1>4. SaveShape'
  BY <1>1, <1>2 DEF IInv, SaveShape, InSave, Same
<1>5. TempsFresh'
  BY <1>1, <1>2, SavingRenames DEF IInv, TempsFresh, Prompting
<1>6. TextWritten'
  <2>1. TempName' = TempName
    BY <1>1 DEF TempName, Same
  <2>2. disk'[TempName] = disk[TempName] /\ (stat1 # TempName => stat1' # TempName)
    <3>1. TempName \in Names \ {RealName, B} /\ B # TempName
      BY <1>1, SavingRenames
    <3> QED BY <1>2, <3>1, NameFacts
  <2> QED BY <1>1, <2>1, <2>2 DEF IInv, TextWritten, Holding, Exists
<1>7. FileKept' /\ ResultIsTrue' /\ ReplacesKnown'
  BY <1>1, <1>2, SavingRenames
     DEF IInv, FileKept, ResultIsTrue, At, Untouched, Same, Undisturbed, RealName,
         ReplacesKnown, Holding, Exists
<1>8. UnmodifiedKept'
  BY <1>1, <1>2, SavingRenames, NameFacts
     DEF IInv, TypeOK, WEdit, UnmodifiedKept, Overwriting, Same, Undisturbed, Holding, Exists,
         RealName
<1>9. KnownKept'
  BY <1>1, <1>2, SavingRenames, NameFacts
     DEF IInv, TypeOK, WEdit, KnownKept, Saved, Same, Undisturbed, Holding, Exists, RealName
<1>10. CopyIsSafe'
  <2> SUFFICES ASSUME option_save_mode # "quick", Undisturbed({"stream", "unlinked", "empty"}),
                      NEW f \in held
               PROVE  \E n \in Names : n[1] = f /\ Whole(n)' /\ (AtRisk(f)' => n # Real(f))
    BY <1>1 DEF CopyIsSafe, Undisturbed
  <2>1. PICK n \in Names : n[1] = f /\ Whole(n) /\ (AtRisk(f) => n # Real(f))
    BY DEF IInv, CopyIsSafe
  <2>2. AtRisk(f)' => AtRisk(f)
    BY <1>1 DEF AtRisk, Saved, Same
  <2>3. CASE n \notin {RealName, B}
    BY <1>2, <2>1, <2>2, <2>3 DEF Whole, Exists
  <2>4. CASE n = RealName
    <3>1. B[1] = f /\ disk'[B] = disk[n] /\ B \in Names
      BY <1>1, <1>2, <2>1, <2>4, SavingRenames
    <3>2. B # Real(f)
      BY NameFacts
    <3>3. B[1] = f /\ disk'[B] # Absent /\ disk'[B].text \in Texts
      BY <2>1, <3>1 DEF Whole, Exists
    <3> HIDE DEF B
    <3>4. \E m \in Names : m[1] = f /\ disk'[m] # Absent /\ disk'[m].text \in Texts /\ m # Real(f)
      BY <3>1, <3>2, <3>3
    <3> QED BY <3>4 DEF Whole, Exists
  <2>5. CASE n = B
    <3>1. TempName[1] = f /\ TempName \in Names /\ TempName # RealName /\ TempName # B
      BY <1>1, <2>1, <2>5, SavingRenames
    <3>2. TempName # Real(f)
      BY ZenonT(60), NameFacts DEF TempName
    <3>3. disk[TempName] # Absent /\ disk[TempName].text \in Texts
      BY <1>1 DEF IInv, TextWritten, SaveShape, Undisturbed, Holding, Exists
    <3>4. disk'[TempName] = disk[TempName]
      BY <1>2, <3>1
    <3>5. \E m \in Names : m[1] = f /\ disk'[m] # Absent /\ disk'[m].text \in Texts /\ m # Real(f)
      BY <3>1, <3>3, <3>4, <3>2
    <3> QED BY <3>5 DEF Whole, Exists
  <2> QED BY <2>3, <2>4, <2>5
<1> QED BY <1>3, <1>4, <1>5, <1>7, <1>8, <1>9, <1>10, <1>6 DEF IInv

LEMMA RenameKeeps == ASSUME IInv, rename PROVE IInv'
<1>1. /\ save.at = "rename" /\ InSave /\ save.mode # "quick" /\ Rename(TempName, RealName)
      /\ save \in SaveState /\ edit.open /\ save.file \in Files
      /\ save' \in SaveState /\ save'.at = "return" /\ Same(save)
      /\ save'.mode = save.mode /\ save'.res = 1 /\ save'.agreed = save.agreed
      /\ UNCHANGED <<option_save_mode, edit, saves, sessions, others, known, held, mishaps>>
  BY ReturnDoes
     DEF rename, At, counters, IInv, TypeOK, SaveShape, InSave, SaveCalls, RealName, TempName,
         SaveName
<1>2. /\ disk' \in [Names -> File \cup {Absent}]
      /\ disk'[TempName] = Absent /\ disk'[RealName] = disk[TempName]
      /\ \A k \in Names \ {RealName, TempName} : disk'[k] = disk[k]
      /\ stat1' = IF stat1 = TempName THEN RealName ELSE IF stat1 = RealName THEN Stale ELSE stat1
      /\ stat1' \in Names \cup {NoTime, Stale}
  <2>1. disk \in [Names -> File \cup {Absent}] /\ stat1 \in Names \cup {NoTime, Stale}
    BY DEF IInv, TypeOK
  <2> QED BY <1>1, <2>1, RenameDoes, SavingRenames
<1>3. /\ disk[TempName] # Absent
      /\ disk[TempName].text = edit.text \/ ("stream" \in mishaps /\ stat1 # TempName)
  BY <1>1 DEF IInv, TextWritten, Holding, Exists
<1>4. TypeOK'
  BY <1>1, <1>2 DEF IInv, TypeOK
<1>5. SaveShape'
  BY <1>1, <1>2, <1>3 DEF IInv, SaveShape, InSave, Same, Exists, RealName
<1>6. TempsFresh' /\ TextWritten'
  BY <1>1, <1>2, SavingRenames DEF IInv, TempsFresh, Prompting, TextWritten
<1>7. FileKept' /\ ResultIsTrue' /\ ReplacesKnown'
  BY <1>1, <1>2, <1>3, SavingRenames
     DEF IInv, FileKept, ResultIsTrue, At, Untouched, Same, Undisturbed, RealName,
         ReplacesKnown, Replaces, Holding, Exists, SaveState, Modes
<1>8. UnmodifiedKept'
  BY <1>1, <1>2, <1>3, SavingRenames, NameFacts
     DEF IInv, TypeOK, WEdit, UnmodifiedKept, Overwriting, Same, Undisturbed, Holding, Exists,
         RealName
<1>9. KnownKept'
  BY <1>1, <1>2, <1>3, SavingRenames, NameFacts
     DEF IInv, TypeOK, WEdit, KnownKept, Saved, Same, Undisturbed, Holding, Exists, RealName
<1>10. CopyIsSafe'
  <2> SUFFICES ASSUME option_save_mode # "quick", Undisturbed({"stream", "unlinked", "empty"}),
                      NEW f \in held
               PROVE  \E n \in Names : n[1] = f /\ Whole(n)' /\ (AtRisk(f)' => n # Real(f))
    BY <1>1 DEF CopyIsSafe, Undisturbed
  <2>1. PICK n \in Names : n[1] = f /\ Whole(n) /\ (AtRisk(f) => n # Real(f))
    BY DEF IInv, CopyIsSafe
  <2>2. AtRisk(f)' => AtRisk(f) /\ f # save.file
    BY <1>1 DEF AtRisk, Saved, Same
  <2>3. CASE n \notin {RealName, TempName}
    BY <1>2, <2>1, <2>2, <2>3 DEF Whole, Exists
  <2>4. CASE n \in {RealName, TempName}
    <3>1. f = save.file /\ RealName \in Names /\ RealName[1] = f
      BY <1>1, <2>1, <2>4, SavingRenames
    <3>2. disk'[RealName] # Absent /\ disk'[RealName].text \in Texts
      BY <1>1, <1>2, <1>3 DEF IInv, SaveShape, Undisturbed
    <3>3. \E m \in Names : m[1] = f /\ disk'[m] # Absent /\ disk'[m].text \in Texts
      BY <3>1, <3>2
    <3> QED BY <2>2, <3>1, <3>3 DEF Whole, Exists
  <2> QED BY <2>3, <2>4
<1> QED BY <1>4, <1>5, <1>6, <1>7, <1>8, <1>9, <1>10 DEF IInv

LEMMA CallFailsKeeps == ASSUME IInv, call_fails PROVE IInv'
<1>1. /\ save.at \in SaveCalls \ {"stat"} /\ InSave /\ save \in SaveState /\ edit.open
      /\ save.file \in Files
      /\ save' \in SaveState /\ save'.at = "return" /\ Same(save)
      /\ save'.mode = save.mode /\ save'.res = 0 /\ save'.agreed = save.agreed
      /\ UNCHANGED <<option_save_mode, disk, stat1, edit, saves, sessions, others, known, held, mishaps>>
  BY ReturnDoes DEF call_fails, At, counters, IInv, TypeOK, SaveShape, InSave, SaveCalls
<1>2. TypeOK'
  BY <1>1 DEF IInv, TypeOK
<1>3. SaveShape' /\ TempsFresh' /\ TextWritten'
  BY <1>1 DEF IInv, SaveShape, InSave, Same, TempsFresh, Prompting, TextWritten
<1>4. FileKept' /\ ReplacesKnown'
  BY <1>1 DEF FileKept, ReplacesKnown, Replaces
<1>5. ResultIsTrue'
  BY <1>1
     DEF IInv, FileKept, ResultIsTrue, At, Untouched, Same, Undisturbed, RealName, SaveShape,
         SaveCalls
<1>6. UnmodifiedKept'
  BY <1>1 DEF IInv, UnmodifiedKept, Overwriting, Same, Undisturbed, Holding, Exists, SaveCalls
<1>7. KnownKept'
  BY <1>1 DEF IInv, KnownKept, Saved, Same, Undisturbed, Holding, Exists, SaveCalls
<1>8. CopyIsSafe'
  <2>1. \A f \in Files : AtRisk(f)' => AtRisk(f)
    BY <1>1 DEF AtRisk, Saved, Same, SaveCalls
  <2> QED BY <1>1, <2>1 DEF IInv, TypeOK, CopyIsSafe, Undisturbed, Whole, Exists
<1> QED BY <1>2, <1>3, <1>4, <1>5, <1>6, <1>7, <1>8 DEF IInv

LEMMA SavingKeeps == ASSUME IInv, edit_save_file PROVE IInv'
BY StatKeeps, MkstempsKeeps, OpenKeeps, WriteAsisKeeps, RestatKeeps, WriteStreamKeeps,
   RenameToBackupKeeps, RenameKeeps, CallFailsKeeps DEF edit_save_file

(* What a save that has returned is told of.                                *)
LEMMA NoteDoes ==
  ASSUME IInv, NoteSpoilt
  PROVE  /\ mishaps \subseteq mishaps' /\ mishaps' \subseteq mishaps \cup {"spoilt"}
         /\ mishaps' \subseteq Mishap
         /\ Spoilt => "spoilt" \in mishaps'
<1>1. CASE Spoilt
  <2>1. mishaps' = mishaps \cup {"spoilt"}
    BY <1>1 DEF NoteSpoilt, Add
  <2> QED BY <2>1 DEF IInv, TypeOK, Mishap
<1>2. CASE ~Spoilt
  BY <1>2 DEF NoteSpoilt, IInv, TypeOK
<1> QED BY <1>1, <1>2

(* The command is over, and the window stays: its text is marked as saved,  *)
(* or it is as it was.                                                      *)
LEMMA SavedKeeps ==
  ASSUME IInv, Saved, save' = Idle, edit' \in WEdit, edit'.open,
         edit'.text = edit.text, edit'.filename = save.file, ~edit'.delete_file, known' = edit.text,
         save.cmd = "save" \/ edit.lb = "asis",
         UNCHANGED <<option_save_mode, disk, stat1, saves, sessions, others, held>>,
         mishaps \subseteq mishaps', mishaps' \subseteq mishaps \cup {"spoilt"}, mishaps' \subseteq Mishap
  PROVE  IInv'
<1>1. /\ save'.at = "idle" /\ save' \in SaveState /\ edit.open /\ save.file \in Files
      /\ save.res = 1 /\ save.at = "return"
      /\ save.file # NoName
  BY IdleTyped, SaveAssumption DEF IInv, SaveShape, Saved
<1>2. TypeOK'
  BY <1>1 DEF IInv, TypeOK, WEdit
<1>3. TempsFresh' /\ TextWritten' /\ FileKept' /\ ResultIsTrue' /\ ReplacesKnown'
  BY <1>1, OutsideKeeps DEF IInv, Outside
<1>4. SaveShape'
  BY <1>1 DEF IInv, SaveShape, InSave
<1>5. UnmodifiedKept'
  <2>1. others = 0 /\ Undisturbed({"stream"}) => Holding(RealName, edit.text)
    BY <1>1 DEF IInv, ResultIsTrue, SaveShape, At, Undisturbed, RealName
  <2> QED BY <1>1, <2>1 DEF UnmodifiedKept, Undisturbed, Holding, Exists, RealName
<1>6. KnownKept'
  <2>1. Undisturbed({"other", "reload"}) => /\ stat1 = RealName => Holding(stat1, edit.text)
                                            /\ stat1 # NoTime
    BY <1>1 DEF IInv, KnownKept, Saved, SaveShape
  <2> QED BY <1>1, <2>1 DEF KnownKept, Saved, Undisturbed, Holding, Exists, RealName
<1>7. CopyIsSafe'
  BY <1>1 DEF IInv, CopyIsSafe, AtRisk, Saved, Undisturbed, Whole, Exists
<1> QED BY <1>2, <1>3, <1>4, <1>5, <1>6, <1>7 DEF IInv

(* The command is over, cancelled or failed, and the window stays.          *)
LEMMA StoppedKeeps ==
  ASSUME IInv, save.at = "return", save.res # 1, save' = Idle, edit' = edit, known' = known,
         UNCHANGED <<option_save_mode, disk, stat1, saves, sessions, others, held>>,
         NoteSpoilt
  PROVE  IInv'
<1>1. save'.at = "idle" /\ save' \in SaveState /\ edit.open
  BY IdleTyped DEF IInv, SaveShape
<1>2. TypeOK'
  BY <1>1, NoteDoes DEF IInv, TypeOK
<1>3. TempsFresh' /\ TextWritten' /\ FileKept' /\ ResultIsTrue' /\ ReplacesKnown'
  BY <1>1, OutsideKeeps DEF IInv, Outside
<1>4. SaveShape'
  BY <1>1, NoteDoes DEF IInv, SaveShape, InSave
<1>5. UnmodifiedKept'
  <2>1. Overwriting /\ ~edit.modified => "spoilt" \in mishaps'
    BY NoteDoes DEF Overwriting, Spoilt
  <2> QED BY <1>1, <2>1, NoteDoes DEF IInv, UnmodifiedKept, Undisturbed, Holding, Exists
<1>6. KnownKept'
  BY <1>1, NoteDoes DEF IInv, KnownKept, Saved, Undisturbed, Holding, Exists
<1>7. CopyIsSafe'
  BY <1>1, NoteDoes DEF IInv, CopyIsSafe, AtRisk, Saved, Undisturbed, Whole, Exists
<1> QED BY <1>2, <1>3, <1>4, <1>5, <1>6, <1>7 DEF IInv

(* The command is over, and closes the window.                              *)
LEMMA ClosedKeeps ==
  ASSUME IInv, NEW e, Close(e), e.delete_file => e.filename \in Files /\ AtRisk(e.filename),
         UNCHANGED <<option_save_mode, saves, sessions, others, held>>, known' \in Contents,
         mishaps \subseteq mishaps', "other" \in mishaps' => "other" \in mishaps, mishaps' \subseteq Mishap
  PROVE  IInv'
<1>1. edit' = NoEdit /\ save' = Idle /\ stat1' = NoTime /\ (disk' = disk \/ \E f \in Files : AtRisk(f) /\ disk' = Unlinked(f))
  BY DEF Close
<1>2. TypeOK'
  BY <1>1, ClosingKeeps DEF IInv, TypeOK
<1> QED BY <1>1, <1>2, ClosingKeeps DEF IInv

-----------------------------------------------------------------------------
(* What the callers make of the result.                                     *)
LEMMA SaveReturnsKeeps == ASSUME IInv, save_returns PROVE IInv'
<1>1. /\ save.at = "return" /\ save.cmd = "save" /\ NoteSpoilt /\ edit.open
      /\ edit \in WEdit /\ save \in SaveState
      /\ save.file = edit.filename /\ save.file \in Files
  BY DEF save_returns, At, IInv, TypeOK, SaveShape
<1>2. SavedEdit \in WEdit /\ SavedEdit.text = edit.text /\ SavedEdit.filename = edit.filename
      /\ ~SavedEdit.delete_file /\ SavedEdit.open
  BY <1>1 DEF SavedEdit, WEdit
<1>3. CASE save.res = 1 /\ Finish(SavedEdit, TRUE) /\ known' = edit.text /\ UNCHANGED <<option_save_mode, counters, held>>
  <2>1. CASE save.closing
    BY <1>1, <1>2, <1>3, <2>1, NoteDoes, ClosedKeeps DEF Finish, counters, WEdit
  <2>2. CASE ~save.closing
    BY <1>1, <1>2, <1>3, <2>2, NoteDoes, SavedKeeps DEF Finish, counters, Saved
  <2> QED BY <2>1, <2>2
<1>4. CASE save.res = 0 /\ AskName(save)
  BY <1>1, <1>4, AskNameKeeps
<1>5. CASE save.res = -1 /\ Finish(edit, TRUE) /\ UNCHANGED <<option_save_mode, counters, known, held>>
  <2>1. CASE save.closing
    BY <1>1, <1>5, <2>1, NoteDoes, ClosedKeeps
       DEF Finish, counters, AtRisk, Saved, IInv, TypeOK, SaveShape
  <2>2. CASE ~save.closing
    BY <1>1, <1>5, <2>2, StoppedKeeps DEF Finish, counters
  <2> QED BY <2>1, <2>2
<1> QED BY <1>3, <1>4, <1>5 DEF save_returns

LEMMA SaveAsReturnsKeeps == ASSUME IInv, save_as_returns PROVE IInv'
<1> DEFINE saved == [SavedEdit EXCEPT !.filename = save.file]
           named == [edit EXCEPT !.filename = save.file]
<1>1. /\ save.at = "return" /\ save.cmd = "save_as" /\ NoteSpoilt /\ edit.open
      /\ edit \in WEdit /\ save \in SaveState
      /\ save.file \in Files /\ UNCHANGED <<option_save_mode, saves, sessions, others, held>>
  BY DEF save_as_returns, At, IInv, TypeOK, SaveShape, counters
<1>2. CASE save.res = 1 /\ edit.lb = "asis" /\ known' = edit.text /\ Finish(saved, TRUE)
  <2>1. saved \in WEdit /\ saved.text = edit.text /\ saved.filename = save.file
        /\ ~saved.delete_file /\ saved.open
    BY <1>1 DEF SavedEdit, WEdit
  <2> HIDE DEF saved
  <2>2. CASE save.closing
    BY <1>1, <1>2, <2>1, <2>2, NoteDoes, ClosedKeeps DEF Finish, WEdit
  <2>3. CASE ~save.closing
    BY <1>1, <1>2, <2>1, <2>3, NoteDoes, SavedKeeps DEF Finish, Saved
  <2> QED BY <2>2, <2>3
<1>3. CASE /\ save.res = 1 /\ edit.lb = "changed" /\ known' = edit.text
           /\ edit' = named /\ Goto("reload") /\ UNCHANGED <<disk, stat1>>
  <2>1. /\ edit' \in WEdit /\ edit'.open /\ edit'.text = edit.text /\ edit'.filename = save.file
        /\ edit'.modified = edit.modified /\ edit'.delete_file = edit.delete_file
        /\ edit'.lb = "changed"
        /\ edit.text \in Contents /\ save.file # NoName
    BY <1>1, <1>3, SaveAssumption DEF WEdit
  <2>2. /\ save' \in SaveState /\ save'.at = "reload" /\ Same(save) /\ save'.mode = save.mode
        /\ save'.agreed = save.agreed /\ save'.res = save.res
    BY <1>1, <1>3, GotoDoes
  <2>3. TypeOK'
    BY <1>1, <1>3, <2>1, <2>2, NoteDoes DEF IInv, TypeOK
  <2>4. SaveShape'
    BY <1>1, <1>3, <2>1, <2>2, NoteDoes DEF IInv, SaveShape, InSave, Same, Exists, RealName
  <2>5. TempsFresh' /\ TextWritten' /\ ReplacesKnown'
    BY <1>1, <1>3, <2>2 DEF IInv, TempsFresh, Prompting, TextWritten, ReplacesKnown, Replaces
  <2>6. FileKept' /\ ResultIsTrue'
    BY <1>1, <1>3, <2>1, <2>2, NoteDoes
       DEF IInv, FileKept, ResultIsTrue, At, Same, Undisturbed, RealName, Holding, Exists
  <2>7. UnmodifiedKept'
    <3>1. others = 0 /\ Undisturbed({"stream"}) => Holding(RealName, edit.text)
      BY <1>1, <1>3 DEF IInv, ResultIsTrue, SaveShape, At, Undisturbed, RealName
    <3> QED BY <1>1, <1>3, <2>1, <3>1, NoteDoes
               DEF UnmodifiedKept, Undisturbed, Holding, Exists, RealName
  <2>8. KnownKept'
    BY <2>2 DEF KnownKept
  <2>9. CopyIsSafe'
    BY <1>1, <1>3, <2>1, <2>2, NoteDoes
       DEF IInv, CopyIsSafe, AtRisk, Saved, Same, Undisturbed, Whole, Exists
  <2> QED BY <2>3, <2>4, <2>5, <2>6, <2>7, <2>8, <2>9 DEF IInv
<1>4. CASE save.res # 1 /\ Finish(edit, FALSE) /\ UNCHANGED known
  BY <1>1, <1>4, StoppedKeeps DEF Finish
<1> QED BY <1>2, <1>3, <1>4 DEF save_as_returns

LEMMA ReloadKeeps == ASSUME IInv, edit_reload PROVE IInv'
<1> DEFINE d == disk[RealName]
           e == [NoEdit EXCEPT !.open = TRUE, !.text = d.text, !.filename = save.file]
<1>1. /\ save.at = "reload" /\ edit.open /\ save.file \in Files /\ edit.filename = save.file
      /\ d \in File /\ d # Absent /\ d.text \in Contents /\ known' = d.text /\ save.file # NoName
      /\ save' = Idle /\ save' \in SaveState /\ save'.at = "idle" /\ RealName \in Names
      /\ UNCHANGED <<option_save_mode, saves, sessions, others, held>>
  BY IdleTyped, NameFacts, SaveAssumption
     DEF edit_reload, At, IInv, TypeOK, SaveShape, counters, RealName, Exists, File
<1>2. CASE edit.delete_file
  (* The file just written is removed, and the mishap recorded. *)
  <2>1. /\ disk' = Unlinked(save.file) /\ mishaps' = mishaps \cup {"unlinked"}
        /\ edit' = IF save.closing THEN NoEdit ELSE e
        /\ stat1' = IF save.closing THEN NoTime ELSE Stale
    BY <1>2 DEF edit_reload, Add, RealName
  <2>2. /\ disk' \in [Names -> File \cup {Absent}]
        /\ \A k \in Names \ {RealName} : disk'[k] = disk[k]
    BY <1>1, <2>1, UnlinkedDoes DEF IInv, TypeOK, RealName
  <2>3. /\ edit' \in WEdit /\ (~edit'.open => edit' = NoEdit) /\ ~edit'.delete_file
        /\ stat1' \in {NoTime, Stale} /\ (stat1' = NoTime => ~edit'.open)
        /\ mishaps' \subseteq Mishap
    <3>1. e \in WEdit /\ e.open /\ ~e.delete_file
      BY <1>1 DEF NoEdit, WEdit
    <3> HIDE DEF e
    <3> QED BY <2>1, <3>1, IdleTyped, NameFacts DEF NoEdit, IInv, TypeOK, Mishap
  <2>4. TypeOK'
    BY <1>1, <2>2, <2>3 DEF IInv, TypeOK
  <2>5. TempsFresh' /\ TextWritten' /\ FileKept' /\ ResultIsTrue' /\ ReplacesKnown'
    BY <1>1, <2>2, NameFacts, OutsideKeeps DEF IInv, Outside, RealName
  <2>6. SaveShape' /\ UnmodifiedKept' /\ KnownKept' /\ CopyIsSafe'
    BY <1>1, <2>1, <2>3, NameFacts
       DEF IInv, SaveShape, InSave, UnmodifiedKept, KnownKept, Saved, CopyIsSafe, Undisturbed
  <2> QED BY <2>4, <2>5, <2>6 DEF IInv
<1>3. CASE ~edit.delete_file
  <2>1. /\ UNCHANGED <<disk, mishaps>>
        /\ edit' = IF save.closing THEN NoEdit ELSE e
        /\ stat1' = IF save.closing THEN NoTime ELSE RealName
    BY <1>3 DEF edit_reload, RealName
  <2>2. CASE save.closing
    <3>1. TypeOK'
      BY <1>1, <2>1, <2>2, ClosingKeeps DEF IInv, TypeOK
    <3> QED BY <1>1, <2>1, <2>2, <3>1, ClosingKeeps DEF IInv
  <2>3. CASE ~save.closing
    <3>1. e \in WEdit /\ e.open /\ ~e.delete_file /\ e.text = d.text /\ e.filename = save.file
      BY <1>1 DEF NoEdit, WEdit
    <3>2. d = disk[RealName]
      OBVIOUS
    <3> HIDE DEF e, d
    <3>3. TypeOK'
      BY <1>1, <2>1, <2>3, <3>1 DEF IInv, TypeOK
    <3>4. TempsFresh' /\ TextWritten' /\ FileKept' /\ ResultIsTrue' /\ ReplacesKnown'
      BY <1>1, <2>1, OutsideKeeps DEF IInv, Outside
    <3>5. SaveShape' /\ UnmodifiedKept' /\ KnownKept'
      BY <1>1, <2>1, <2>3, <3>1, <3>2, NameFacts
         DEF IInv, SaveShape, InSave, UnmodifiedKept, KnownKept, Saved, Holding, Exists,
             RealName
    <3>6. CopyIsSafe'
      BY <1>1, <2>1, <2>3, <3>1 DEF IInv, CopyIsSafe, AtRisk, Undisturbed, Whole, Exists
    <3> QED BY <3>3, <3>4, <3>5, <3>6 DEF IInv
  <2> QED BY <2>2, <2>3
<1> QED BY <1>2, <1>3

LEMMA ReloadFailsKeeps == ASSUME IInv, reload_fails PROVE IInv'
<1>1. /\ save.at = "reload" /\ edit.open /\ edit \in WEdit /\ save \in SaveState
      /\ UNCHANGED <<option_save_mode, saves, sessions, others, known, held>>
      /\ mishaps' = mishaps \cup {"reload"} /\ save.file = edit.filename
  BY DEF reload_fails, At, Add, IInv, TypeOK, SaveShape, counters
<1>2. mishaps' \subseteq Mishap
  BY <1>1 DEF IInv, TypeOK, Mishap
<1>3. SavedEdit \in WEdit /\ SavedEdit.text = edit.text /\ SavedEdit.filename = edit.filename
      /\ ~SavedEdit.delete_file /\ SavedEdit.open
  BY <1>1 DEF SavedEdit, WEdit
<1>4. CASE save.closing
  BY <1>1, <1>2, <1>3, <1>4, ClosedKeeps DEF reload_fails, Finish, IInv, TypeOK
<1>5. CASE ~save.closing
  <2>1. /\ edit' = SavedEdit /\ save' = Idle /\ UNCHANGED <<disk, stat1>>
        /\ save'.at = "idle" /\ save' \in SaveState
    BY <1>5, IdleTyped DEF reload_fails, Finish
  <2>2. TypeOK'
    BY <1>1, <1>2, <1>3, <2>1 DEF IInv, TypeOK
  <2>3. TempsFresh' /\ TextWritten' /\ FileKept' /\ ResultIsTrue' /\ ReplacesKnown'
    BY <1>1, <2>1, OutsideKeeps DEF IInv, Outside
  <2>4. SaveShape' /\ KnownKept'
    BY <1>1, <1>3, <2>1 DEF IInv, SaveShape, InSave, KnownKept, Undisturbed
  <2>5. UnmodifiedKept'
    BY <1>1, <1>3, <2>1
       DEF IInv, SaveShape, UnmodifiedKept, FileKept, Undisturbed, Holding, Exists, RealName
  <2>6. CopyIsSafe'
    BY <1>1, <1>3, <2>1 DEF IInv, CopyIsSafe, AtRisk, Saved, Undisturbed, Whole, Exists
  <2> QED BY <2>2, <2>3, <2>4, <2>5, <2>6 DEF IInv
<1> QED BY <1>4, <1>5

-----------------------------------------------------------------------------
(* Another session, and a crash.                                            *)
LEMMA OtherWritesKeeps ==
  ASSUME IInv, NEW f \in Files, NEW t \in Texts, other_writes(f, t)
  PROVE  IInv'
<1>1. /\ t \in Contents /\ Real(f) \in Names /\ disk[Real(f)] # Absent
      /\ others' = others + 1 /\ others \in Nat /\ others' > 0
      /\ UNCHANGED <<option_save_mode, edit, save, saves, sessions, known, held>>
  BY NameFacts DEF other_writes, Contents, Exists, IInv, TypeOK
<1>2. /\ disk' \in [Names -> File \cup {Absent}] /\ disk'[Real(f)] # Absent
      /\ disk'[Real(f)].text = t
      /\ \A m \in Names \ {Real(f)} : disk'[m] = disk[m]
      /\ stat1' = IF stat1 = Real(f) THEN Stale ELSE stat1
  BY <1>1, WriteDoes DEF other_writes, IInv, TypeOK
<1>3. /\ mishaps \subseteq mishaps' /\ mishaps' \subseteq mishaps \cup {"other"}
      /\ mishaps' \subseteq Mishap
      /\ save.at \in Checked /\ save.file = f => "other" \in mishaps'
  <2>1. CASE save.at \in Checked /\ save.file = f
    <3>1. mishaps' = mishaps \cup {"other"}
      BY <2>1 DEF other_writes, Add
    <3> QED BY <3>1 DEF IInv, TypeOK, Mishap
  <2>2. CASE ~(save.at \in Checked /\ save.file = f)
    BY <2>2 DEF other_writes, IInv, TypeOK
  <2> QED BY <2>1, <2>2
<1>4. TypeOK'
  BY <1>1, <1>2, <1>3, SaveAssumption DEF IInv, TypeOK, other_writes
<1>5. SaveShape'
  <2>1. \A g \in Files : Exists(Real(g)) => Exists(Real(g))'
    BY <1>1, <1>2, NameFacts DEF Exists
  <2> QED BY <1>1, <1>3, <2>1 DEF IInv, SaveShape, InSave, RealName
<1>6. TempsFresh'
  BY <1>1, <1>2, NameFacts, SaveAssumption
     DEF IInv, TypeOK, SaveShape, InSave, TempsFresh, Prompting, TempName, Whole, Exists
<1>7. TextWritten'
  BY <1>1, <1>2, <1>3, NameFacts, SaveAssumption
     DEF IInv, TypeOK, SaveShape, InSave, TextWritten, Holding, Exists, RealName, TempName,
         Checked, SaveCalls
<1>8. FileKept' /\ ResultIsTrue' /\ UnmodifiedKept'
  BY <1>1 DEF FileKept, ResultIsTrue, UnmodifiedKept
<1>9. KnownKept'
  BY <1>1, <1>2, <1>3, NameFacts
     DEF IInv, TypeOK, WEdit, SaveShape, KnownKept, Saved, Undisturbed, Holding, Exists,
         RealName
<1>10. ReplacesKnown'
  <2>1. Replaces => save.at \in Checked
    BY DEF Replaces, Checked, SaveCalls
  <2> QED BY <1>1, <1>2, <1>3, <2>1, NameFacts
             DEF IInv, TypeOK, SaveShape, InSave, ReplacesKnown, Replaces, Undisturbed, Holding,
                 Exists, RealName
<1>11. CopyIsSafe'
  <2>1. \A g \in Files : AtRisk(g)' => AtRisk(g)
    BY <1>1 DEF AtRisk, Saved
  <2>2. \A n \in Names : Whole(n) => Whole(n)'
    BY <1>1, <1>2 DEF Whole, Exists
  <2> QED BY <1>1, <1>3, <2>1, <2>2 DEF IInv, TypeOK, CopyIsSafe, Undisturbed
<1> QED BY <1>4, <1>5, <1>6, <1>7, <1>8, <1>9, <1>10, <1>11 DEF IInv

LEMMA CrashKeeps == ASSUME IInv, crash PROVE IInv'
<1>1. /\ edit' = NoEdit /\ save' = Idle /\ stat1' = NoTime
      /\ UNCHANGED <<option_save_mode, disk, saves, sessions, others, known, held, mishaps>>
  BY DEF crash, counters
<1>2. TypeOK'
  BY <1>1, ClosingKeeps DEF IInv, TypeOK
<1> QED BY <1>1, <1>2, ClosingKeeps DEF IInv

LEMMA InitKeeps == ASSUME Init PROVE IInv
<1>1. /\ save.at = "idle" /\ ~edit.open /\ ~edit.delete_file /\ edit \in WEdit
      /\ save \in SaveState /\ held \subseteq Files
      /\ known \in Contents
  BY IdleTyped DEF Init, NoEdit, Contents
<1>2. PICK t \in Texts, linked \in BOOLEAN :
         disk = [n \in Names |-> IF \E f \in held : n = Real(f) THEN [text |-> t, linked |-> linked] ELSE Absent]
  BY DEF Init
<1>3. [text |-> t, linked |-> linked] \in File
  BY DEF File, Contents
<1>4. /\ disk \in [Names -> File \cup {Absent}]
      /\ \A f \in held : disk[Real(f)] # Absent /\ disk[Real(f)].text \in Texts
      /\ \A g \in Files, k \in 1 .. MaxSaves : disk[Temp(g, k)] = Absent
  BY <1>1, <1>2, <1>3, NameFacts, AbsentAssumption
<1>5. TypeOK
  BY <1>1, <1>4, SaveAssumption DEF Init, TypeOK
<1>6. /\ SaveShape /\ TempsFresh /\ TextWritten /\ FileKept /\ ResultIsTrue
      /\ UnmodifiedKept /\ KnownKept /\ ReplacesKnown
  BY <1>1, <1>4
     DEF Init, SaveShape, InSave, TempsFresh, Prompting, TextWritten, FileKept, ResultIsTrue,
         At, UnmodifiedKept, KnownKept, ReplacesKnown, Replaces
<1>7. CopyIsSafe
  <2>1. \A f \in held : Real(f) \in Names /\ Real(f)[1] = f /\ Whole(Real(f))
    BY <1>1, <1>4, NameFacts DEF Whole, Exists
  <2>2. \A f \in held : ~AtRisk(f)
    BY <1>1 DEF AtRisk
  <2> QED BY <2>1, <2>2 DEF CopyIsSafe
<1> QED BY <1>5, <1>6, <1>7 DEF IInv

LEMMA IInvUnchanged ==
  ASSUME IInv, UNCHANGED vars
  PROVE  IInv'
<1>1. TypeOK' /\ SaveShape' /\ TempsFresh' /\ TextWritten'
  BY DEF vars, counters, IInv, TypeOK, SaveShape, InSave, RealName, Exists, TempsFresh,
         Prompting, TempName, Whole, TextWritten, Holding
<1>2. FileKept' /\ ResultIsTrue' /\ UnmodifiedKept'
  BY DEF vars, counters, IInv, FileKept, Undisturbed, Untouched, RealName, Holding, Exists,
         ResultIsTrue, At, UnmodifiedKept, Overwriting
<1>3. KnownKept' /\ ReplacesKnown' /\ CopyIsSafe'
  BY DEF vars, counters, IInv, KnownKept, Undisturbed, Holding, Exists, Saved, RealName,
         ReplacesKnown, Replaces, CopyIsSafe, AtRisk, Whole
<1> QED BY <1>1, <1>2, <1>3 DEF IInv

-----------------------------------------------------------------------------
(* No step of the window, of a save, of a user, of another session or of a  *)
(* crash disturbs the invariant.                                            *)
LEMMA StepKeeps == ASSUME IInv, [Next]_vars PROVE IInv'
<1>1. CASE Commands
  BY <1>1, CommandsKeep
<1>2. CASE Answers
  BY <1>2, AnswersKeep
<1>3. CASE edit_save_file
  BY <1>3, SavingKeeps
<1>4. CASE save_returns \/ save_as_returns \/ edit_reload \/ reload_fails
  BY <1>4, SaveReturnsKeeps, SaveAsReturnsKeeps, ReloadKeeps, ReloadFailsKeeps
<1>5. CASE \E f \in Files, t \in Texts : other_writes(f, t)
  BY <1>5, OtherWritesKeeps
<1>6. CASE crash
  BY <1>6, CrashKeeps
<1>7. CASE UNCHANGED vars
  BY <1>7, IInvUnchanged DEF vars, counters
<1> QED BY <1>1, <1>2, <1>3, <1>4, <1>5, <1>6, <1>7 DEF Next

(* Whatever fails, and whatever another session does, the invariant holds   *)
(* at every point of every save of every window.                            *)
THEOREM SaveInvariant == Spec => []IInv
BY InitKeeps, StepKeeps, PTL DEF Spec

(* The window, its save and the disk keep their types.                      *)
THEOREM SaveTypeCorrect == Spec => []TypeOK
BY SaveInvariant, PTL DEF IInv

(* With safe saves or backups no text of a file is lost: at every point of  *)
(* every save of edit_save_file, whatever call fails and whenever the       *)
(* editor crashes, the file, its backup or a temporary file holds a whole   *)
(* text.                                                                    *)
THEOREM TextsSurvive == Spec => []CopySurvives
<1>1. IInv => CopySurvives
  BY DEF IInv, CopyIsSafe, CopySurvives
<1> QED BY <1>1, SaveInvariant, PTL

(* What edit_save_file returns is true of the file and of its backup.       *)
THEOREM ResultsAreTrue == Spec => []ResultIsTrue
BY SaveInvariant, PTL DEF IInv

(* An idle window that is not marked as modified can be closed without      *)
(* loss: its file holds its text.                                           *)
THEOREM UnmodifiedIsSafe == Spec => []UnmodifiedIsOnDisk
<1>1. IInv => UnmodifiedIsOnDisk
  BY IdleTyped DEF IInv, UnmodifiedKept, UnmodifiedIsOnDisk, Overwriting, IdleEditor
<1> QED BY <1>1, SaveInvariant, PTL

(* No step of a save replaces a file that another session has written since *)
(* the window last read or saved it, unless the user has agreed; but for    *)
(* writes between the look at the time and the end of the save.             *)
THEOREM OverwritesAreKnown == Spec => NoSilentOverwrite
<1>1. ASSUME IInv, open_for_writing \/ rename_to_backup \/ rename,
             Exists(Real(save.file)), Undisturbed({"other", "reload"}), save.file = edit.filename
      PROVE  save.agreed \/ disk[Real(save.file)].text = known
  <2>1. Replaces
    BY <1>1 DEF open_for_writing, rename_to_backup, rename, At, Replaces
  <2> QED BY <1>1, <2>1 DEF IInv, ReplacesKnown, RealName, Holding
<1>2. IInv /\ [Next]_vars =>
        [(open_for_writing \/ rename_to_backup \/ rename)
           /\ Exists(Real(save.file)) /\ disk'[Real(save.file)] # disk[Real(save.file)]
           /\ Undisturbed({"other", "reload"}) /\ save.file = edit.filename
           => save.agreed \/ disk[Real(save.file)].text = known]_vars
  BY <1>1
<1> QED BY <1>2, SaveInvariant, PTL DEF Spec, NoSilentOverwrite

-----------------------------------------------------------------------------
(* The diff viewer, src/diffviewer/ydiff.c: from the script of diff to the   *)
(* rows, and from the rows to what a merge writes.                           *)

(* A nonempty set of natural numbers has a least one.                       *)
LEMMA LeastNat == ASSUME NEW T \in SUBSET Nat, T # {} PROVE \E x \in T : \A y \in T : x <= y
<1>1. \E x \in T : \A y \in T : <<y, x>> \notin OpToRel(<, Nat)
  BY NatLessThanWellFounded, WFMin
<1>2. \A x, y \in Nat : <<y, x>> \notin OpToRel(<, Nat) => x <= y
  BY DEF OpToRel
<1> QED BY <1>1, <1>2

(* What holds of 0, and of the next number when of one, holds of all.       *)
LEMMA NatInduct ==
  ASSUME NEW T, 0 \in T, \A n \in Nat : n \in T => n + 1 \in T
  PROVE  Nat \subseteq T
<1> DEFINE U == {n \in Nat : n \notin T}
<1>1. SUFFICES ASSUME U # {} PROVE FALSE
  OBVIOUS
<1>2. PICK x \in U : \A y \in U : x <= y
  <2>1. U \in SUBSET Nat
    OBVIOUS
  <2> HIDE DEF U
  <2> QED BY <1>1, <2>1, LeastNat
<1>3. x # 0 /\ x - 1 \in Nat /\ x - 1 \notin U
  BY <1>2
<1> QED BY <1>2, <1>3

(* A loop of n turns, each a function of what there was, has its values.    *)
Turns(F, n, start, st) == F[0] = start /\ \A k \in 1..n : F[k] = st[k][F[k - 1]]

(* A run that begins at start and takes turn k by the function st[k] exists.*)
LEMMA TurnsTaken ==
  ASSUME NEW n \in Nat, NEW S, NEW start \in S, NEW st \in [1..n -> [S -> S]]
  PROVE  \E F \in [0..n -> S] : Turns(F, n, start, st)
<1> DEFINE UpTo(F, m) == F \in [0..m -> S] /\ Turns(F, m, start, st)
           T == {m \in Nat : m <= n => \E F : UpTo(F, m)}
<1>1. 0 \in T
  <2>1. UpTo([k \in 0..0 |-> start], 0)
    BY DEF Turns
  <2> HIDE DEF UpTo
  <2> QED BY <2>1
<1>2. ASSUME NEW m \in Nat, m \in T PROVE m + 1 \in T
  <2> SUFFICES ASSUME m + 1 <= n PROVE \E F : UpTo(F, m + 1)
    OBVIOUS
  <2>1. PICK F : UpTo(F, m)
    BY <1>2
  <2>2. PICK j \in Nat : j = m + 1 /\ j - 1 = m /\ j # 0 /\ m \in 0..m /\ 0 # j /\ j \in 1..n
    OBVIOUS
  <2> DEFINE e == st[j][F[m]]
             G == [i \in 0..j |-> IF i = j THEN e ELSE F[i]]
  <2>3. e \in S
    BY <2>1, <2>2
  <2> HIDE DEF e
  <2>4. ASSUME NEW i \in 0..j PROVE i = j \/ i \in 0..m
    BY <2>2
  <2>5. G \in [0..j -> S]
    BY <2>1, <2>3, <2>4
  <2>6. ASSUME NEW i \in 1..j PROVE G[i] = st[i][G[i - 1]]
    <3>1. i - 1 \in 0..j /\ i - 1 # j /\ i \in 0..j
      BY <2>2
    <3>2. G[i - 1] = F[i - 1] /\ G[i] = IF i = j THEN e ELSE F[i]
      BY <3>1
    <3>3. i # j => i \in 1..m
      BY <2>2
    <3> QED BY <2>1, <2>2, <3>2, <3>3 DEF e, Turns
  <2>7. G[0] = start
    BY <2>1, <2>2 DEF Turns
  <2> HIDE DEF G
  <2>8. UpTo(G, j)
    BY <2>5, <2>6, <2>7 DEF Turns
  <2> QED BY <2>2, <2>8
<1> HIDE DEF T
<1>3. n \in T
  BY <1>1, <1>2, NatInduct
<1> QED BY <1>3 DEF T

(***************************************************************************)
(* The loops.                                                              *)
(***************************************************************************)

(* Places in order, place by place.                                         *)
InOrderRun(F, places, n) ==
  /\ F \in [0..n -> Seq(Nat)] /\ F[0] = << >>
  /\ \A k \in 1..n : F[k] = IF k \in places THEN Append(F[k - 1], k) ELSE F[k - 1]

(* The places picked in order, with the function that picks them.           *)
LEMMA InOrderRuns ==
  ASSUME NEW text, NEW places, Len(text) \in Nat
  PROVE  \E F : InOrderRun(F, places, Len(text)) /\ F[Len(text)] = InOrder(text, places)
<1> DEFINE n == Len(text)
           st == [k \in 1..n |-> [q \in Seq(Nat) |-> IF k \in places THEN Append(q, k) ELSE q]]
           R(C) == [k \in 0..n |->
             IF k = 0 THEN << >> ELSE IF k \in places THEN Append(C[k - 1], k) ELSE C[k - 1]]
           C == CHOOSE f : f = R(f)
<1>1. n \in Nat
  OBVIOUS
<1>2. InOrder(text, places) = C[n]
  BY DEF InOrder
<1> HIDE DEF n
<1>3. PICK F \in [0..n -> Seq(Nat)] : Turns(F, n, << >>, st)
  <2>1. st \in [1..n -> [Seq(Nat) -> Seq(Nat)]] /\ << >> \in Seq(Nat)
    BY <1>1
  <2> HIDE DEF st
  <2> QED BY <1>1, <2>1, TurnsTaken
<1>4. InOrderRun(F, places, n)
  <2> SUFFICES ASSUME NEW k \in 1..n
               PROVE F[k] = IF k \in places THEN Append(F[k - 1], k) ELSE F[k - 1]
    BY <1>3 DEF InOrderRun, Turns
  <2>1. k - 1 \in 0..n
    BY <1>1
  <2> QED BY <1>3, <2>1 DEF Turns
<1>5. F = R(F)
  <2>1. \A k \in 0..n : k = 0 \/ k \in 1..n
    BY <1>1
  <2> QED BY <1>4, <2>1 DEF InOrderRun
<1>6. C = R(C)
  <2> HIDE DEF R
  <2> QED BY <1>5
<1>7. \A k \in 0..n : C[k] = F[k]
  <2> DEFINE T == {k \in Nat : k <= n => C[k] = F[k]}
  <2> HIDE DEF C
  <2>1. 0 \in T
    BY <1>1, <1>6, <1>4 DEF InOrderRun
  <2>2. ASSUME NEW k \in Nat, k \in T PROVE k + 1 \in T
    <3> SUFFICES ASSUME k + 1 <= n PROVE C[k + 1] = F[k + 1]
      OBVIOUS
    <3>1. PICK j \in 1..n : j = k + 1 /\ j - 1 = k /\ j # 0 /\ j \in 0..n
      BY <1>1
    <3>2. C[j] = IF j \in places THEN Append(C[j - 1], j) ELSE C[j - 1]
      BY <1>6, <3>1
    <3>3. C[j - 1] = F[j - 1]
      BY <1>1, <2>2, <3>1
    <3>4. F[j] = IF j \in places THEN Append(F[j - 1], j) ELSE F[j - 1]
      BY <3>1, <1>4 DEF InOrderRun
    <3> QED BY <3>1, <3>2, <3>3, <3>4, Zenon
  <2> HIDE DEF T
  <2>3. Nat \subseteq T
    BY <2>1, <2>2, NatInduct
  <2> QED BY <2>3, <1>1 DEF T
<1> HIDE DEF C
<1>8. InOrder(text, places) = F[n]
  BY <1>1, <1>2, <1>7
<1> QED BY <1>4, <1>8 DEF n

Rising(q) == \A i, j \in 1..Len(q) : i < j => q[i] < q[j]

(* They are places of the text, first to last,                              *)
LEMMA InOrderRises ==
  ASSUME NEW text, NEW places, Len(text) \in Nat
  PROVE  InOrder(text, places) \in Seq(1..Len(text)) /\ Rising(InOrder(text, places))
<1> DEFINE n == Len(text)
<1>1. PICK F : InOrderRun(F, places, n) /\ F[n] = InOrder(text, places)
  BY InOrderRuns
<1> DEFINE Good(k) == F[k] \in Seq(1..k) /\ Rising(F[k])
           T == {k \in Nat : k <= n => Good(k)}
<1>2. n \in Nat
  OBVIOUS
<1> HIDE DEF n
<1>3. 0 \in T
  BY <1>1 DEF InOrderRun, Rising
<1>4. ASSUME NEW k \in Nat, k \in T PROVE k + 1 \in T
  <2> SUFFICES ASSUME k + 1 <= n PROVE Good(k + 1)
    OBVIOUS
  <2>1. PICK j \in 1..n : j = k + 1 /\ j - 1 = k
    BY <1>2
  <2>2. F[k] \in Seq(1..k) /\ Rising(F[k])
    BY <1>2, <1>4
  <2>3. F[j] = IF j \in places THEN Append(F[k], j) ELSE F[k]
    BY <1>1, <2>1 DEF InOrderRun
  <2>4. F[k] \in Seq(1..j)
    BY <2>1, <2>2
  <2>5. CASE j \in places
    <3> DEFINE q == F[k]
    <3>1. q \in Seq(1..j) /\ \A i \in 1..Len(q) : q[i] \in 1..k
      BY <2>2, <2>4
    <3>2. F[j] = Append(q, j) /\ j \in 1..j
      BY <2>1, <2>3, <2>5
    <3> HIDE DEF q
    <3>3. Append(q, j) \in Seq(1..j) /\ Len(Append(q, j)) = Len(q) + 1
      BY <3>1, <3>2
    <3>4. \A i \in 1..Len(q) + 1 : Append(q, j)[i] = IF i = Len(q) + 1 THEN j ELSE q[i]
      BY <3>1
    <3>5. Rising(Append(q, j))
      <4> SUFFICES ASSUME NEW x \in 1..Len(q) + 1, NEW y \in 1..Len(q) + 1, x < y
                   PROVE Append(q, j)[x] < Append(q, j)[y]
        BY <3>3 DEF Rising
      <4>0. Len(q) \in Nat
        BY <3>1
      <4>1. x \in 1..Len(q) /\ (y # Len(q) + 1 => y \in 1..Len(q))
        BY <4>0
      <4>2. y # Len(q) + 1 => q[x] < q[y]
        BY <2>2, <4>1 DEF Rising, q
      <4> QED BY <2>1, <3>1, <3>4, <4>0, <4>1, <4>2
    <3> QED BY <2>1, <3>2, <3>3, <3>5
  <2>6. CASE j \notin places
    BY <2>1, <2>2, <2>3, <2>4, <2>6
  <2> QED BY <2>5, <2>6
<1> HIDE DEF T
<1>5. Nat \subseteq T
  BY <1>3, <1>4, NatInduct
<1>6. Good(n)
  <2> HIDE DEF Good
  <2>1. n \in T
    BY <1>2, <1>5
  <2> QED BY <2>1, <1>2 DEF T
<1> QED BY <1>1, <1>6 DEF n

(* and the only way to list them so.                                        *)
Lists(p, places, n) ==
  /\ Len(p) \in Nat /\ p \in [1..Len(p) -> 1..n] /\ Rising(p)
  /\ \A k \in 1..n : k \in places <=> \E i \in 1..Len(p) : p[i] = k

(* A list of exactly the places asked for, in order, is the one InOrder     *)
(* returns.                                                                 *)
LEMMA InOrderIs ==
  ASSUME NEW text, NEW places, Len(text) \in Nat, NEW p, Lists(p, places, Len(text))
  PROVE  InOrder(text, places) = p
<1> DEFINE n == Len(text)
           m == Len(p)
<1>1. PICK F : InOrderRun(F, places, n) /\ F[n] = InOrder(text, places)
  BY InOrderRuns
<1>2. /\ n \in Nat /\ m \in Nat /\ p \in [1..m -> 1..n]
      /\ \A i, j \in 1..m : i < j => p[i] < p[j]
      /\ \A k \in 1..n : k \in places <=> \E i \in 1..m : p[i] = k
  BY DEF Lists, Rising
<1> HIDE DEF n, m
<1> DEFINE Good(k) == /\ F[k] \in Seq(Nat) /\ Len(F[k]) <= m
                      /\ \A i \in 1..m : i <= Len(F[k]) <=> p[i] <= k
                      /\ \A i \in 1..Len(F[k]) : F[k][i] = p[i]
           T == {k \in Nat : k <= n => Good(k)}
<1>3. 0 \in T
  <2>1. \A i \in 1..m : p[i] >= 1
    BY <1>2
  <2>2. F[0] = << >>
    BY <1>1 DEF InOrderRun
  <2>3. F[0] \in Seq(Nat) /\ Len(F[0]) = 0
    BY <2>2
  <2>4. Good(0)
    BY <1>2, <2>1, <2>3
  <2> HIDE DEF Good
  <2> QED BY <2>4
<1>4. ASSUME NEW k \in Nat, k \in T PROVE k + 1 \in T
  <2> SUFFICES ASSUME k + 1 <= n PROVE Good(k + 1)
    OBVIOUS
  <2>1. PICK j \in 1..n : j = k + 1 /\ j - 1 = k
    BY <1>2
  <2> DEFINE q == F[k]
             a == Len(q)
  <2>2. /\ q \in Seq(Nat) /\ a <= m
        /\ \A i \in 1..m : i <= a <=> p[i] <= k
        /\ \A i \in 1..a : q[i] = p[i]
    BY <1>2, <1>4
  <2>3. F[j] = IF j \in places THEN Append(q, j) ELSE q
    BY <1>1, <2>1 DEF InOrderRun
  <2>4. a \in Nat
    BY <2>2
  <2> HIDE DEF T
  <2>5. CASE j \in places
    <3>1. PICK i \in 1..m : p[i] = j
      BY <1>2, <2>5
    <3>2. i > a
      BY <1>2, <2>1, <2>2, <2>4, <3>1
    <3>3. i = a + 1
      <4>1. SUFFICES ASSUME i # a + 1 PROVE FALSE
        OBVIOUS
      <4>1a. m \in Nat /\ i \in 1..m /\ a \in Nat /\ i > a
        BY <1>2, <2>4, <3>2
      <4>1b. a + 1 \in 1..m /\ a + 1 < i
        BY <4>1, <4>1a
      <4>2. a + 1 \in 1..m /\ a + 1 < i /\ p[a + 1] \in 1..n
        BY <1>2, <4>1b
      <4>3. p[a + 1] < j /\ ~(p[a + 1] <= k)
        BY <1>2, <2>2, <2>4, <3>1, <4>2
      <4> QED BY <2>1, <4>2, <4>3
    <3>4. F[j] = Append(q, j) /\ j \in Nat
      BY <2>3, <2>5
    <3>5. Append(q, j) \in Seq(Nat) /\ Len(Append(q, j)) = a + 1
      BY <2>2, <3>4
    <3>6. \A x \in 1..a + 1 : Append(q, j)[x] = IF x = a + 1 THEN j ELSE q[x]
      BY <2>2
    <3> HIDE DEF a, q
    <3>7. \A x \in 1..m : x <= a + 1 <=> p[x] <= j
      <4> TAKE x \in 1..m
      <4>1. p[x] \in 1..n /\ p[i] \in 1..n
        BY <1>2
      <4>2. CASE x <= a
        BY <2>1, <2>2, <2>4, <4>1, <4>2
      <4>3. CASE x = i
        BY <3>1, <3>3, <4>3, <2>1
      <4>4. CASE x > i
        BY <1>2, <3>1, <3>3, <2>4, <4>1, <4>4
      <4> QED BY <2>4, <3>3, <4>2, <4>3, <4>4
    <3>8. \A x \in 1..a + 1 : Append(q, j)[x] = p[x]
      <4> TAKE x \in 1..a + 1
      <4>1. x = a + 1 \/ x \in 1..a
        BY <2>4
      <4> QED BY <2>2, <3>1, <3>3, <3>6, <4>1
    <3>9. a + 1 <= m
      BY <3>1, <3>3
    <3> QED BY <2>1, <3>4, <3>5, <3>7, <3>8, <3>9
  <2>6. CASE j \notin places
    <3>1. F[j] = q
      BY <2>3, <2>6
    <3>2. \A i \in 1..m : p[i] # j
      BY <1>2, <2>6
    <3>3. \A i \in 1..m : i <= a <=> p[i] <= j
      <4> TAKE i \in 1..m
      <4>1. p[i] \in 1..n /\ p[i] # j /\ (i <= a <=> p[i] <= k)
        BY <1>2, <2>2, <3>2
      <4> QED BY <2>1, <4>1
    <3> QED BY <2>1, <2>2, <3>1, <3>3
  <2> QED BY <2>5, <2>6
<1> HIDE DEF T
<1>5. Nat \subseteq T
  BY <1>3, <1>4, NatInduct
<1>6. Good(n)
  <2> HIDE DEF Good
  <2>1. n \in T
    BY <1>2, <1>5
  <2> QED BY <2>1, <1>2 DEF T
<1>7. F[n] \in Seq(Nat) /\ Len(F[n]) \in Nat /\ F[n] \in [1..Len(F[n]) -> Nat]
  BY <1>6
<1>8. Len(F[n]) = m
  <2>1. \A i \in 1..m : i <= Len(F[n])
    BY <1>2, <1>6
  <2> QED BY <1>2, <1>6, <1>7, <2>1
<1>9. F[n] = p
  BY <1>2, <1>6, <1>7, <1>8
<1> QED BY <1>1, <1>9 DEF n

(***************************************************************************)
(* Rows.                                                                   *)
(***************************************************************************)
Kinds == {"EQU", "CHG", "ADD", "DEL"}
RowSet == [ch : Kinds, line : Nat]

(* c[k] is how many lines the first k rows show.                            *)
CountsLines(c, rs, total) ==
  /\ c \in [0..Len(rs) -> Nat] /\ c[0] = 0 /\ c[Len(rs)] = total
  /\ \A k \in 1..Len(rs) :
       IF rs[k].line = 0 THEN c[k] = c[k - 1] ELSE rs[k].line = c[k - 1] + 1 /\ c[k] = c[k - 1] + 1
ShowsLines(rs, total) == \E c : CountsLines(c, rs, total)

(* Two rows side by side, and two rows of the left file one after another.  *)
PairTrue(fs, p, q) ==
  /\ p.ch = "EQU" <=> q.ch = "EQU"
  /\ p.ch = "EQU" => p.line # 0 /\ q.line # 0 /\ fs[1][p.line] = fs[2][q.line]
  /\ p.ch = "ADD" => p.line # 0 /\ q.line = 0
  /\ p.ch = "DEL" => p.line = 0 /\ q.line # 0
Joins(p, q) == p.ch = "EQU" \/ q.ch = "EQU" \/ p.ch = q.ch

Abreast(fs, ps, qs) ==
  /\ Len(ps) = Len(qs)
  /\ \A k \in 1..Len(ps) : PairTrue(fs, ps[k], qs[k])
  /\ \A k \in 1..Len(ps), j \in 1..Len(ps) : j = k + 1 => Joins(ps[k], ps[j])

(* W rows of a kind that show w lines, those behind line t.                 *)
Strip(ch, t, w, W) == [i \in 1..W |-> [ch |-> ch, line |-> IF i <= w THEN t + i ELSE 0]]

(* What marks a row can carry.                                              *)
LEMMA KindsAre == "EQU" \in Kinds /\ "CHG" \in Kinds /\ "ADD" \in Kinds /\ "DEL" \in Kinds
BY DEF Kinds

(* A strip of rows, place by place.                                         *)
LEMMA StripIs ==
  ASSUME NEW ch \in Kinds, NEW t \in Nat, NEW w \in Nat, NEW W \in Nat, w <= W
  PROVE  /\ Strip(ch, t, w, W) \in Seq(RowSet) /\ Len(Strip(ch, t, w, W)) = W
         /\ \A i \in 1..W : Strip(ch, t, w, W)[i] = [ch |-> ch, line |-> IF i <= w THEN t + i ELSE 0]
<1>1. \A i \in 1..W : [ch |-> ch, line |-> IF i <= w THEN t + i ELSE 0] \in RowSet
  BY DEF RowSet
<1> QED BY <1>1 DEF Strip

(* One sequence behind another, place by place.                             *)
LEMMA ConcatIs ==
  ASSUME NEW S, NEW p \in Seq(S), NEW q \in Seq(S)
  PROVE  /\ p \o q \in Seq(S) /\ Len(p \o q) = Len(p) + Len(q)
         /\ Len(p) \in Nat /\ Len(q) \in Nat
         /\ \A i \in 1..Len(p) : (p \o q)[i] = p[i]
         /\ \A i \in 1..Len(q) : (p \o q)[Len(p) + i] = q[i]
         /\ \A k \in 1..Len(p) + Len(q) : k \notin 1..Len(p) => k - Len(p) \in 1..Len(q)
                                                             /\ (p \o q)[k] = q[k - Len(p)]
OBVIOUS

(* To append is associative.                                                *)
Joint(p, q, r) == (p \o q) \o r = p \o (q \o r)

(* It does not matter which of three sequences are joined first.            *)
LEMMA Joined == \A S, p, q, r : p \in Seq(S) /\ q \in Seq(S) /\ r \in Seq(S) => Joint(p, q, r)
BY SMTT(60), ConcatAssociative DEF Joint

(* Rows that show t lines and a strip of the next w show t + w.             *)
LEMMA StripShows ==
  ASSUME NEW rs \in Seq(RowSet), NEW t \in Nat, ShowsLines(rs, t),
         NEW ch \in Kinds, NEW w \in Nat, NEW W \in Nat, w <= W
  PROVE  ShowsLines(rs \o Strip(ch, t, w, W), t + w)
<1>1. PICK c : CountsLines(c, rs, t)
  BY DEF ShowsLines
<1> DEFINE n == Len(rs)
           p == Strip(ch, t, w, W)
           all == rs \o p
           lesser(k) == IF k <= w THEN k ELSE w
           d == [k \in 0..n + W |-> IF k <= n THEN c[k] ELSE t + lesser(k - n)]
<1>2. p \in Seq(RowSet) /\ Len(p) = W
      /\ \A i \in 1..W : p[i].line = IF i <= w THEN t + i ELSE 0
  <2>1. p \in Seq(RowSet) /\ Len(p) = W
        /\ \A i \in 1..W : p[i] = [ch |-> ch, line |-> IF i <= w THEN t + i ELSE 0]
    BY StripIs
  <2> HIDE DEF p
  <2> QED BY <2>1
<1> HIDE DEF p
<1>3. /\ Len(all) = n + W /\ n \in Nat /\ \A i \in 1..n : all[i] = rs[i]
      /\ \A k \in 1..n + W : k \notin 1..n => k - n \in 1..W /\ all[k] = p[k - n]
  BY ZenonT(60), <1>2, ConcatIs
<1>4. /\ c \in [0..n -> Nat] /\ c[0] = 0 /\ c[n] = t
      /\ \A k \in 1..n :
           IF rs[k].line = 0 THEN c[k] = c[k - 1] ELSE rs[k].line = c[k - 1] + 1 /\ c[k] = c[k - 1] + 1
  BY <1>1 DEF CountsLines
<1> HIDE DEF n, all
<1>5. d \in [0..n + W -> Nat] /\ d[0] = 0 /\ d[n + W] = t + w
  <2>1. \A k \in 0..n + W : IF k <= n THEN c[k] \in Nat ELSE t + lesser(k - n) \in Nat
    BY SMTT(60), <1>3, <1>4
  <2>2. d \in [0..n + W -> Nat]
    BY <2>1
  <2>3. d[0] = 0
    BY <1>3, <1>4
  <2>4. d[n + W] = t + w
    <3>1. PICK j \in 0..n + W : j = n + W /\ j - n = W
      BY <1>3
    <3>2. d[j] = IF j <= n THEN c[j] ELSE t + lesser(j - n)
      OBVIOUS
    <3> HIDE DEF d
    <3>3. (j <= n => W = 0 /\ j = n) /\ lesser(W) = w
      BY <1>3, <3>1
    <3>4. j <= n => w = 0
      BY <3>3
    <3>5. d[j] = IF j <= n THEN t ELSE t + w
      BY <1>4, <3>1, <3>2, <3>3
    <3> QED BY <3>1, <3>4, <3>5
  <2> QED BY <2>2, <2>3, <2>4
<1>6. ASSUME NEW k \in 1..n + W
      PROVE IF all[k].line = 0 THEN d[k] = d[k - 1]
            ELSE all[k].line = d[k - 1] + 1 /\ d[k] = d[k - 1] + 1
  <2>1. CASE k \in 1..n
    <3>1. d[k] = c[k] /\ d[k - 1] = c[k - 1] /\ all[k] = rs[k]
      BY <1>3, <2>1
    <3> QED BY <1>4, <2>1, <3>1
  <2>2. CASE k \notin 1..n
    <3>1. PICK i \in 1..W : i = k - n /\ all[k] = p[i]
      BY <1>3, <2>2
    <3>2. d[k] = t + lesser(i)
      BY <1>3, <3>1
    <3>3. d[k - 1] = t + lesser(i - 1)
      <4>1. k - 1 \in 0..n + W /\ k - 1 - n = i - 1 /\ (i = 1 => k - 1 = n) /\ (i # 1 => ~(k - 1 <= n))
        BY SMTT(60), <1>3, <3>1
      <4>2. d[k - 1] = IF k - 1 <= n THEN c[k - 1] ELSE t + lesser(k - 1 - n)
        BY <4>1
      <4> HIDE DEF d
      <4> QED BY <1>3, <1>4, <3>1, <4>1, <4>2
    <3>4. all[k].line = IF i <= w THEN t + i ELSE 0
      BY <1>2, <3>1
    <3> HIDE DEF d
    <3> QED BY <3>2, <3>3, <3>4
  <2> QED BY <2>1, <2>2
<1> HIDE DEF d
<1>7. CountsLines(d, all, t + w)
  BY <1>3, <1>5, <1>6 DEF CountsLines
<1> QED BY <1>7 DEF ShowsLines, all, p

(* Rows abreast behind rows abreast are abreast, when a change begins where *)
(* equal rows end.                                                          *)
LEMMA AbreastConcat ==
  ASSUME NEW fs, NEW ps \in Seq(RowSet), NEW qs \in Seq(RowSet), Abreast(fs, ps, qs),
         NEW pt \in Seq(RowSet), NEW qt \in Seq(RowSet), Abreast(fs, pt, qt),
         Len(ps) = 0 \/ Len(pt) = 0 \/ Joins(ps[Len(ps)], pt[1])
  PROVE  Abreast(fs, ps \o pt, qs \o qt)
<1> DEFINE n == Len(ps)
           w == Len(pt)
           p == ps \o pt
           q == qs \o qt
<1>1. n = Len(qs) /\ w = Len(qt)
  BY DEF Abreast
<1>2. /\ n \in Nat /\ w \in Nat /\ Len(p) = n + w
      /\ \A i \in 1..n : p[i] = ps[i]
      /\ \A k \in 1..n + w : k \notin 1..n => k - n \in 1..w /\ p[k] = pt[k - n]
  BY ConcatIs
<1>3. /\ Len(q) = n + w
      /\ \A i \in 1..n : q[i] = qs[i]
      /\ \A k \in 1..n + w : k \notin 1..n => k - n \in 1..w /\ q[k] = qt[k - n]
  BY <1>1, ConcatIs
<1> HIDE DEF p, q
<1>4. ASSUME NEW k \in 1..n + w PROVE PairTrue(fs, p[k], q[k])
  <2>1. CASE k \in 1..n
    BY <1>2, <1>3, <2>1 DEF Abreast
  <2>2. CASE k \notin 1..n
    BY <1>2, <1>3, <2>2 DEF Abreast
  <2> QED BY <2>1, <2>2
<1>5. ASSUME NEW k \in 1..n + w, NEW j \in 1..n + w, j = k + 1 PROVE Joins(p[k], p[j])
  <2>1. CASE j \in 1..n
    <3>1. k \in 1..n
      BY <1>2, <1>5, <2>1
    <3> QED BY <1>2, <1>5, <2>1, <3>1 DEF Abreast
  <2>2. CASE k \notin 1..n
    <3>1. j \notin 1..n /\ j - n = (k - n) + 1
      BY <1>2, <1>5, <2>2
    <3> QED BY <1>2, <2>2, <3>1 DEF Abreast
  <2>3. CASE k \in 1..n /\ j \notin 1..n
    <3>1. k = n /\ j - n = 1 /\ n # 0 /\ w # 0
      BY <1>2, <1>5, <2>3
    <3>2. p[k] = ps[n] /\ p[j] = pt[1]
      BY <1>2, <2>3, <3>1
    <3> QED BY <3>1, <3>2
  <2> QED BY <2>1, <2>2, <2>3
<1> QED BY <1>2, <1>3, <1>4, <1>5 DEF Abreast, p, q

(***************************************************************************)
(* What a command prints.                                                  *)
(***************************************************************************)

(* The ends of a gap between two lines that match.                          *)
GapEnds(e, f) ==
  /\ \A s \in Sides : e[s] \in Nat /\ f[s] \in Nat /\ e[s] < f[s]
  /\ \E s \in Sides : f[s] # e[s] + 1
GapLines(s, e, f) == f[s] - e[s] - 1
GapRows(e, f) == Greatest(GapLines(1, e, f), GapLines(2, e, f))
GapKind(s, e, f) ==
  IF GapLines(s, e, f) = 0 THEN "DEL" ELSE IF GapLines(Opposite(s), e, f) = 0 THEN "ADD" ELSE "CHG"

(* The two files of the view.                                               *)
LEMMA SidesAre == /\ Sides = {1, 2} /\ Opposite(1) = 2 /\ Opposite(2) = 1
                  /\ \A s \in Sides : Opposite(s) \in Sides /\ Opposite(Opposite(s)) = s
BY DEF Sides, Opposite

(* Rows printed for lines t + 1 .. t + w are a full strip of them.          *)
LEMMA NumberedIs ==
  ASSUME NEW ch, NEW t \in Nat, NEW w \in Nat
  PROVE  Numbered(ch, t, t + w) = Strip(ch, t, w, w)
<1>1. \A i \in 1..w : t + i = IF i <= w THEN t + i ELSE 0
  OBVIOUS
<1>2. t + w - t = w
  OBVIOUS
<1> QED BY <1>1, <1>2 DEF Numbered, Strip

(* The strip of both kinds of rows of a change.                             *)
LEMMA ChangeIs ==
  ASSUME NEW t \in Nat, NEW w \in Nat, NEW b \in Nat
  PROVE  Numbered("CHG", t, t + w) \o Blank("CHG", b) = Strip("CHG", t, w, w + b)
<1> DEFINE p == Numbered("CHG", t, t + w)
           q == Blank("CHG", b)
           r == Strip("CHG", t, w, w + b)
<1>1. p \in Seq(RowSet) /\ Len(p) = w /\ \A i \in 1..w : p[i] = [ch |-> "CHG", line |-> t + i]
  <2>1. p = Strip("CHG", t, w, w)
    BY NumberedIs
  <2>2. "CHG" \in Kinds /\ w <= w
    BY DEF Kinds
  <2>3. /\ Strip("CHG", t, w, w) \in Seq(RowSet) /\ Len(Strip("CHG", t, w, w)) = w
        /\ \A i \in 1..w : Strip("CHG", t, w, w)[i] = [ch |-> "CHG", line |-> IF i <= w THEN t + i ELSE 0]
    BY <2>2, StripIs
  <2> HIDE DEF p
  <2> QED BY <2>1, <2>3
<1>2. q \in Seq(RowSet) /\ Len(q) = b /\ \A i \in 1..b : q[i] = [ch |-> "CHG", line |-> 0]
  BY DEF Blank, RowSet, Kinds
<1>3. r \in Seq(RowSet) /\ Len(r) = w + b
      /\ \A i \in 1..w + b : r[i] = [ch |-> "CHG", line |-> IF i <= w THEN t + i ELSE 0]
  BY SMTT(60), StripIs DEF Kinds
<1> HIDE DEF p, q, r
<1>4. /\ p \o q \in Seq(RowSet) /\ Len(p \o q) = w + b
      /\ \A i \in 1..w : (p \o q)[i] = p[i]
      /\ \A k \in 1..w + b : k \notin 1..w => k - w \in 1..b /\ (p \o q)[k] = q[k - w]
  <2>1. /\ p \o q \in Seq(RowSet) /\ Len(p \o q) = Len(p) + Len(q)
        /\ \A i \in 1..Len(p) : (p \o q)[i] = p[i]
        /\ \A k \in 1..Len(p) + Len(q) : k \notin 1..Len(p) => k - Len(p) \in 1..Len(q)
                                                           /\ (p \o q)[k] = q[k - Len(p)]
    <3>1. p \in Seq(RowSet) /\ q \in Seq(RowSet)
      BY <1>1, <1>2
    <3> QED BY <3>1, ConcatIs
  <2> QED BY <1>1, <1>2, <2>1
<1>5. \A k \in 1..w + b : (p \o q)[k] = r[k]
  BY <1>1, <1>2, <1>3, <1>4
<1>6. p \o q = r
  BY SMTT(60), <1>3, <1>4, <1>5
<1> QED BY <1>6 DEF p, q, r

(* Equal rows are one as well.                                              *)
LEMMA NumberedSeq ==
  ASSUME NEW ch \in Kinds, NEW t \in Nat, NEW u \in Nat, t <= u
  PROVE  Numbered(ch, t, u) = Strip(ch, t, u - t, u - t) /\ Numbered(ch, t, u) \in Seq(RowSet)
         /\ Len(Numbered(ch, t, u)) = u - t
<1>1. PICK w \in Nat : w = u - t /\ u = t + w /\ w <= w
  OBVIOUS
<1>2. Numbered(ch, t, t + w) = Strip(ch, t, w, w)
  BY NumberedIs
<1>3. Strip(ch, t, w, w) \in Seq(RowSet) /\ Len(Strip(ch, t, w, w)) = w
  <2>1. \A n \in Nat : n <= n => Strip(ch, t, n, n) \in Seq(RowSet) /\ Len(Strip(ch, t, n, n)) = n
    BY ZenonT(60), StripIs
  <2> QED BY <1>1, <2>1
<1> QED BY <1>1, <1>2, <1>3

(* What is printed for lines is rows.                                       *)
LEMMA NumberedType ==
  ASSUME NEW ch \in Kinds, NEW t \in Nat, NEW u \in Nat
  PROVE  Numbered(ch, t, u) \in Seq(RowSet)
<1>1. CASE t <= u
  BY <1>1, NumberedSeq
<1>2. CASE ~(t <= u)
  <2>1. 1..(u - t) = {}
    BY <1>2
  <2>2. Numbered(ch, t, u) = << >>
    BY <2>1 DEF Numbered
  <2> QED BY <2>2
<1> QED BY <1>1, <1>2

(* What is printed for no line is rows.                                     *)
LEMMA BlankSeq == ASSUME NEW ch \in Kinds, NEW n \in Nat PROVE Blank(ch, n) \in Seq(RowSet)
BY DEF Blank, RowSet

(* The command for a gap between two matched places, as ed would write it.  *)
LEMMA CommandIs ==
  ASSUME NEW e, NEW f, GapEnds(e, f)
  PROVE  /\ DiffCmd(e, f).cmd = IF GapLines(1, e, f) = 0 THEN "a"
                                ELSE IF GapLines(2, e, f) = 0 THEN "d" ELSE "c"
         /\ \A s \in Sides : DiffCmd(e, f).a[s] =
              IF GapLines(s, e, f) = 0 THEN <<e[s], e[s]>> ELSE <<e[s] + 1, f[s] - 1>>
<1>1. \A s \in Sides : e[s] \in Nat /\ f[s] \in Nat /\ (f[s] = e[s] + 1 <=> GapLines(s, e, f) = 0)
  BY DEF GapEnds, GapLines
<1> QED BY <1>1 DEF DiffCmd, Sides

(* What one command adds to one side: the equal lines in front of it, then a*)
(* strip as high as the gap.                                                *)
LEMMA PrintedIs ==
  ASSUME NEW e, NEW f, GapEnds(e, f), NEW s \in Sides, NEW st,
         st.rows \in Seq(RowSet), st.line \in Nat
  PROVE  Printed(s, st, DiffCmd(e, f)) =
           [line |-> f[s] - 1,
            rows |-> (st.rows \o Numbered("EQU", st.line, e[s]))
                       \o Strip(GapKind(s, e, f), e[s], GapLines(s, e, f), GapRows(e, f))]
<1> DEFINE o == Opposite(s)
           w == GapLines(s, e, f)
           v == GapLines(o, e, f)
           W == GapRows(e, f)
           op == DiffCmd(e, f)
<1>1. /\ e[s] \in Nat /\ f[s] \in Nat /\ e[o] \in Nat /\ f[o] \in Nat
      /\ w \in Nat /\ v \in Nat /\ f[s] = e[s] + w + 1 /\ f[o] = e[o] + v + 1
      /\ w # 0 \/ v # 0
  <2>1. o \in Sides /\ \A x \in Sides : x = s \/ x = o
    BY DEF Sides, Opposite
  <2>2. /\ e[s] \in Nat /\ f[s] \in Nat /\ e[o] \in Nat /\ f[o] \in Nat /\ e[s] < f[s] /\ e[o] < f[o]
        /\ f[s] # e[s] + 1 \/ f[o] # e[o] + 1
    BY <2>1 DEF GapEnds
  <2>3. w = f[s] - e[s] - 1 /\ v = f[o] - e[o] - 1
    BY DEF GapLines
  <2> HIDE DEF o, w, v
  <2> DEFINE g == e[s]
             h == f[s]
             x == e[o]
             y == f[o]
  <2>4. g \in Nat /\ h \in Nat /\ x \in Nat /\ y \in Nat /\ g < h /\ x < y /\ (h # g + 1 \/ y # x + 1)
        /\ w = h - g - 1 /\ v = y - x - 1
    BY <2>2, <2>3
  <2> HIDE DEF g, h, x, y
  <2>5. w \in Nat /\ v \in Nat /\ h = g + w + 1 /\ y = x + v + 1 /\ (w # 0 \/ v # 0)
    BY <2>4
  <2> QED BY <2>4, <2>5 DEF g, h, x, y
<1>2. W = Greatest(w, v)
  BY <1>1, SidesAre DEF GapRows, Greatest
<1>3. /\ op.a[s] = IF w = 0 THEN <<e[s], e[s]>> ELSE <<e[s] + 1, f[s] - 1>>
      /\ op.a[o] = IF v = 0 THEN <<e[o], e[o]>> ELSE <<e[o] + 1, f[o] - 1>>
  BY CommandIs, SidesAre
<1>4. op.cmd = IF w = 0 THEN AddCmd(s) ELSE IF v = 0 THEN (IF s = 1 THEN "d" ELSE "a") ELSE "c"
  <2>1. op.cmd = IF GapLines(1, e, f) = 0 THEN "a" ELSE IF GapLines(2, e, f) = 0 THEN "d" ELSE "c"
    BY CommandIs
  <2>2. (s = 1 /\ w = GapLines(1, e, f) /\ v = GapLines(2, e, f))
        \/ (s = 2 /\ w = GapLines(2, e, f) /\ v = GapLines(1, e, f))
    BY SidesAre
  <2> HIDE DEF op, w, v
  <2> QED BY <1>1, <2>1, <2>2 DEF AddCmd
<1>5. GapKind(s, e, f) = IF w = 0 THEN "DEL" ELSE IF v = 0 THEN "ADD" ELSE "CHG"
  BY DEF GapKind
<1> DEFINE equal == st.rows \o Numbered("EQU", st.line, e[s])
<1>6. CASE w = 0
  <2>1. op.cmd = AddCmd(s) /\ op.a[s][1] = e[s] /\ op.a[o][1] = e[o] + 1 /\ op.a[o][2] = e[o] + v
    BY <1>1, <1>3, <1>4, <1>6
  <2>2. op.a[o][2] - op.a[o][1] + 1 = v /\ W = v /\ f[s] - 1 = e[s]
    BY SMTT(60), <1>1, <1>2, <1>6, <2>1 DEF Greatest
  <2> HIDE DEF op, w, v, W
  <2>3. Printed(s, st, op) = [line |-> e[s], rows |-> equal \o Blank("DEL", v)]
    BY <2>1, <2>2 DEF Printed
  <2>4. Blank("DEL", v) = Strip("DEL", e[s], w, W)
    <3>1. \A i \in 1..v : ~(i <= w)
      BY <1>1, <1>6
    <3> QED BY <2>2, <3>1 DEF Blank, Strip
  <2> QED BY <1>5, <1>6, <2>2, <2>3, <2>4 DEF op, w, v, W
<1>7. CASE w # 0
  <2>1. op.a[s][1] = e[s] + 1 /\ op.a[s][2] = e[s] + w /\ op.a[s][1] - 1 = e[s] /\ f[s] - 1 = e[s] + w
    <3>1. op.a[s] = <<e[s] + 1, f[s] - 1>>
      BY <1>3, <1>7
    <3> HIDE DEF op, w, v, W
    <3>2. op.a[s][1] = e[s] + 1 /\ op.a[s][2] = f[s] - 1
      BY <3>1
    <3> QED BY SMTT(60), <1>1, <3>2
  <2>2. op.cmd # AddCmd(s) /\ (op.cmd = "c" <=> v # 0)
    BY <1>4, <1>7 DEF AddCmd
  <2> HIDE DEF op, w, v, W
  <2>3. CASE v = 0
    <3>1. Printed(s, st, op) = [line |-> e[s] + w, rows |-> equal \o Numbered("ADD", e[s], e[s] + w)]
      BY <2>1, <2>2, <2>3 DEF Printed
    <3>2. W = w
      BY <1>1, <1>2, <2>3 DEF Greatest
    <3>3. Numbered("ADD", e[s], e[s] + w) = Strip("ADD", e[s], w, W)
      BY <1>1, <3>2, NumberedIs
    <3> QED BY <1>5, <1>7, <2>1, <2>3, <3>1, <3>3 DEF op, w, v, W
  <2>4. CASE v # 0
    <3>1. op.a[o][1] = e[o] + 1 /\ op.a[o][2] = e[o] + v
      <4>1. op.a[o] = <<e[o] + 1, f[o] - 1>>
        BY <1>3, <2>4
      <4>2. op.a[o][1] = e[o] + 1 /\ op.a[o][2] = f[o] - 1
        BY <4>1
      <4> QED BY <1>1, <4>2
    <3>2. op.a[o][2] - op.a[o][1] - (op.a[s][2] - op.a[s][1]) = v - w
      <4>1. PICK x, y : x = op.a[o][2] /\ y = op.a[o][1]
        OBVIOUS
      <4>2. PICK z, u : z = op.a[s][2] /\ u = op.a[s][1]
        OBVIOUS
      <4>3. PICK g \in Nat, h \in Nat : g = e[o] /\ h = e[s]
        BY <1>1
      <4>4. x = g + v /\ y = g + 1 /\ z = h + w /\ u = h + 1
        BY <2>1, <3>1, <4>1, <4>2, <4>3
      <4>5. x - y - (z - u) = v - w
        BY <1>1, <4>4
      <4> QED BY <4>1, <4>2, <4>5
    <3> DEFINE b == Greatest(0, v - w)
    <3>3. b \in Nat /\ W = w + b
      BY <1>1, <1>2 DEF Greatest
    <3>4. Printed(s, st, op) =
            [line |-> e[s] + w, rows |-> (equal \o Numbered("CHG", e[s], e[s] + w)) \o Blank("CHG", b)]
      BY <2>1, <2>2, <2>4, <3>2 DEF Printed
    <3>5. equal \in Seq(RowSet) /\ Numbered("CHG", e[s], e[s] + w) \in Seq(RowSet)
          /\ Blank("CHG", b) \in Seq(RowSet)
      <4>1. Numbered("EQU", st.line, e[s]) \in Seq(RowSet)
        BY <1>1, KindsAre, NumberedType
      <4>2. equal \in Seq(RowSet)
        BY <4>1, ConcatIs
      <4>3. PICK u \in Nat : u = e[s] + w /\ e[s] <= u
        BY <1>1
      <4>4. Numbered("CHG", e[s], u) \in Seq(RowSet)
        BY <1>1, <4>3, KindsAre, NumberedSeq
      <4>5. Blank("CHG", b) \in Seq(RowSet)
        <5> HIDE DEF b
        <5> QED BY <3>3, KindsAre, BlankSeq
      <4> QED BY <4>2, <4>3, <4>4, <4>5
    <3> HIDE DEF equal, b
    <3>6. (equal \o Numbered("CHG", e[s], e[s] + w)) \o Blank("CHG", b) = equal \o Strip("CHG", e[s], w, W)
      <4>1. Numbered("CHG", e[s], e[s] + w) \o Blank("CHG", b) = Strip("CHG", e[s], w, W)
        <5>1. \A t \in Nat : Numbered("CHG", t, t + w) \o Blank("CHG", b) = Strip("CHG", t, w, w + b)
          <6> TAKE t \in Nat
          <6>1. w \in Nat /\ b \in Nat /\ t \in Nat
            BY <1>1, <3>3
          <6> QED BY <6>1, ChangeIs
        <5> QED BY <1>1, <3>3, <5>1
      <4>2. (equal \o Numbered("CHG", e[s], e[s] + w)) \o Blank("CHG", b)
              = equal \o (Numbered("CHG", e[s], e[s] + w) \o Blank("CHG", b))
        <5>1. Joint(equal, Numbered("CHG", e[s], e[s] + w), Blank("CHG", b))
          BY <3>5, Joined
        <5> QED BY <5>1 DEF Joint
      <4> QED BY <4>1, <4>2, Zenon
    <3> QED BY <1>5, <1>7, <2>1, <2>4, <3>4, <3>6 DEF op, w, v, W, equal
  <2> QED BY <2>3, <2>4 DEF op, w, v, W
<1> QED BY <1>6, <1>7

StateSet == [line : Nat, rows : Seq(RowSet)]
IsCommand(op) == \E e, f : GapEnds(e, f) /\ op = DiffCmd(e, f)

(* The measures of a gap.                                                   *)
LEMMA GapIs ==
  ASSUME NEW e, NEW f, GapEnds(e, f), NEW s \in Sides
  PROVE  /\ e[s] \in Nat /\ f[s] \in Nat /\ f[s] - 1 \in Nat
         /\ GapLines(s, e, f) \in Nat /\ GapRows(e, f) \in Nat /\ GapLines(s, e, f) <= GapRows(e, f)
         /\ f[s] - 1 = e[s] + GapLines(s, e, f) /\ GapKind(s, e, f) \in Kinds
<1>1. GapKind(s, e, f) \in Kinds
  BY DEF GapKind, Kinds
<1>2. \A x \in Sides : e[x] \in Nat /\ f[x] \in Nat /\ e[x] < f[x]
  BY DEF GapEnds
<1>3. \A x \in Sides : GapLines(x, e, f) \in Nat /\ f[x] - 1 = e[x] + GapLines(x, e, f) /\ f[x] - 1 \in Nat
  BY <1>2 DEF GapLines
<1>4. GapLines(1, e, f) \in Nat /\ GapLines(2, e, f) \in Nat
  BY <1>3, SidesAre
<1>5. GapRows(e, f) \in Nat /\ GapLines(1, e, f) <= GapRows(e, f) /\ GapLines(2, e, f) <= GapRows(e, f)
  BY <1>4 DEF GapRows, Greatest
<1> QED BY <1>1, <1>2, <1>3, <1>5, SidesAre

(* A command takes rows and a line to rows and a line.                      *)
LEMMA PrintedType ==
  ASSUME NEW s \in Sides, NEW st \in StateSet, NEW op, IsCommand(op)
  PROVE  Printed(s, st, op) \in StateSet
<1>1. PICK e, f : GapEnds(e, f) /\ op = DiffCmd(e, f)
  BY DEF IsCommand
<1> DEFINE equal == Numbered("EQU", st.line, e[s])
           strip == Strip(GapKind(s, e, f), e[s], GapLines(s, e, f), GapRows(e, f))
<1>2. st.rows \in Seq(RowSet) /\ st.line \in Nat
  BY DEF StateSet
<1>3. Printed(s, st, op) = [line |-> f[s] - 1, rows |-> (st.rows \o equal) \o strip]
  BY <1>1, <1>2, PrintedIs
<1>4. equal \in Seq(RowSet)
  BY <1>1, <1>2, GapIs, KindsAre, NumberedType
<1>5. strip \in Seq(RowSet)
  BY <1>1, GapIs, StripIs
<1> HIDE DEF equal, strip
<1>6. (st.rows \o equal) \o strip \in Seq(RowSet)
  BY <1>2, <1>4, <1>5, ConcatIs
<1>7. f[s] - 1 \in Nat
  BY <1>1, GapIs
<1> QED BY <1>3, <1>6, <1>7 DEF StateSet

Nothing == [line |-> 0, rows |-> << >>]
ParsedRun(F, s, ops) ==
  /\ F \in [0..Len(ops) -> StateSet] /\ F[0] = Nothing
  /\ \A k \in 1..Len(ops) : F[k] = Printed(s, F[k - 1], ops[k])

(* The state behind each command of a script.                               *)
LEMMA ParsedRuns ==
  ASSUME NEW s \in Sides, NEW ops, Len(ops) \in Nat, \A k \in 1..Len(ops) : IsCommand(ops[k])
  PROVE  \E F : ParsedRun(F, s, ops)
<1> DEFINE n == Len(ops)
           st == [k \in 1..n |-> [v \in StateSet |-> Printed(s, v, ops[k])]]
<1>1. n \in Nat /\ \A k \in 1..n : IsCommand(ops[k])
  OBVIOUS
<1> HIDE DEF n
<1>2. PICK F \in [0..n -> StateSet] : Turns(F, n, Nothing, st)
  <2>1. st \in [1..n -> [StateSet -> StateSet]]
    BY <1>1, PrintedType
  <2>2. Nothing \in StateSet
    BY DEF Nothing, StateSet
  <2> HIDE DEF st
  <2> QED BY <1>1, <2>1, <2>2, TurnsTaken
<1>3. ASSUME NEW k \in 1..n PROVE F[k] = Printed(s, F[k - 1], ops[k])
  <2>1. k - 1 \in 0..n
    BY <1>1
  <2> QED BY <1>2, <2>1 DEF Turns
<1>4. ParsedRun(F, s, ops)
  BY <1>2, <1>3 DEF ParsedRun, Turns, n
<1> QED BY <1>4

(* That run ends where the parser ends.                                     *)
LEMMA ParsedIs ==
  ASSUME NEW s, NEW ops, Len(ops) \in Nat, NEW F, ParsedRun(F, s, ops)
  PROVE  Parsed(s, ops) = F[Len(ops)]
<1> DEFINE n == Len(ops)
           R(C) == [k \in 0..n |-> IF k = 0 THEN [line |-> 0, rows |-> << >>]
                                   ELSE Printed(s, C[k - 1], ops[k])]
           C == CHOOSE f : f = R(f)
<1>1. n \in Nat /\ F \in [0..n -> StateSet] /\ F[0] = [line |-> 0, rows |-> << >>]
      /\ \A k \in 1..n : F[k] = Printed(s, F[k - 1], ops[k])
  BY DEF ParsedRun, Nothing
<1>2. Parsed(s, ops) = C[n]
  BY DEF Parsed
<1> HIDE DEF n
<1>3. F = R(F)
  <2>1. \A k \in 0..n : k = 0 \/ k \in 1..n
    BY <1>1
  <2> QED BY <1>1, <2>1
<1>4. C = R(C)
  <2> HIDE DEF R
  <2> QED BY <1>3
<1>5. \A k \in 0..n : C[k] = F[k]
  <2> DEFINE T == {k \in Nat : k <= n => C[k] = F[k]}
  <2> HIDE DEF C
  <2>1. 0 \in T
    BY <1>1, <1>4
  <2>2. ASSUME NEW k \in Nat, k \in T PROVE k + 1 \in T
    <3> SUFFICES ASSUME k + 1 <= n PROVE C[k + 1] = F[k + 1]
      OBVIOUS
    <3>1. PICK j \in 1..n : j = k + 1 /\ j - 1 = k /\ j # 0 /\ j \in 0..n
      BY <1>1
    <3>2. C[j] = Printed(s, C[j - 1], ops[j])
      BY <1>4, <3>1
    <3>3. C[j - 1] = F[j - 1]
      BY <1>1, <2>2, <3>1
    <3>4. F[j] = Printed(s, F[j - 1], ops[j])
      BY <3>1, <1>1
    <3> QED BY <3>1, <3>2, <3>3, <3>4, Zenon
  <2> HIDE DEF T
  <2>3. Nat \subseteq T
    BY <2>1, <2>2, NatInduct
  <2> QED BY <2>3, <1>1 DEF T
<1> HIDE DEF C
<1>6. C[n] = F[n]
  BY <1>1, <1>5
<1> QED BY <1>2, <1>6 DEF n

(* A script with one command more is read to the shorter one's end, and then*)
(* that command.                                                            *)
LEMMA ParsedAppend ==
  ASSUME NEW s \in Sides, NEW S, NEW ops \in Seq(S), NEW op \in S, \A x \in S : IsCommand(x)
  PROVE  /\ Parsed(s, ops) \in StateSet
         /\ Parsed(s, Append(ops, op)) = Printed(s, Parsed(s, ops), op)
<1> DEFINE n == Len(ops)
           more == Append(ops, op)
<1>1. n \in Nat /\ Len(more) = n + 1 /\ n + 1 \in Nat /\ more[n + 1] = op
      /\ \A k \in 1..n : more[k] = ops[k] /\ ops[k] \in S
  OBVIOUS
<1>2. \A k \in 1..n + 1 : IsCommand(more[k])
  <2>1. \A k \in 1..n + 1 : k = n + 1 \/ k \in 1..n
    BY <1>1
  <2> HIDE DEF n, more
  <2> QED BY <1>1, <2>1
<1> HIDE DEF more
<1>3. PICK G : ParsedRun(G, s, more)
  BY <1>1, <1>2, ParsedRuns
<1> DEFINE F == [k \in 0..n |-> G[k]]
<1>4. /\ G \in [0..n + 1 -> StateSet] /\ G[0] = Nothing
      /\ \A k \in 1..n + 1 : G[k] = Printed(s, G[k - 1], more[k])
  BY <1>1, <1>3 DEF ParsedRun
<1>5. ParsedRun(F, s, ops)
  <2> HIDE DEF n
  <2>1. F \in [0..n -> StateSet] /\ F[0] = Nothing
    BY <1>1, <1>4
  <2>2. ASSUME NEW k \in 1..n PROVE F[k] = Printed(s, F[k - 1], ops[k])
    <3>1. k \in 1..n + 1 /\ k - 1 \in 0..n /\ k \in 0..n
      BY <1>1
    <3>2. F[k] = G[k] /\ F[k - 1] = G[k - 1] /\ more[k] = ops[k]
      BY <1>1, <3>1
    <3>3. G[k] = Printed(s, G[k - 1], more[k])
      BY <1>4, <3>1
    <3> QED BY <3>2, <3>3, Zenon
  <2> HIDE DEF F
  <2> QED BY <2>1, <2>2 DEF ParsedRun, n
<1>6. Parsed(s, more) = G[n + 1] /\ Parsed(s, ops) = G[n] /\ G[n] \in StateSet
  <2>1. Parsed(s, more) = G[n + 1]
    BY <1>1, <1>3, ParsedIs
  <2>2. F[n] = G[n] /\ G[n] \in StateSet
    BY <1>1, <1>4
  <2> HIDE DEF F
  <2>3. Parsed(s, ops) = F[n]
    BY <1>1, <1>5, ParsedIs
  <2> QED BY <2>1, <2>2, <2>3
<1>7. G[n + 1] = Printed(s, G[n], op)
  <2> HIDE DEF n
  <2>1. PICK j \in 1..n + 1 : j = n + 1 /\ j - 1 = n
    BY <1>1
  <2> QED BY <1>1, <1>4, <2>1
<1> QED BY <1>6, <1>7 DEF more

(* No command leaves both sides as they began.                              *)
LEMMA ParsedNothing == \A s \in Sides : Parsed(s, << >>) = Nothing
<1> TAKE s \in Sides
<1>1. Len(<< >>) = 0
  OBVIOUS
<1>2. PICK F : ParsedRun(F, s, << >>)
  BY <1>1, ParsedRuns
<1>3. Parsed(s, << >>) = F[0]
  BY <1>1, <1>2, ParsedIs
<1> QED BY <1>2, <1>3 DEF ParsedRun

(***************************************************************************)
(* Both lists of rows.                                                     *)
(***************************************************************************)
EqualLines(fs, x, y, d) == \A j \in 1..d : fs[1][x + j] = fs[2][y + j]

(* Rows on both sides that show x and y lines.                              *)
SideBySide(fs, p, q, x, y) ==
  /\ p \in Seq(RowSet) /\ q \in Seq(RowSet) /\ x \in Nat /\ y \in Nat
  /\ Abreast(fs, p, q) /\ ShowsLines(p, x) /\ ShowsLines(q, y)
EndsEqual(p) == Len(p) = 0 \/ p[Len(p)].ch = "EQU"

(* Two sides that stay abreast do so behind equal lines.                    *)
LEMMA EqualFollows ==
  ASSUME NEW fs, NEW p, NEW q, NEW x, NEW y, SideBySide(fs, p, q, x, y),
         NEW d \in Nat, EqualLines(fs, x, y, d)
  PROVE  /\ SideBySide(fs, p \o Strip("EQU", x, d, d), q \o Strip("EQU", y, d, d), x + d, y + d)
         /\ d # 0 \/ p = << >> => EndsEqual(p \o Strip("EQU", x, d, d))
<1> DEFINE u == Strip("EQU", x, d, d)
           v == Strip("EQU", y, d, d)
<1>0. /\ p \in Seq(RowSet) /\ q \in Seq(RowSet) /\ x \in Nat /\ y \in Nat
      /\ Abreast(fs, p, q) /\ ShowsLines(p, x) /\ ShowsLines(q, y)
  BY DEF SideBySide
<1>1. /\ u \in Seq(RowSet) /\ Len(u) = d
      /\ \A i \in 1..d : u[i] = [ch |-> "EQU", line |-> x + i]
  <2>1. /\ Strip("EQU", x, d, d) \in Seq(RowSet) /\ Len(Strip("EQU", x, d, d)) = d
        /\ \A i \in 1..d : Strip("EQU", x, d, d)[i] = [ch |-> "EQU", line |-> IF i <= d THEN x + i ELSE 0]
    <3>1. "EQU" \in Kinds /\ x \in Nat /\ d \in Nat /\ d <= d
      BY <1>0, KindsAre
    <3> HIDE <1>0
    <3> QED BY <3>1, StripIs
  <2> QED BY <2>1
<1>2. /\ v \in Seq(RowSet) /\ Len(v) = d
      /\ \A i \in 1..d : v[i] = [ch |-> "EQU", line |-> y + i]
  <2>1. /\ Strip("EQU", y, d, d) \in Seq(RowSet) /\ Len(Strip("EQU", y, d, d)) = d
        /\ \A i \in 1..d : Strip("EQU", y, d, d)[i] = [ch |-> "EQU", line |-> IF i <= d THEN y + i ELSE 0]
    <3>1. "EQU" \in Kinds /\ y \in Nat /\ d \in Nat /\ d <= d
      BY <1>0, KindsAre
    <3> HIDE <1>0
    <3> QED BY <3>1, StripIs
  <2> QED BY <2>1
<1>3. ShowsLines(p \o u, x + d) /\ ShowsLines(q \o v, y + d)
  BY <1>0, KindsAre, StripShows
<1> HIDE DEF u, v
<1>4. Abreast(fs, u, v)
  <2>1. ASSUME NEW i \in 1..d PROVE PairTrue(fs, u[i], v[i])
    <3>1. x + i # 0 /\ y + i # 0 /\ fs[1][x + i] = fs[2][y + i]
      BY SMTT(60), <1>0 DEF EqualLines
    <3>2. /\ u[i].ch = "EQU" /\ v[i].ch = "EQU" /\ u[i].line = x + i /\ v[i].line = y + i
      BY <1>1, <1>2
    <3> QED BY <3>1, <3>2 DEF PairTrue
  <2>2. \A i, j \in 1..d : Joins(u[i], u[j])
    BY <1>1 DEF Joins
  <2> QED BY <1>1, <1>2, <2>1, <2>2 DEF Abreast
<1>5. Abreast(fs, p \o u, q \o v)
  <2>1. Len(u) = 0 \/ Joins(p[Len(p)], u[1])
    BY <1>1 DEF Joins
  <2> QED BY <1>0, <1>1, <1>2, <1>4, <2>1, AbreastConcat
<1>6. /\ p \o u \in Seq(RowSet) /\ q \o v \in Seq(RowSet) /\ Len(p \o u) = Len(p) + Len(u)
      /\ Len(p) \in Nat /\ \A i \in 1..Len(u) : (p \o u)[Len(p) + i] = u[i]
  <2>1. p \in Seq(RowSet) /\ q \in Seq(RowSet) /\ u \in Seq(RowSet) /\ v \in Seq(RowSet)
    BY <1>0, <1>1, <1>2
  <2>2. /\ p \o u \in Seq(RowSet) /\ Len(p \o u) = Len(p) + Len(u) /\ Len(p) \in Nat
        /\ \A i \in 1..Len(u) : (p \o u)[Len(p) + i] = u[i]
    BY <2>1, ConcatIs
  <2>3. q \o v \in Seq(RowSet)
    BY <2>1, ConcatIs
  <2> QED BY <2>2, <2>3
<1>7. EndsEqual(p \o u) \/ (d = 0 /\ p # << >>)
  <2>1. CASE d # 0
    <3>1. (p \o u)[Len(p) + d] = u[d] /\ u[d].ch = "EQU"
      BY <1>1, <1>6, <2>1
    <3> QED BY <1>1, <1>6, <3>1 DEF EndsEqual
  <2>2. CASE d = 0 /\ p = << >>
    BY <1>1, <1>6, <2>2 DEF EndsEqual
  <2> QED BY <2>1, <2>2
<1>8. SideBySide(fs, p \o u, q \o v, x + d, y + d)
  BY <1>0, <1>3, <1>5, <1>6 DEF SideBySide
<1> QED BY <1>7, <1>8 DEF u, v

(* Two sides that stay abreast do so behind a gap.                          *)
LEMMA GapFollows ==
  ASSUME NEW fs, NEW e, NEW f, GapEnds(e, f),
         NEW p, NEW q, SideBySide(fs, p, q, e[1], e[2]), EndsEqual(p)
  PROVE  SideBySide(fs, p \o Strip(GapKind(1, e, f), e[1], GapLines(1, e, f), GapRows(e, f)),
                        q \o Strip(GapKind(2, e, f), e[2], GapLines(2, e, f), GapRows(e, f)),
                    f[1] - 1, f[2] - 1)
<1> DEFINE W == GapRows(e, f)
           w == GapLines(1, e, f)
           x == GapLines(2, e, f)
           a == GapKind(1, e, f)
           b == GapKind(2, e, f)
           u == Strip(a, e[1], w, W)
           v == Strip(b, e[2], x, W)
<1>0. /\ p \in Seq(RowSet) /\ q \in Seq(RowSet) /\ e[1] \in Nat /\ e[2] \in Nat
      /\ Abreast(fs, p, q) /\ ShowsLines(p, e[1]) /\ ShowsLines(q, e[2])
  BY DEF SideBySide
<1>1. /\ e[1] \in Nat /\ w \in Nat /\ W \in Nat /\ w <= W /\ f[1] - 1 = e[1] + w /\ a \in Kinds
      /\ e[2] \in Nat /\ x \in Nat /\ x <= W /\ f[2] - 1 = e[2] + x /\ b \in Kinds
  BY GapIs, SidesAre
<1>2. W = Greatest(w, x) /\ a = (IF w = 0 THEN "DEL" ELSE IF x = 0 THEN "ADD" ELSE "CHG")
      /\ b = (IF x = 0 THEN "DEL" ELSE IF w = 0 THEN "ADD" ELSE "CHG")
  BY SidesAre DEF GapRows, GapKind
<1>3. w # 0 \/ x # 0
  <2>1. /\ e[1] \in Nat /\ f[1] \in Nat /\ e[2] \in Nat /\ f[2] \in Nat
        /\ f[1] # e[1] + 1 \/ f[2] # e[2] + 1
    BY SidesAre DEF GapEnds
  <2> HIDE DEF w, x
  <2> QED BY <1>1, <2>1
<1> HIDE DEF w, x, W, a, b
<1>4. /\ u \in Seq(RowSet) /\ Len(u) = W
      /\ \A i \in 1..W : u[i] = [ch |-> a, line |-> IF i <= w THEN e[1] + i ELSE 0]
  <2>1. PICK t \in Nat : t = e[1]
    BY <1>1
  <2>2. /\ Strip(a, t, w, W) \in Seq(RowSet) /\ Len(Strip(a, t, w, W)) = W
        /\ \A i \in 1..W : Strip(a, t, w, W)[i] = [ch |-> a, line |-> IF i <= w THEN t + i ELSE 0]
    <3>1. a \in Kinds /\ w \in Nat /\ W \in Nat /\ w <= W
      BY <1>1
    <3> HIDE DEF u, v
    <3> QED BY <3>1, StripIs
  <2> QED BY <2>1, <2>2
<1>5. /\ v \in Seq(RowSet) /\ Len(v) = W
      /\ \A i \in 1..W : v[i] = [ch |-> b, line |-> IF i <= x THEN e[2] + i ELSE 0]
  <2>1. PICK t \in Nat : t = e[2]
    BY <1>1
  <2>2. /\ Strip(b, t, x, W) \in Seq(RowSet) /\ Len(Strip(b, t, x, W)) = W
        /\ \A i \in 1..W : Strip(b, t, x, W)[i] = [ch |-> b, line |-> IF i <= x THEN t + i ELSE 0]
    <3>1. b \in Kinds /\ x \in Nat /\ W \in Nat /\ x <= W
      BY <1>1
    <3> HIDE DEF u, v
    <3> QED BY <3>1, StripIs
  <2> QED BY <2>1, <2>2
<1>6. ShowsLines(p \o u, e[1] + w) /\ ShowsLines(q \o v, e[2] + x)
  BY <1>0, <1>1, StripShows
<1> HIDE DEF u, v
<1>7. Abreast(fs, u, v)
  <2>1. ASSUME NEW i \in 1..W PROVE PairTrue(fs, u[i], v[i])
    <3>1. /\ u[i].ch = a /\ u[i].line = IF i <= w THEN e[1] + i ELSE 0
          /\ v[i].ch = b /\ v[i].line = IF i <= x THEN e[2] + i ELSE 0
      BY <1>4, <1>5
    <3>2. (w = 0 => u[i].line = 0 /\ v[i].line # 0) /\ (x = 0 => v[i].line = 0 /\ u[i].line # 0)
      BY <1>1, <1>2, <1>3, <3>1 DEF Greatest
    <3> QED BY <1>2, <1>3, <3>1, <3>2 DEF PairTrue
  <2>2. \A i, j \in 1..W : Joins(u[i], u[j])
    BY <1>4 DEF Joins
  <2> QED BY <1>4, <1>5, <2>1, <2>2 DEF Abreast
<1>8. Abreast(fs, p \o u, q \o v)
  <2>1. Len(p) = 0 \/ Joins(p[Len(p)], u[1])
    BY DEF Joins, EndsEqual
  <2> QED BY <1>0, <1>4, <1>5, <1>7, <2>1, AbreastConcat
<1>9. p \o u \in Seq(RowSet) /\ q \o v \in Seq(RowSet)
  BY <1>0, <1>4, <1>5, ConcatIs
<1>10. SideBySide(fs, p \o u, q \o v, e[1] + w, e[2] + x)
  BY SMTT(60), <1>1, <1>6, <1>8, <1>9 DEF SideBySide
<1> QED BY <1>1, <1>10 DEF u, v, w, x, a, b, W

(* The rows on both sides after a command.                                  *)
BothShow(fs, p, q) ==
  /\ p \in StateSet /\ q \in StateSet /\ SideBySide(fs, p.rows, q.rows, p.line, q.line)

BothEnd(fs, f, p, q) == BothShow(fs, p, q) /\ p.line = f[1] - 1 /\ q.line = f[2] - 1

(* A command prints its gap on both sides, abreast, and reaches its end.    *)
LEMMA GapPrinted ==
  ASSUME NEW fs, NEW e, NEW f, GapEnds(e, f), NEW p, NEW q, BothShow(fs, p, q),
         NEW d \in Nat, e[1] = p.line + d, e[2] = q.line + d, EqualLines(fs, p.line, q.line, d),
         d # 0 \/ p.rows = << >>
  PROVE  BothEnd(fs, f, Printed(1, p, DiffCmd(e, f)), Printed(2, q, DiffCmd(e, f)))
<1> DEFINE x == p.line
           y == q.line
           u == p.rows \o Numbered("EQU", x, e[1])
           v == q.rows \o Numbered("EQU", y, e[2])
           a == Strip(GapKind(1, e, f), e[1], GapLines(1, e, f), GapRows(e, f))
           b == Strip(GapKind(2, e, f), e[2], GapLines(2, e, f), GapRows(e, f))
<1>1. /\ p.rows \in Seq(RowSet) /\ q.rows \in Seq(RowSet) /\ x \in Nat /\ y \in Nat
      /\ SideBySide(fs, p.rows, q.rows, x, y)
  BY DEF BothShow, StateSet
<1>2. /\ Printed(1, p, DiffCmd(e, f)) = [line |-> f[1] - 1, rows |-> u \o a]
      /\ Printed(2, q, DiffCmd(e, f)) = [line |-> f[2] - 1, rows |-> v \o b]
  <2>1. 1 \in Sides /\ 2 \in Sides
    BY SidesAre
  <2>2. Printed(1, p, DiffCmd(e, f)) = [line |-> f[1] - 1, rows |-> u \o a]
    BY ZenonT(60), <1>1, <2>1, PrintedIs
  <2>3. Printed(2, q, DiffCmd(e, f)) = [line |-> f[2] - 1, rows |-> v \o b]
    BY ZenonT(60), <1>1, <2>1, PrintedIs
  <2> QED BY <2>2, <2>3
<1>3. Numbered("EQU", x, e[1]) = Strip("EQU", x, d, d) /\ Numbered("EQU", y, e[2]) = Strip("EQU", y, d, d)
  <2>1. Numbered("EQU", x, x + d) = Strip("EQU", x, d, d) /\ Numbered("EQU", y, y + d) = Strip("EQU", y, d, d)
    BY <1>1, NumberedIs
  <2> QED BY <2>1
<1>4. SideBySide(fs, u, v, e[1], e[2]) /\ EndsEqual(u)
  <2>1. EqualLines(fs, x, y, d) /\ x + d = e[1] /\ y + d = e[2] /\ (d # 0 \/ p.rows = << >>)
    OBVIOUS
  <2>2. u = p.rows \o Strip("EQU", x, d, d) /\ v = q.rows \o Strip("EQU", y, d, d)
    BY <1>3
  <2> HIDE DEF u, v, x, y
  <2>3. /\ SideBySide(fs, p.rows \o Strip("EQU", x, d, d), q.rows \o Strip("EQU", y, d, d), x + d, y + d)
        /\ d # 0 \/ p.rows = << >> => EndsEqual(p.rows \o Strip("EQU", x, d, d))
    BY <1>1, <2>1, EqualFollows
  <2> QED BY <2>1, <2>2, <2>3
<1> HIDE DEF u, v
<1>5. SideBySide(fs, u \o a, v \o b, f[1] - 1, f[2] - 1)
  BY <1>4, GapFollows
<1> HIDE DEF a, b
<1>6. /\ [line |-> f[1] - 1, rows |-> u \o a] \in StateSet /\ [line |-> f[2] - 1, rows |-> v \o b] \in StateSet
  BY <1>5 DEF SideBySide, StateSet
<1> DEFINE pt == Printed(1, p, DiffCmd(e, f))
           qt == Printed(2, q, DiffCmd(e, f))
<1>7. /\ pt.line = f[1] - 1 /\ pt.rows = u \o a /\ pt \in StateSet
      /\ qt.line = f[2] - 1 /\ qt.rows = v \o b /\ qt \in StateSet
  <2>1. pt = [line |-> f[1] - 1, rows |-> u \o a] /\ qt = [line |-> f[2] - 1, rows |-> v \o b]
    BY <1>2
  <2> HIDE DEF pt, qt
  <2>2. pt \in StateSet /\ qt \in StateSet
    BY <1>6, <2>1, Zenon
  <2>3. pt.line = f[1] - 1 /\ pt.rows = u \o a
    BY <2>1
  <2>4. qt.line = f[2] - 1 /\ qt.rows = v \o b
    BY <2>1
  <2> QED BY <2>2, <2>3, <2>4
<1> HIDE DEF pt, qt
<1>8. BothEnd(fs, f, pt, qt)
  BY <1>5, <1>7 DEF BothShow, BothEnd
<1> QED BY <1>8 DEF pt, qt

(***************************************************************************)
(* The script.                                                             *)
(***************************************************************************)

(* Lines of two files that are the same, first to last.                     *)
Matched(m, l, r) ==
  /\ m[1] \in Seq(1..Len(l)) /\ m[2] \in Seq(1..Len(r)) /\ Len(m[1]) = Len(m[2])
  /\ Rising(m[1]) /\ Rising(m[2])
  /\ \A i \in 1..Len(m[1]) : l[m[1][i]] = r[m[2][i]]

(* A longest common subsequence matches equal lines in rising order.        *)
LEMMA LongestMatches ==
  ASSUME NEW l, NEW r, Len(l) \in Nat, Len(r) \in Nat, NEW m \in Longest(l, r)
  PROVE  Matched(m, l, r)
<1>1. PICK k : m \in Common(l, r, k)
  BY DEF Longest
<1>2. PICK I, J : m[1] = InOrder(l, I) /\ m[2] = InOrder(r, J) /\ Lines(l, m[1]) = Lines(r, m[2])
  BY <1>1 DEF Common
<1> DEFINE p == m[1]
           q == m[2]
<1>3. p \in Seq(1..Len(l)) /\ Rising(p) /\ q \in Seq(1..Len(r)) /\ Rising(q)
  BY <1>2, InOrderRises
<1>4. [i \in DOMAIN p |-> l[p[i]]] = [i \in DOMAIN q |-> r[q[i]]]
  BY <1>2 DEF Lines
<1> HIDE DEF p, q
<1>5. DOMAIN p = 1..Len(p) /\ DOMAIN q = 1..Len(q) /\ Len(p) \in Nat /\ Len(q) \in Nat
  BY <1>3
<1>6. DOMAIN p = DOMAIN q
  BY SMTT(60), <1>4
<1>7. Len(p) = Len(q)
  <2>1. \A a, b \in Nat : 1..a = 1..b => a = b
    <3> SUFFICES ASSUME NEW a \in Nat, NEW b \in Nat, 1..a = 1..b PROVE a = b
      OBVIOUS
    <3>1. (a # 0 => a \in 1..b) /\ (b # 0 => b \in 1..a)
      BY SMTT(60)
    <3> QED BY <3>1
  <2> QED BY <1>5, <1>6, <2>1
<1>8. \A i \in 1..Len(p) : l[p[i]] = r[q[i]]
  BY <1>4, <1>5, <1>6
<1> QED BY <1>3, <1>7, <1>8 DEF Matched, p, q

(* The ends of all gaps, with lines in front and behind that match.         *)
Way(e, K, l, r) ==
  /\ K \in Nat \ {0} /\ Len(e) = K + 1
  /\ e[1] = <<0, 0>> /\ e[K + 1] = <<Len(l) + 1, Len(r) + 1>>
  /\ \A k \in 1..K + 1 : e[k] \in Nat \X Nat
  /\ \A k \in 1..K : e[k][1] < e[k + 1][1] /\ e[k][2] < e[k + 1][2]
  /\ \A k \in 2..K : e[k][1] <= Len(l) /\ e[k][2] <= Len(r) /\ l[e[k][1]] = r[e[k][2]]

(* What being a sequence over a set says of its places.                      *)
LEMMA InSeq ==
  ASSUME NEW S, NEW p \in Seq(S)
  PROVE  DOMAIN p = 1..Len(p) /\ Len(p) \in Nat /\ \A i \in 1..Len(p) : p[i] \in S
OBVIOUS

(* The ends of all gaps are on the way from in front of both files to behind*)
(* them.                                                                    *)
LEMMA EndsAre ==
  ASSUME NEW l, NEW r, Len(l) \in Nat, Len(r) \in Nat, NEW m, Matched(m, l, r)
  PROVE  Way(Ends(m, l, r), Len(m[1]) + 1, l, r)
<1> DEFINE N == Len(m[1])
           L == Len(l)
           R == Len(r)
           z == <<<<0, 0>>>>
           M == [i \in DOMAIN m[1] |-> <<m[1][i], m[2][i]>>]
           y == <<<<L + 1, R + 1>>>>
           e == Ends(m, l, r)
           PP == Nat \X Nat
           p == m[1]
           q == m[2]
<1>1. /\ p \in Seq(1..L) /\ q \in Seq(1..R) /\ N = Len(p) /\ N = Len(q) /\ L \in Nat /\ R \in Nat
      /\ \A i, j \in 1..N : i < j => p[i] < p[j] /\ q[i] < q[j]
      /\ \A i \in 1..N : l[p[i]] = r[q[i]]
  BY DEF Matched, Rising
<1>2. N \in Nat /\ DOMAIN p = 1..N /\ \A i \in 1..N : p[i] \in 1..L /\ q[i] \in 1..R
  <2> HIDE DEF p, q, N, L, R
  <2>1. p \in Seq(1..L) /\ q \in Seq(1..R) /\ N = Len(p) /\ N = Len(q)
    BY <1>1
  <2>2. DOMAIN p = 1..Len(p) /\ Len(p) \in Nat /\ \A i \in 1..Len(p) : p[i] \in 1..L
    BY <2>1, InSeq, ZenonT(30)
  <2>3. \A i \in 1..Len(q) : q[i] \in 1..R
    BY <2>1, InSeq, ZenonT(30)
  <2>4. N = Len(p) /\ N = Len(q)
    BY <2>1
  <2> QED BY <2>2, <2>3, <2>4, Zenon
<1>3. M = [i \in 1..N |-> <<p[i], q[i]>>]
  BY <1>2
<1>4. e = (z \o M) \o y
  BY DEF Ends
<1> HIDE DEF N, L, R, M, e, p, q
<1>5. z \in Seq(PP) /\ Len(z) = 1 /\ z[1] = <<0, 0>> /\ y \in Seq(PP) /\ Len(y) = 1 /\ y[1] = <<L + 1, R + 1>>
  BY <1>1
<1>6. M \in Seq(PP) /\ Len(M) = N
  BY <1>2, <1>3
<1> HIDE DEF z, y, PP
<1>7. /\ z \o M \in Seq(PP) /\ Len(z \o M) = N + 1 /\ (z \o M)[1] = <<0, 0>>
      /\ \A i \in 1..N : (z \o M)[i + 1] = <<p[i], q[i]>>
  <2>1. /\ z \o M \in Seq(PP) /\ Len(z \o M) = Len(z) + Len(M)
        /\ \A i \in 1..Len(z) : (z \o M)[i] = z[i]
        /\ \A i \in 1..Len(M) : (z \o M)[Len(z) + i] = M[i]
    <3>1. z \in Seq(PP) /\ M \in Seq(PP)
      BY <1>5, <1>6
    <3> QED BY <3>1, ConcatIs, SMTT(30)
  <2>2. \A i \in 1..N : (z \o M)[1 + i] = M[i] /\ 1 + i = i + 1
    BY <1>5, <1>6, <2>1
  <2>3. \A i \in 1..N : (z \o M)[i + 1] = <<p[i], q[i]>>
    BY <1>3, <2>2
  <2>4. Len(z \o M) = N + 1 /\ (z \o M)[1] = <<0, 0>>
    BY <1>2, <1>5, <1>6, <2>1
  <2> QED BY <2>1, <2>3, <2>4
<1> DEFINE x == z \o M
<1> HIDE DEF x
<1>8. /\ e \in Seq(PP) /\ Len(e) = N + 2 /\ e[1] = <<0, 0>> /\ e[N + 2] = <<L + 1, R + 1>>
      /\ \A i \in 1..N : e[i + 1] = <<p[i], q[i]>>
  <2>1. x \in Seq(PP) /\ Len(x) = N + 1 /\ x[1] = <<0, 0>> /\ \A i \in 1..N : x[i + 1] = <<p[i], q[i]>>
    BY <1>7 DEF x
  <2>2. e = x \o y
    BY <1>4 DEF x
  <2>3. /\ x \o y \in Seq(PP) /\ Len(x \o y) = Len(x) + Len(y)
        /\ \A i \in 1..Len(x) : (x \o y)[i] = x[i]
        /\ \A i \in 1..Len(y) : (x \o y)[Len(x) + i] = y[i]
    <3>1. x \in Seq(PP) /\ y \in Seq(PP)
      BY <1>5, <2>1
    <3> QED BY <3>1, ConcatIs, SMTT(30)
  <2>4. /\ e \in Seq(PP) /\ Len(e) = N + 1 + 1
        /\ \A i \in 1..N + 1 : e[i] = x[i]
        /\ e[N + 1 + 1] = y[1]
    BY <1>5, <2>1, <2>2, <2>3
  <2>5. N + 1 + 1 = N + 2 /\ 1 \in 1..N + 1 /\ \A i \in 1..N : i + 1 \in 1..N + 1
    BY <1>2
  <2> QED BY <1>5, <2>1, <2>4, <2>5
<1>9. ASSUME NEW k \in 1..N + 1 PROVE e[k][1] < e[k + 1][1] /\ e[k][2] < e[k + 1][2]
  <2>1. k = 1 \/ \E i \in 1..N : k = i + 1
    <3>1. k # 1 => k - 1 \in 1..N /\ k = (k - 1) + 1
      BY <1>2
    <3> QED BY <3>1
  <2>2. k + 1 = N + 2 \/ (k \in 1..N)
    BY <1>2
  <2>3. PICK a \in Nat, b \in Nat : e[k] = <<a, b>> /\ (k = 1 => a = 0 /\ b = 0)
                                  /\ (k # 1 => k - 1 \in 1..N /\ a = p[k - 1] /\ b = q[k - 1])
    <3>1. CASE k = 1
      BY <1>8, <3>1
    <3>2. CASE k # 1
      <4>1. PICK i \in 1..N : k = i + 1 /\ k - 1 = i
        BY <2>1, <3>2
      <4>2. e[k] = <<p[i], q[i]>> /\ p[i] \in Nat /\ q[i] \in Nat
        BY <1>2, <1>8, <4>1
      <4> QED BY <3>2, <4>1, <4>2
    <3> QED BY <3>1, <3>2
  <2>4. PICK c \in Nat, f \in Nat : e[k + 1] = <<c, f>> /\ (k \in 1..N => c = p[k] /\ f = q[k])
                                  /\ (k \notin 1..N => c = L + 1 /\ f = R + 1)
    <3>1. CASE k \in 1..N
      <4>1. e[k + 1] = <<p[k], q[k]>> /\ p[k] \in Nat /\ q[k] \in Nat
        BY <1>2, <1>8, <3>1
      <4> QED BY <3>1, <4>1
    <3>2. CASE k \notin 1..N
      <4>1. e[k + 1] = <<L + 1, R + 1>> /\ L + 1 \in Nat /\ R + 1 \in Nat
        BY <1>1, <1>8, <2>2, <3>2
      <4> QED BY <3>2, <4>1
    <3> QED BY <3>1, <3>2
  <2>5. a < c /\ b < f
    <3>1. k # 1 => a \in 1..L /\ b \in 1..R
      BY <1>2, <2>3
    <3>2. k \in 1..N => c \in 1..L /\ f \in 1..R
      BY <1>2, <2>4
    <3>3. CASE k = 1 \/ k \notin 1..N
      BY SMTT(60), <1>1, <2>3, <2>4, <3>1, <3>2, <3>3
    <3>4. CASE k # 1 /\ k \in 1..N
      <4>1. k - 1 < k
        OBVIOUS
      <4> QED BY <1>1, <2>3, <2>4, <3>4, <4>1
    <3> QED BY <3>3, <3>4
  <2> QED BY <2>3, <2>4, <2>5
<1>10. ASSUME NEW k \in 2..N + 1
       PROVE e[k][1] <= L /\ e[k][2] <= R /\ l[e[k][1]] = r[e[k][2]]
  <2>1. PICK i \in 1..N : k = i + 1
    <3>1. k - 1 \in 1..N /\ k = (k - 1) + 1
      BY <1>2
    <3> QED BY <3>1
  <2>2. e[k] = <<p[i], q[i]>>
    BY <1>8, <2>1
  <2> QED BY SMTT(60), <1>1, <1>2, <2>1, <2>2
<1>11. \A k \in 1..(N + 1) + 1 : e[k] \in Nat \X Nat
  <2>1. N + 1 + 1 = Len(e)
    BY <1>2, <1>8
  <2> QED BY <1>8, <2>1 DEF PP
<1>12. N + 1 \in Nat \ {0} /\ N + 1 + 1 = N + 2
  BY <1>2
<1> DEFINE K == N + 1
<1>13. Way(e, K, l, r)
  <2> SUFFICES /\ K \in Nat \ {0} /\ Len(e) = K + 1
               /\ e[1] = <<0, 0>> /\ e[K + 1] = <<L + 1, R + 1>>
               /\ \A k \in 1..K + 1 : e[k] \in Nat \X Nat
               /\ \A k \in 1..K : e[k][1] < e[k + 1][1] /\ e[k][2] < e[k + 1][2]
               /\ \A k \in 2..K : e[k][1] <= L /\ e[k][2] <= R /\ l[e[k][1]] = r[e[k][2]]
    BY DEF Way, L, R
  <2> QED BY <1>8, <1>9, <1>10, <1>11, <1>12
<1> QED BY <1>13 DEF N, e

Adjacent(e, k) == e[k + 1] = <<e[k][1] + 1, e[k][2] + 1>>
AllCommands(e, K) == {DiffCmd(e[k], e[k + 1]) : k \in {k \in 1..K : ~Adjacent(e, k)}}
ScriptRun(F, e, K) ==
  /\ F \in [0..K -> Seq(AllCommands(e, K))] /\ F[0] = << >>
  /\ \A k \in 1..K :
       F[k] = IF Adjacent(e, k) THEN F[k - 1] ELSE Append(F[k - 1], DiffCmd(e[k], e[k + 1]))

(* The script, with the function that writes it gap by gap.                 *)
LEMMA ScriptRuns ==
  ASSUME NEW m, NEW l, NEW r, NEW K, Way(Ends(m, l, r), K, l, r)
  PROVE  \E F : ScriptRun(F, Ends(m, l, r), K) /\ F[K] = Script(m, l, r)
<1> DEFINE e == Ends(m, l, r)
           S == Seq(AllCommands(e, K))
           cmd(k) == DiffCmd(e[k], e[k + 1])
           st == [k \in 1..K |-> [q \in S |-> IF Adjacent(e, k) THEN q ELSE Append(q, cmd(k))]]
           n == Len(e) - 1
           R(C) == [k \in 0..n |-> IF k = 0 THEN << >>
                                   ELSE IF e[k + 1] = <<e[k][1] + 1, e[k][2] + 1>> THEN C[k - 1]
                                   ELSE Append(C[k - 1], cmd(k))]
           C == CHOOSE f : f = R(f)
<1>1. K \in Nat /\ n = K
  BY DEF Way
<1>2. Script(m, l, r) = C[n]
  BY DEF Script
<1> HIDE DEF e, n
<1>3. PICK F \in [0..K -> S] : Turns(F, K, << >>, st)
  <2>1. \A k \in 1..K : ~Adjacent(e, k) => cmd(k) \in AllCommands(e, K)
    BY DEF AllCommands
  <2> HIDE DEF cmd
  <2>2. \A k \in 1..K, q \in S : (IF Adjacent(e, k) THEN q ELSE Append(q, cmd(k))) \in S
    BY <2>1
  <2>3. st \in [1..K -> [S -> S]] /\ << >> \in S
    BY <2>2
  <2> HIDE DEF st, S
  <2> QED BY <1>1, <2>3, TurnsTaken
<1>4. ASSUME NEW k \in 1..K
      PROVE F[k] = IF Adjacent(e, k) THEN F[k - 1] ELSE Append(F[k - 1], cmd(k))
  <2> HIDE DEF cmd, S
  <2>1. k - 1 \in 0..K
    BY <1>1
  <2> QED BY <1>3, <2>1 DEF Turns
<1>5. F[0] = << >>
  BY <1>3 DEF Turns
<1> HIDE DEF cmd
<1>6. F = R(F)
  <2>1. \A k \in 0..K : k = 0 \/ k \in 1..K
    BY <1>1
  <2> QED BY <1>1, <1>3, <1>4, <1>5, <2>1 DEF Adjacent
<1>7. C = R(C)
  <2> HIDE DEF R
  <2> QED BY <1>6
<1> HIDE DEF C
<1>8. ASSUME NEW k \in 1..K
      PROVE C[k] = IF Adjacent(e, k) THEN C[k - 1] ELSE Append(C[k - 1], cmd(k))
  <2>1. k \in 0..n /\ k # 0
    BY <1>1
  <2> QED BY <1>7, <2>1 DEF Adjacent
<1>9. C[0] = << >>
  <2>1. 0 \in 0..n
    BY <1>1
  <2> QED BY <1>7, <2>1
<1> HIDE DEF R
<1>10. \A k \in 0..K : C[k] = F[k]
  <2> DEFINE T == {k \in Nat : k <= K => C[k] = F[k]}
  <2>1. 0 \in T
    BY <1>5, <1>9
  <2>2. ASSUME NEW k \in Nat, k \in T PROVE k + 1 \in T
    <3> SUFFICES ASSUME k + 1 <= K PROVE C[k + 1] = F[k + 1]
      OBVIOUS
    <3>1. PICK j \in 1..K : j = k + 1 /\ j - 1 = k
      BY <1>1
    <3>2. C[j - 1] = F[j - 1]
      BY <1>1, <2>2, <3>1
    <3>3. C[j] = F[j]
      BY <1>4, <1>8, <3>2, Zenon
    <3> QED BY <3>1, <3>3
  <2> HIDE DEF T
  <2>3. Nat \subseteq T
    BY <2>1, <2>2, NatInduct
  <2> QED BY <2>3, <1>1 DEF T
<1>11. Script(m, l, r) = F[K]
  BY <1>1, <1>2, <1>10
<1>12. ScriptRun(F, e, K)
  BY <1>3, <1>4, <1>5 DEF ScriptRun, cmd, S
<1> QED BY <1>11, <1>12 DEF e

(***************************************************************************)
(* What dff_reparse makes of a file.                                       *)
(***************************************************************************)
(* After the commands for the first k gaps, the rows show both files up to  *)
(* d lines in front of the end of the next gap, which are the same.         *)
Reached(fs, e, K, k, ops) ==
  LET p == Parsed(1, ops)
      q == Parsed(2, ops)
  IN  /\ BothShow(fs, p, q)
      /\ \E d \in Nat : /\ e[k + 1][1] = p.line + d /\ e[k + 1][2] = q.line + d
                        /\ \A j \in 1..d : k < K \/ j < d => fs[1][p.line + j] = fs[2][q.line + j]
                        /\ IF k = 0 THEN p.rows = << >> ELSE d # 0

(* Between neighbours there is nothing to write.                            *)
LEMMA AdjacentReached ==
  ASSUME NEW fs, NEW e, NEW K, Way(e, K, fs[1], fs[2]), NEW k \in 1..K, NEW ops,
         Reached(fs, e, K, k - 1, ops), Adjacent(e, k)
  PROVE  Reached(fs, e, K, k, ops)
<1> DEFINE p == Parsed(1, ops)
           q == Parsed(2, ops)
           x == p.line
           y == q.line
<1>1. K \in Nat /\ k - 1 + 1 = k /\ k - 1 < K
  BY DEF Way
<1>2. PICK d \in Nat : /\ e[k][1] = x + d /\ e[k][2] = y + d
                       /\ \A j \in 1..d : fs[1][x + j] = fs[2][y + j]
  BY <1>1 DEF Reached
<1>3. BothShow(fs, p, q)
  BY DEF Reached
<1>4. x \in Nat /\ y \in Nat
  BY <1>3 DEF BothShow, StateSet
<1>5. e[k + 1][1] = e[k][1] + 1 /\ e[k + 1][2] = e[k][2] + 1
  BY DEF Adjacent
<1> HIDE DEF p, q, x, y
<1>6. e[k + 1][1] = x + (d + 1) /\ e[k + 1][2] = y + (d + 1)
  BY <1>2, <1>4, <1>5
<1>7. ASSUME NEW j \in 1..d + 1, k < K \/ j < d + 1 PROVE fs[1][x + j] = fs[2][y + j]
  <2>1. CASE j \in 1..d
    BY <1>2, <2>1
  <2>2. CASE j \notin 1..d
    <3>1. j = d + 1 /\ k < K
      BY <1>7, <2>2
    <3>2. PICK i \in 2..K : i = k + 1
      BY <1>1, <3>1
    <3>3. fs[1][e[i][1]] = fs[2][e[i][2]]
      BY DEF Way
    <3> QED BY <1>6, <3>1, <3>2, <3>3
  <2> QED BY <2>1, <2>2
<1>8. d + 1 \in Nat /\ d + 1 # 0 /\ k # 0
  BY <1>2
<1> QED BY <1>3, <1>6, <1>7, <1>8 DEF Reached, p, q, x, y

(* Two ends that are not neighbours have a gap between them.                *)
LEMMA GapOf ==
  ASSUME NEW e, NEW K, NEW l, NEW r, Way(e, K, l, r), NEW k \in 1..K, ~Adjacent(e, k)
  PROVE  GapEnds(e[k], e[k + 1])
<1>1. K \in Nat /\ k \in 1..K + 1 /\ k + 1 \in 1..K + 1
  BY DEF Way
<1>2. e[k] \in Nat \X Nat /\ e[k + 1] \in Nat \X Nat /\ e[k][1] < e[k + 1][1] /\ e[k][2] < e[k + 1][2]
  BY <1>1 DEF Way
<1>3. e[k + 1] # <<e[k][1] + 1, e[k][2] + 1>>
  BY DEF Adjacent
<1> DEFINE a == e[k]
           b == e[k + 1]
<1> HIDE DEF a, b
<1>4. a \in Nat \X Nat /\ b \in Nat \X Nat /\ a[1] < b[1] /\ a[2] < b[2] /\ b # <<a[1] + 1, a[2] + 1>>
  BY <1>2, <1>3 DEF a, b
<1>5. b[1] # a[1] + 1 \/ b[2] # a[2] + 1
  <2>1. b = <<b[1], b[2]>>
    BY <1>4
  <2> QED BY <1>4, <2>1
<1>6. GapEnds(a, b)
  BY <1>4, <1>5, SidesAre DEF GapEnds
<1> QED BY <1>6 DEF a, b

(* A gap is written as a command, and the rows reach its end.               *)
LEMMA CommandReached ==
  ASSUME NEW fs, NEW e, NEW K, Way(e, K, fs[1], fs[2]), NEW k \in 1..K,
         NEW ops \in Seq(AllCommands(e, K)),
         Reached(fs, e, K, k - 1, ops), ~Adjacent(e, k)
  PROVE  Reached(fs, e, K, k, Append(ops, DiffCmd(e[k], e[k + 1])))
<1> DEFINE p == Parsed(1, ops)
           q == Parsed(2, ops)
           cmd == DiffCmd(e[k], e[k + 1])
           pt == Parsed(1, Append(ops, cmd))
           qt == Parsed(2, Append(ops, cmd))
<1>1. K \in Nat /\ k - 1 + 1 = k /\ k - 1 < K
  BY DEF Way
<1>2. PICK d \in Nat : /\ e[k][1] = p.line + d /\ e[k][2] = q.line + d
                       /\ EqualLines(fs, p.line, q.line, d)
                       /\ d # 0 \/ p.rows = << >>
  BY <1>1 DEF Reached, EqualLines
<1>3. BothShow(fs, p, q)
  BY DEF Reached
<1>4. GapEnds(e[k], e[k + 1])
  BY GapOf
<1>5. pt = Printed(1, p, cmd) /\ qt = Printed(2, q, cmd)
  <2>1. cmd \in AllCommands(e, K)
    BY DEF AllCommands
  <2>2. \A x \in AllCommands(e, K) : IsCommand(x)
    BY GapOf DEF AllCommands, IsCommand
  <2>3. 1 \in Sides /\ 2 \in Sides
    BY SidesAre
  <2> HIDE DEF cmd
  <2> QED BY <2>1, <2>2, <2>3, ParsedAppend
<1> HIDE DEF p, q, pt, qt
<1>6. BothShow(fs, pt, qt) /\ pt.line = e[k + 1][1] - 1 /\ qt.line = e[k + 1][2] - 1
  <2> DEFINE a == e[k]
             b == e[k + 1]
  <2>1. pt = Printed(1, p, DiffCmd(a, b)) /\ qt = Printed(2, q, DiffCmd(a, b))
    BY <1>5
  <2>2. /\ a[1] = p.line + d /\ a[2] = q.line + d /\ GapEnds(a, b)
        /\ EqualLines(fs, p.line, q.line, d) /\ (d # 0 \/ p.rows = << >>)
    BY <1>2, <1>4
  <2> HIDE DEF a, b, cmd
  <2>3. BothEnd(fs, b, Printed(1, p, DiffCmd(a, b)), Printed(2, q, DiffCmd(a, b)))
    BY <1>3, <2>2, GapPrinted
  <2>4. BothShow(fs, pt, qt) /\ pt.line = b[1] - 1 /\ qt.line = b[2] - 1
    BY <2>1, <2>3 DEF BothEnd
  <2> QED BY <2>4 DEF b
<1>7. e[k + 1][1] \in Nat /\ e[k + 1][2] \in Nat
  <2>1. k + 1 \in 1..K + 1
    BY <1>1
  <2>2. e[k + 1] \in Nat \X Nat
    BY <2>1 DEF Way
  <2> QED BY <2>2
<1>8. e[k + 1][1] = pt.line + 1 /\ e[k + 1][2] = qt.line + 1
  BY <1>6, <1>7
<1>9. ASSUME NEW j \in 1..1, k < K \/ j < 1 PROVE fs[1][pt.line + j] = fs[2][qt.line + j]
  <2>1. j = 1 /\ k < K
    BY <1>9
  <2>2. PICK i \in 2..K : i = k + 1
    BY <1>1, <2>1
  <2>3. fs[1][e[i][1]] = fs[2][e[i][2]]
    BY DEF Way
  <2> QED BY <1>8, <2>1, <2>2, <2>3
<1> HIDE DEF cmd
<1>10. Reached(fs, e, K, k, Append(ops, cmd))
  BY <1>6, <1>8, <1>9 DEF Reached, pt, qt
<1> QED BY <1>10 DEF cmd

(* Rows that show two files whole.                                          *)
RowsShow(fs, rs) == SideBySide(fs, rs[1], rs[2], Len(fs[1]), Len(fs[2]))

(* The rows read from the script of two files show both files whole, side by*)
(* side: dff_reparse against dff_execute.                                   *)
LEMMA ReparseShows ==
  ASSUME NEW fs, Len(fs[1]) \in Nat, Len(fs[2]) \in Nat, NEW m \in Longest(fs[1], fs[2])
  PROVE  RowsShow(fs, [s \in Sides |-> dff_reparse(s, fs[s], Script(m, fs[1], fs[2]))])
<1> DEFINE e == Ends(m, fs[1], fs[2])
           K == Len(m[1]) + 1
           l == fs[1]
           r == fs[2]
<1>1. Way(e, K, l, r)
  BY LongestMatches, EndsAre
<1> HIDE DEF K
<1>2. PICK F : ScriptRun(F, e, K) /\ F[K] = Script(m, l, r)
  BY <1>1, ScriptRuns
<1> HIDE DEF e
<1>3. K \in Nat /\ K # 0
  BY <1>1 DEF Way
<1> DEFINE T == {k \in Nat : k <= K => Reached(fs, e, K, k, F[k])}
<1>4. 0 \in T
  <2>1. Parsed(1, << >>) = Nothing /\ Parsed(2, << >>) = Nothing
    BY ParsedNothing, SidesAre
  <2>2. SideBySide(fs, << >>, << >>, 0, 0)
    <3>1. CountsLines([k \in 0..0 |-> 0], << >>, 0)
      BY DEF CountsLines
    <3>2. ShowsLines(<< >>, 0)
      BY <3>1 DEF ShowsLines
    <3>3. Abreast(fs, << >>, << >>)
      BY DEF Abreast
    <3> QED BY <3>2, <3>3 DEF SideBySide
  <2>3. BothShow(fs, Nothing, Nothing)
    BY <2>2 DEF BothShow, Nothing, StateSet
  <2>4. e[1] = <<0, 0>>
    BY <1>1 DEF Way
  <2>5. Reached(fs, e, K, 0, << >>)
    <3>1. e[0 + 1][1] = Nothing.line + 0 /\ e[0 + 1][2] = Nothing.line + 0 /\ Nothing.rows = << >>
      BY <2>4 DEF Nothing
    <3>2. \A j \in 1..0 : FALSE
      OBVIOUS
    <3> QED BY <2>1, <2>3, <3>1, <3>2 DEF Reached
  <2>6. F[0] = << >>
    BY <1>2 DEF ScriptRun
  <2> QED BY <2>5, <2>6
<1>5. ASSUME NEW k \in Nat, k \in T PROVE k + 1 \in T
  <2> SUFFICES ASSUME k + 1 <= K PROVE Reached(fs, e, K, k + 1, F[k + 1])
    OBVIOUS
  <2>1. PICK j \in 1..K : j = k + 1 /\ j - 1 = k
    BY <1>3
  <2>2. Reached(fs, e, K, j - 1, F[j - 1])
    BY <1>3, <1>5, <2>1
  <2>3. F[j - 1] \in Seq(AllCommands(e, K))
    <3>1. j - 1 \in 0..K
      BY <1>3
    <3> QED BY <1>2, <3>1 DEF ScriptRun
  <2>4. F[j] = IF Adjacent(e, j) THEN F[j - 1] ELSE Append(F[j - 1], DiffCmd(e[j], e[j + 1]))
    BY <1>2 DEF ScriptRun
  <2> HIDE DEF T
  <2>5. Reached(fs, e, K, j, F[j])
    <3>1. CASE Adjacent(e, j)
      BY <1>1, <2>2, <2>4, <3>1, AdjacentReached
    <3>2. CASE ~Adjacent(e, j)
      BY <1>1, <2>2, <2>3, <2>4, <3>2, CommandReached
    <3> QED BY <3>1, <3>2
  <2> QED BY <2>1, <2>5
<1> HIDE DEF T
<1>6. Reached(fs, e, K, K, F[K])
  <2>1. Nat \subseteq T
    BY <1>4, <1>5, NatInduct
  <2> QED BY <1>3, <2>1 DEF T
<1> DEFINE ops == Script(m, l, r)
           p == Parsed(1, ops)
           q == Parsed(2, ops)
           x == p.line
           y == q.line
<1>7. PICK d \in Nat : /\ e[K + 1][1] = x + d /\ e[K + 1][2] = y + d /\ d # 0
                       /\ \A j \in 1..d : j < d => fs[1][x + j] = fs[2][y + j]
  BY <1>2, <1>3, <1>6 DEF Reached
<1>8. /\ p.rows \in Seq(RowSet) /\ q.rows \in Seq(RowSet) /\ x \in Nat /\ y \in Nat
      /\ SideBySide(fs, p.rows, q.rows, x, y)
  BY <1>2, <1>6 DEF Reached, BothShow, StateSet
<1>9. e[K + 1][1] = Len(l) + 1 /\ e[K + 1][2] = Len(r) + 1
  BY <1>1 DEF Way
<1> HIDE DEF p, q, x, y, ops
<1>10. PICK c \in Nat : c = d - 1 /\ x + c = Len(l) /\ y + c = Len(r)
  <2>1. x + d = Len(l) + 1 /\ y + d = Len(r) + 1 /\ d # 0
    BY <1>7, <1>9
  <2>2. x \in Nat /\ y \in Nat /\ Len(l) \in Nat /\ Len(r) \in Nat
    BY <1>8
  <2> HIDE DEF l, r
  <2>3. d - 1 \in Nat /\ x + (d - 1) = Len(l) /\ y + (d - 1) = Len(r)
    BY <2>1, <2>2
  <2> QED BY <2>3
<1>11. EqualLines(fs, x, y, c)
  BY <1>7, <1>10 DEF EqualLines
<1>12. SideBySide(fs, p.rows \o Strip("EQU", x, c, c), q.rows \o Strip("EQU", y, c, c), x + c, y + c)
  BY <1>8, <1>11, EqualFollows
<1>13. /\ Numbered("EQU", x, x + c) = Strip("EQU", x, c, c)
       /\ Numbered("EQU", y, y + c) = Strip("EQU", y, c, c)
  BY <1>8, NumberedIs
<1>14. /\ dff_reparse(1, l, ops) = p.rows \o Strip("EQU", x, c, c)
       /\ dff_reparse(2, r, ops) = q.rows \o Strip("EQU", y, c, c)
  BY <1>10, <1>13 DEF dff_reparse, p, q, x, y
<1>15. SideBySide(fs, dff_reparse(1, l, ops), dff_reparse(2, r, ops), Len(l), Len(r))
  BY <1>10, <1>12, <1>14
<1> DEFINE rs == [s \in Sides |-> dff_reparse(s, fs[s], ops)]
<1>16. rs[1] = dff_reparse(1, l, ops) /\ rs[2] = dff_reparse(2, r, ops)
  BY SidesAre
<1> HIDE DEF rs
<1>17. RowsShow(fs, rs)
  BY <1>15, <1>16 DEF RowsShow
<1> QED BY <1>17 DEF rs, ops

(***************************************************************************)
(* The lines that rows show.                                               *)
(***************************************************************************)
Numbering(c, rs, total) ==
  /\ \A i, j \in 0..Len(rs) : i <= j => c[i] <= c[j]
  /\ \A k \in 1..Len(rs) : rs[k].line # 0 => rs[k].line = c[k] /\ c[k] \in 1..total /\ c[k] = c[k - 1] + 1
  /\ \A k \in 0..Len(rs) : \A i \in 1..c[k] : \E j \in 1..k : rs[j].line = i
  /\ \A j, k \in 1..Len(rs) : j < k /\ rs[j].line # 0 /\ rs[k].line # 0 => rs[j].line < rs[k].line

(* A count of lines up to each row says which row shows which line.         *)
LEMMA CountsNumber ==
  ASSUME NEW rs, Len(rs) \in Nat, NEW total \in Nat, NEW c, CountsLines(c, rs, total)
  PROVE  Numbering(c, rs, total)
<1> DEFINE n == Len(rs)
<1>1. /\ n \in Nat /\ c \in [0..n -> Nat] /\ c[0] = 0 /\ c[n] = total
      /\ \A k \in 1..n :
           IF rs[k].line = 0 THEN c[k] = c[k - 1] ELSE rs[k].line = c[k - 1] + 1 /\ c[k] = c[k - 1] + 1
  BY DEF CountsLines
<1> HIDE DEF n
<1>2. \A j \in 0..n : \A i \in 0..j : c[i] <= c[j]
  <2> DEFINE T == {j \in Nat : j <= n => \A i \in 0..j : c[i] <= c[j]}
  <2>1. 0 \in T
    BY <1>1
  <2>2. ASSUME NEW j \in Nat, j \in T PROVE j + 1 \in T
    <3> SUFFICES ASSUME j + 1 <= n, NEW i \in 0..j + 1 PROVE c[i] <= c[j + 1]
      OBVIOUS
    <3>1. PICK k \in 1..n : k = j + 1 /\ k - 1 = j
      BY <1>1
    <3>2. c[j] \in Nat /\ c[k] \in Nat /\ c[j] <= c[k]
      BY <1>1, <3>1
    <3>3. CASE i = k
      BY <3>1, <3>2, <3>3
    <3>4. CASE i # k
      <4>1. i \in 0..j /\ c[i] \in Nat /\ c[i] <= c[j]
        BY <1>1, <2>2, <3>1, <3>4
      <4> QED BY <3>1, <3>2, <4>1
    <3> QED BY <3>3, <3>4
  <2> HIDE DEF T
  <2>3. Nat \subseteq T
    BY <2>1, <2>2, NatInduct
  <2> QED BY <2>3, <1>1 DEF T
<1>3. \A k \in 1..n : rs[k].line # 0 => rs[k].line = c[k] /\ c[k] \in 1..total /\ c[k] = c[k - 1] + 1
  <2> SUFFICES ASSUME NEW k \in 1..n, rs[k].line # 0 PROVE c[k] \in 1..total
    BY <1>1
  <2>1. k - 1 \in 0..n /\ k \in 0..n /\ n \in 0..n /\ k \in 0..n
    BY <1>1
  <2>2. c[k - 1] \in Nat /\ c[k] = c[k - 1] + 1 /\ c[k] <= c[n]
    BY <1>1, <1>2, <2>1
  <2> QED BY <1>1, <2>2
<1>4. \A k \in 0..n : \A i \in 1..c[k] : \E j \in 1..k : rs[j].line = i
  <2> DEFINE T == {k \in Nat : k <= n => \A i \in 1..c[k] : \E j \in 1..k : rs[j].line = i}
  <2>1. 0 \in T
    BY <1>1
  <2>2. ASSUME NEW m \in Nat, m \in T PROVE m + 1 \in T
    <3> SUFFICES ASSUME m + 1 <= n, NEW i \in 1..c[m + 1] PROVE \E j \in 1..m + 1 : rs[j].line = i
      OBVIOUS
    <3>1. PICK k \in 1..n : k = m + 1 /\ k - 1 = m /\ m \in 0..n
      BY <1>1
    <3>2. c[m] \in Nat /\ \A x \in 1..c[m] : \E j \in 1..m : rs[j].line = x
      BY <1>1, <2>2, <3>1
    <3>3. i \in 1..c[m] \/ (i = c[m] + 1 /\ rs[k].line = i)
      BY SMTT(60), <1>1, <3>1, <3>2
    <3>4. CASE i \in 1..c[m]
      BY <3>2, <3>4
    <3>5. CASE i = c[m] + 1 /\ rs[k].line = i
      BY <3>1, <3>5
    <3> QED BY <3>3, <3>4, <3>5
  <2> HIDE DEF T
  <2>3. Nat \subseteq T
    BY <2>1, <2>2, NatInduct
  <2> QED BY <2>3, <1>1 DEF T
<1>5. \A j, k \in 1..n : j < k /\ rs[j].line # 0 /\ rs[k].line # 0 => rs[j].line < rs[k].line
  <2> SUFFICES ASSUME NEW j \in 1..n, NEW k \in 1..n, j < k, rs[j].line # 0, rs[k].line # 0
               PROVE rs[j].line < rs[k].line
    OBVIOUS
  <2>1. k - 1 \in 0..n /\ j \in 0..k - 1
    BY <1>1
  <2>2. rs[j].line = c[j] /\ rs[k].line = c[k] /\ c[k] = c[k - 1] + 1
    BY <1>3
  <2>3. c[j] <= c[k - 1] /\ c[j] \in Nat /\ c[k - 1] \in Nat
    BY <1>1, <1>2, <2>1
  <2> QED BY <2>2, <2>3
<1>6. \A i, j \in 0..n : i <= j => c[i] <= c[j]
  BY <1>1, <1>2
<1> QED BY <1>3, <1>4, <1>5, <1>6 DEF Numbering, n

(* Rows that show a file show each of its lines once, in order.             *)
LEMMA RowsListed ==
  ASSUME NEW rs \in Seq(RowSet), NEW total \in Nat, ShowsLines(rs, total)
  PROVE  Lines([k \in DOMAIN rs |-> rs[k].line], InOrder(rs, {k \in DOMAIN rs : rs[k].line # 0}))
           = [i \in 1..total |-> i]
<1> DEFINE n == Len(rs)
           places == {k \in DOMAIN rs : rs[k].line # 0}
           ln == [k \in DOMAIN rs |-> rs[k].line]
<1>1. PICK c : CountsLines(c, rs, total)
  BY DEF ShowsLines
<1>2. /\ n \in Nat /\ DOMAIN rs = 1..n /\ c[n] = total
      /\ \A k \in 1..n : rs[k].line # 0 => rs[k].line \in 1..total
      /\ \A i \in 1..total : \E k \in 1..n : rs[k].line = i
      /\ \A j, k \in 1..n : j < k /\ rs[j].line # 0 /\ rs[k].line # 0 => rs[j].line < rs[k].line
  <2>1. n \in Nat /\ Numbering(c, rs, total) /\ c[n] = total /\ DOMAIN rs = 1..n /\ n \in 0..n
    BY <1>1, CountsNumber DEF CountsLines
  <2> HIDE DEF n
  <2> QED BY <2>1 DEF Numbering, n
<1> HIDE DEF n
<1> DEFINE p == [i \in 1..total |-> CHOOSE k \in 1..n : rs[k].line = i]
<1>3. \A i \in 1..total : p[i] \in 1..n /\ rs[p[i]].line = i
  BY <1>2
<1> HIDE DEF places
<1>4. p \in [1..total -> 1..n] /\ p \in Seq(1..n) /\ Len(p) = total
  BY <1>3
<1> HIDE DEF p
<1>5. ASSUME NEW i \in 1..total, NEW j \in 1..total, i < j PROVE p[i] < p[j]
  <2>1. p[i] \in 1..n /\ p[j] \in 1..n /\ rs[p[i]].line = i /\ rs[p[j]].line = j
    BY <1>3
  <2>2. p[i] # p[j]
    BY <1>5, <2>1
  <2>3. ~(p[j] < p[i])
    <3> SUFFICES ASSUME p[j] < p[i] PROVE FALSE
      OBVIOUS
    <3>1. rs[p[j]].line # 0 /\ rs[p[i]].line # 0 /\ ~(rs[p[j]].line < rs[p[i]].line)
      BY <1>2, <1>5, <2>1
    <3> QED BY <1>2, <2>1, <3>1
  <2>4. n \in Nat
    BY <1>2
  <2> QED BY <2>1, <2>2, <2>3, <2>4
<1>6. ASSUME NEW k \in 1..n PROVE k \in places <=> \E i \in 1..total : p[i] = k
  <2>1. CASE rs[k].line # 0
    <3>1. PICK i \in 1..total : i = rs[k].line
      BY <1>2, <2>1
    <3>2. p[i] \in 1..n /\ rs[p[i]].line = i
      BY <1>3
    <3>3. ~(p[i] < k) /\ ~(k < p[i])
      BY <1>2, <2>1, <3>1, <3>2
    <3>4. p[i] = k
      BY <3>2, <3>3
    <3> QED BY <1>2, <2>1, <3>4 DEF places
  <2>2. CASE rs[k].line = 0
    BY <1>3, <2>2 DEF places
  <2> QED BY <2>1, <2>2
<1>7. Lists(p, places, n)
  BY <1>4, <1>5, <1>6 DEF Lists, Rising
<1>8. InOrder(rs, places) = p
  BY <1>2, <1>7, InOrderIs DEF n
<1>9. Lines(ln, p) = [i \in 1..total |-> i]
  <2>1. DOMAIN p = 1..total
    BY <1>4
  <2>2. \A i \in 1..total : ln[p[i]] = i
    BY <1>2, <1>3
  <2> HIDE DEF ln
  <2> QED BY <2>1, <2>2 DEF Lines
<1> QED BY <1>8, <1>9 DEF places

(***************************************************************************)
(* Pieces of a text: the lines behind x up to y.                           *)
(***************************************************************************)
Piece(text, x, y) == [i \in 1..(y - x) |-> text[x + i]]

(* A piece of a text, line by line.                                         *)
LEMMA PieceIs ==
  ASSUME NEW S, NEW text \in Seq(S), NEW x \in Nat, NEW y \in Nat, x <= y, y <= Len(text)
  PROVE  /\ Piece(text, x, y) \in Seq(S) /\ Len(Piece(text, x, y)) = y - x
         /\ \A i \in 1..(y - x) : Piece(text, x, y)[i] = text[x + i]
<1>1. \A i \in 1..(y - x) : text[x + i] \in S
  OBVIOUS
<1>2. y - x \in Nat
  OBVIOUS
<1> QED BY <1>1, <1>2 DEF Piece

(* Neighbouring pieces make one piece.                                      *)
LEMMA PiecesJoin ==
  ASSUME NEW S, NEW text \in Seq(S), NEW x \in Nat, NEW y \in Nat, NEW z \in Nat,
         x <= y, y <= z, z <= Len(text)
  PROVE  Piece(text, x, y) \o Piece(text, y, z) = Piece(text, x, z)
<1>0. y <= Len(text) /\ x <= z
  OBVIOUS
<1>1. /\ Piece(text, x, y) \in Seq(S) /\ Len(Piece(text, x, y)) = y - x
      /\ \A i \in 1..(y - x) : Piece(text, x, y)[i] = text[x + i]
  BY <1>0, PieceIs
<1>2. /\ Piece(text, y, z) \in Seq(S) /\ Len(Piece(text, y, z)) = z - y
      /\ \A i \in 1..(z - y) : Piece(text, y, z)[i] = text[y + i]
  BY PieceIs
<1>3. /\ Piece(text, x, z) \in Seq(S) /\ Len(Piece(text, x, z)) = z - x
      /\ \A i \in 1..(z - x) : Piece(text, x, z)[i] = text[x + i]
  BY <1>0, PieceIs
<1> DEFINE p == Piece(text, x, y)
           q == Piece(text, y, z)
           r == Piece(text, x, z)
<1>4. /\ p \in Seq(S) /\ q \in Seq(S) /\ r \in Seq(S)
      /\ Len(p) = y - x /\ Len(q) = z - y /\ Len(r) = z - x
      /\ \A i \in 1..(y - x) : p[i] = text[x + i]
      /\ \A i \in 1..(z - y) : q[i] = text[y + i]
      /\ \A i \in 1..(z - x) : r[i] = text[x + i]
  BY <1>1, <1>2, <1>3
<1> HIDE DEF p, q, r
<1>5. p \in Seq(S) /\ q \in Seq(S)
  BY <1>4
<1>6. /\ p \o q \in Seq(S) /\ Len(p \o q) = Len(p) + Len(q)
      /\ \A i \in 1..Len(p) : (p \o q)[i] = p[i]
      /\ \A i \in 1..Len(q) : (p \o q)[Len(p) + i] = q[i]
  BY <1>5
<1>7. Len(p \o q) = z - x
  BY <1>4, <1>6
<1>8. ASSUME NEW i \in 1..(z - x) PROVE (p \o q)[i] = r[i]
  <2>1. CASE i <= y - x
    <3>1. i \in 1..(y - x)
      BY <2>1
    <3> QED BY <1>4, <1>6, <3>1
  <2>2. CASE i > y - x
    <3>1. PICK j \in 1..(z - y) : j = i - (y - x)
      BY <2>2
    <3>1a. j \in 1..Len(q) /\ Len(p) + j = i /\ y + j = x + i
      BY <1>4, <3>1
    <3>2. (p \o q)[Len(p) + j] = q[j] /\ Len(p) + j = i /\ y + j = x + i
      BY <1>6, <3>1a
    <3> QED BY <1>4, <3>2
  <2>3. i \in Int /\ y - x \in Int /\ (i <= y - x \/ i > y - x)
    OBVIOUS
  <2> QED BY <2>1, <2>2, <2>3
<1> DEFINE w == p \o q
<1>9. w \in Seq(S) /\ Len(w) = z - x /\ \A i \in 1..(z - x) : w[i] = r[i]
  BY <1>6, <1>7, <1>8
<1> HIDE DEF w
<1>10. w = r
  BY <1>4, <1>9
<1> QED BY <1>10 DEF p, q, r, w
(***************************************************************************)
(* The texts that are written.                                             *)
(***************************************************************************)

(* Lines of a file are a text again,                                        *)
LEMMA WrittenType ==
  ASSUME NEW text \in Seq(LineValues), NEW places
  PROVE  Written(text, places) \in Seq(LineValues)
<1> DEFINE p == InOrder(text, places)
<1>1. Len(text) \in Nat
  OBVIOUS
<1>2. p \in Seq(1..Len(text))
  BY <1>1, InOrderRises
<1> HIDE DEF p
<1>3. DOMAIN p = 1..Len(p) /\ Len(p) \in Nat /\ \A i \in 1..Len(p) : text[p[i]] \in LineValues
  BY <1>2
<1>4. Lines(text, p) \in Seq(LineValues)
  BY <1>3 DEF Lines
<1> QED BY <1>4 DEF Written, p

(* and so is what a merge writes.                                           *)
LEMMA MergeTextType ==
  ASSUME compared \in [Sides -> Seq(LineValues)], NEW t \in Sides
  PROVE  MergeText(t) \in Seq(LineValues)
<1>1. compared[t] \in Seq(LineValues) /\ compared[Opposite(t)] \in Seq(LineValues)
  BY SidesAre
<1>2. \A places : Written(compared[t], places) \in Seq(LineValues)
  BY <1>1, WrittenType
<1>3. HunkAndNext(Opposite(t)) \in Seq(LineValues)
  BY <1>1, WrittenType DEF HunkAndNext
<1> DEFINE a == Written(compared[t], 1..HunkStart[t] - 1)
           b == HunkAndNext(Opposite(t))
           c == Written(compared[t], HunkStart[t] + 1..Len(compared[t]))
           d == Written(compared[t], {k \in HunkStart[t] + 1..Len(compared[t]) : Counted(k) > HunkEnd[t]})
<1>4. /\ a \in Seq(LineValues) /\ b \in Seq(LineValues)
      /\ c \in Seq(LineValues) /\ d \in Seq(LineValues)
  BY <1>2, <1>3
<1>5. dview_add_hunk(t) = a \o b \o c /\ dview_replace_hunk(t) = a \o b \o d
  BY DEF dview_add_hunk, dview_replace_hunk
<1> HIDE DEF a, b, c, d
<1>6. dview_add_hunk(t) \in Seq(LineValues) /\ dview_replace_hunk(t) \in Seq(LineValues)
  BY <1>4, <1>5
<1>7. dview_remove_hunk(t) \in Seq(LineValues)
  BY <1>2 DEF dview_remove_hunk
<1> QED BY <1>6, <1>7 DEF MergeText

(***************************************************************************)
(* The invariant.                                                          *)
(***************************************************************************)
LineTexts == Seq(LineValues)

DvType ==
  /\ compared \in [Sides -> LineTexts] /\ merged \in [Sides -> BOOLEAN]
  /\ backups \in [Sides -> LineTexts \union {NoBackup}] /\ before \in [Sides -> LineTexts \union {NoBackup}]

RowsInv(files, rs, k) == RowsShow(files, rs) /\ k \in 0..Greatest(0, Len(rs[1]) - 1)

(* What "No" goes back to is the file before the first merge.               *)
BackupInv(m, bs, bf, tn) == \A t \in Sides \ tn : m[t] => bs[t] = bf[t] /\ bf[t] \in LineTexts

(* While the view is open its rows show the files as they are.              *)
DvInv ==
  /\ DvType /\ BackupInv(merged, backups, before, torn)
  /\ viewing => RowsInv(compared, rows, skip_rows)

(* The first row shown is one of the rows.                                  *)
LEMMA ShownRow ==
  ASSUME NEW k \in Int, NEW rs, Len(rs[1]) \in Nat
  PROVE  Shown(k, rs) \in 0..Greatest(0, Len(rs[1]) - 1)
BY DEF Shown, Greatest

(* The two sides have as many rows.                                         *)
LEMMA RowsLength ==
  ASSUME NEW files, NEW rs, RowsShow(files, rs)
  PROVE  Len(rs[1]) \in Nat /\ Len(rs[2]) = Len(rs[1])
BY DEF RowsShow, SideBySide, Abreast

(* What the invariant says while the view is open.                          *)
LEMMA SkipIs ==
  ASSUME DvInv, viewing
  PROVE  skip_rows \in Int /\ DvType /\ BackupInv(merged, backups, before, torn)
<1>1. RowsShow(compared, rows) /\ skip_rows \in 0..Greatest(0, Len(rows[1]) - 1)
  BY DEF DvInv, RowsInv
<1>2. Len(rows[1]) \in Nat
  BY <1>1, RowsLength
<1>3. Greatest(0, Len(rows[1]) - 1) \in Nat
  BY <1>2 DEF Greatest
<1>4. skip_rows \in Int
  BY <1>1, <1>3
<1> QED BY <1>4 DEF DvInv

(* The types of a side's texts.                                             *)
LEMMA TextsAre ==
  ASSUME DvType, NEW t \in Sides
  PROVE  /\ compared[t] \in LineTexts /\ << >> \in LineTexts
         /\ backups[t] \in LineTexts \union {NoBackup} /\ before[t] \in LineTexts \union {NoBackup}
<1>1. << >> \in LineTexts
  BY DEF LineTexts
<1> QED BY <1>1 DEF DvType

(* After redo_diff the rows show the files as they are now.                 *)
LEMMA RedoneShows ==
  ASSUME NEW files \in [Sides -> LineTexts], NEW row \in Int, Redone(files, row)
  PROVE  RowsInv(files, rows', skip_rows')
<1>1. PICK m \in Longest(files[1], files[2]) :
           /\ rows' = [s \in Sides |-> dff_reparse(s, files[s], Script(m, files[1], files[2]))]
           /\ skip_rows' = Shown(row, rows')
  BY DEF Redone
<1>2. Len(files[1]) \in Nat /\ Len(files[2]) \in Nat
  BY DEF Sides, LineTexts
<1>3. RowsShow(files, rows')
  BY <1>1, <1>2, ReparseShows
<1>4. Len((rows')[1]) \in Nat
  BY <1>3, RowsLength
<1> QED BY <1>1, <1>3, <1>4, ShownRow DEF RowsInv

(* A step that redraws the comparison keeps the rest of the invariant if it *)
(* keeps the types and the backups.                                         *)
LEMMA RedoneKeeps ==
  ASSUME DvType', BackupInv(merged, backups, before, torn)', Redone(compared', skip_rows),
         skip_rows \in Int
  PROVE  DvInv'
<1>1. compared' \in [Sides -> LineTexts]
  BY DEF DvType
<1>2. RowsInv(compared', rows', skip_rows')
  BY <1>1, RedoneShows
<1> QED BY <1>2 DEF DvInv

(* Moving to another row keeps the invariant.                               *)
LEMMA MoveKeeps ==
  ASSUME DvInv, NEW k \in Int, Move(k)
  PROVE  DvInv'
<1>1. /\ RowsInv(compared, rows, skip_rows) /\ skip_rows' = Shown(k, rows)
      /\ UNCHANGED <<compared, backups, merged, rows, viewing, before, torn>>
  BY DEF Move, DvInv
<1>2. RowsShow(compared, rows) /\ Len(rows[1]) \in Nat
  BY <1>1, RowsLength DEF RowsInv
<1>3. skip_rows' \in 0..Greatest(0, Len(rows[1]) - 1)
  BY <1>1, <1>2, ShownRow
<1> QED BY <1>1, <1>2, <1>3 DEF DvInv, DvType, BackupInv, RowsInv

(* The least and the greatest of some rows.                                 *)
LEMMA MinIs ==
  ASSUME NEW T \in SUBSET Nat, T # {}
  PROVE  Min(T) \in T /\ \A y \in T : Min(T) <= y
<1>1. \E x \in T : \A y \in T : x <= y
  BY LeastNat
<1> QED BY <1>1 DEF Min

(* The greatest of a nonempty set of rows.                                  *)
LEMMA MaxIs ==
  ASSUME NEW n \in Nat, NEW T \in SUBSET (0..n), T # {}
  PROVE  Max(T) \in T /\ \A y \in T : y <= Max(T)
<1> DEFINE U == {n - x : x \in T}
<1>1. U \in SUBSET Nat /\ U # {}
  <2>1. \A x \in T : n - x \in Nat
    OBVIOUS
  <2>2. PICK x \in T : TRUE
    OBVIOUS
  <2>3. n - x \in U
    OBVIOUS
  <2> QED BY <2>1, <2>3
<1>2. PICK u \in U : \A y \in U : u <= y
  <2> HIDE DEF U
  <2> QED BY <1>1, LeastNat
<1>3. PICK x \in T : u = n - x
  BY <1>2
<1>4. ASSUME NEW y \in T PROVE y <= x
  <2>1. n - y \in U /\ x \in 0..n /\ y \in 0..n
    OBVIOUS
  <2> HIDE DEF U
  <2>2. u <= n - y
    BY <1>2, <2>1
  <2> QED BY <1>3, <2>1, <2>2
<1>5. \E z \in T : \A y \in T : z >= y
  BY <1>4
<1>6. Max(T) \in T /\ \A y \in T : Max(T) >= y
  BY <1>5 DEF Max
<1> QED BY <1>6

(* The commands go to a row, or just beyond.                                *)
LEMMA FirstFromIs ==
  ASSUME Len(rows[1]) \in Nat, NEW k \in Int, NEW T \in SUBSET (0..LastRow)
  PROVE  FirstFrom(k, T) \in Nat
<1> DEFINE U == {j \in T : j >= k} \union {LastRow + 1}
<1>1. U \in SUBSET Nat /\ U # {}
  <2>1. LastRow + 1 \in Nat /\ \A j \in 0..LastRow : j \in Nat
    BY DEF LastRow
  <2> QED BY <2>1
<1> HIDE DEF U
<1>2. Min(U) \in Nat
  BY <1>1, MinIs
<1> QED BY <1>2 DEF FirstFrom, U

(* The row looked for is a row.                                             *)
LEMMA LastUpToIs ==
  ASSUME Len(rows[1]) \in Nat, NEW k \in Int, NEW T \in SUBSET (0..LastRow)
  PROVE  LastUpTo(k, T) \in Nat
<1> DEFINE U == {j \in T : j <= k} \union {0}
<1>1. U \in SUBSET (0..Len(rows[1])) /\ U # {}
  <2>1. 0 \in 0..Len(rows[1]) /\ \A j \in 0..LastRow : j \in 0..Len(rows[1])
    BY DEF LastRow
  <2> QED BY <2>1
<1> HIDE DEF U
<1>2. Max(U) \in 0..Len(rows[1])
  BY <1>1, MaxIs
<1> QED BY <1>2 DEF LastUpTo, U

(* Every command that only moves moves to some row.                         *)
LEMMA CommandsMove ==
  ASSUME DvInv, HunkNext \/ HunkPrev \/ Up \/ Down \/ \E n \in 0..(Len(compared[2]) + 1) : dview_goto_cmd(n)
  PROVE  \E k \in Int : Move(k)
<1>1. viewing
  BY DEF HunkNext, HunkPrev, Up, Down, dview_goto_cmd, Move
<1>2. RowsInv(compared, rows, skip_rows)
  BY <1>1 DEF DvInv
<1>3. Len(rows[1]) \in Nat
  BY <1>2, RowsLength DEF RowsInv
<1>4. skip_rows \in Int
  BY <1>2 DEF RowsInv
<1>5. Equal \in SUBSET (0..LastRow) /\ Differing \in SUBSET (0..LastRow)
  BY DEF Equal, Differing
<1>6. \A k \in Int : find_next_hunk(k) \in Int
  <2> TAKE k \in Int
  <2>1. FirstFrom(k, Equal) \in Int
    BY <1>3, <1>5, FirstFromIs
  <2>2. FirstFrom(FirstFrom(k, Equal), Differing) \in Nat
    BY <1>3, <1>5, <2>1, FirstFromIs
  <2> QED BY <2>2 DEF find_next_hunk
<1>7. \A k \in Int : find_prev_hunk(k) \in Int
  <2> TAKE k \in Int
  <2> DEFINE a == LastUpTo(k, Equal)
             b == LastUpTo(a, Differing)
             c == LastUpTo(b, Equal)
  <2>1. a \in Int
    BY <1>3, <1>5, LastUpToIs
  <2> HIDE DEF a
  <2>2. b \in Int
    BY <1>3, <1>5, <2>1, LastUpToIs
  <2> HIDE DEF b
  <2>3. c \in Int
    BY <1>3, <1>5, <2>2, LastUpToIs
  <2>4. find_prev_hunk(k) = IF c > 0 THEN c + 1 ELSE c
    BY DEF find_prev_hunk, a, b
  <2> HIDE DEF c
  <2> QED BY <2>3, <2>4
<1>8. ASSUME NEW n \in 0..(Len(compared[2]) + 1), dview_goto_cmd(n) PROVE \E k \in Int : Move(k)
  <2> DEFINE T == {j \in 0..LastRow : Row(2, j).line = n}
             k == IF n = 0 THEN 0 ELSE FirstFrom(0, T)
  <2>1. FirstFrom(0, T) \in Nat
    <3>1. T \in SUBSET (0..LastRow)
      OBVIOUS
    <3> HIDE DEF T
    <3> QED BY <1>3, <3>1, FirstFromIs
  <2>2. Move(k)
    BY <1>8 DEF dview_goto_cmd
  <2> HIDE DEF T
  <2>3. k \in Int
    BY <2>1
  <2> HIDE DEF k
  <2> QED BY <2>2, <2>3
<1>9. CASE HunkNext
  BY <1>4, <1>6, <1>9 DEF HunkNext
<1>10. CASE HunkPrev
  BY <1>4, <1>7, <1>10 DEF HunkPrev
<1>11. CASE Up \/ Down
  <2>1. skip_rows - 1 \in Int /\ skip_rows + 1 \in Int
    BY <1>4
  <2> QED BY <1>11, <2>1 DEF Up, Down
<1> QED BY <1>8, <1>9, <1>10, <1>11

(***************************************************************************)
(* Step by step.                                                           *)
(***************************************************************************)
LEMMA DvInitial == DvInit => DvInv
<1> SUFFICES ASSUME DvInit PROVE DvInv
  OBVIOUS
<1>1. compared \in [Sides -> BoundedSeq(LineValues, MaxLines)]
  BY DEF DvInit
<1>2. BoundedSeq(LineValues, MaxLines) \subseteq LineTexts
  BY DiffBoundsAssumption DEF BoundedSeq, SeqOf, LineTexts
<1>3. compared \in [Sides -> LineTexts]
  BY <1>1, <1>2
<1>4. ~viewing /\ backups = NoneBefore /\ merged = Unmerged /\ before = NoneBefore
  BY DEF DvInit
<1> QED BY <1>3, <1>4 DEF DvInv, DvType, BackupInv, NoneBefore, Unmerged

(* A merge refused at the question about the backup keeps the invariant.    *)
LEMMA RefusedKeeps == ASSUME DvInv, NEW t \in Sides, merge_refused(t) PROVE DvInv'
<1>1. PICK how \in {"not opened", "cut"} :
        /\ viewing /\ backups' = [backups EXCEPT ![t] = OnDisk(how, compared[t], @)]
        /\ torn' = torn \union (IF CutShort(how) THEN {t} ELSE {})
        /\ Redone(compared, skip_rows) /\ ~merged[t]
        /\ UNCHANGED <<compared, merged, viewing, before>>
  BY DEF merge_refused
<1>2. skip_rows \in Int /\ DvType /\ BackupInv(merged, backups, before, torn)
  BY <1>1, SkipIs
<1>3. compared[t] \in LineTexts /\ << >> \in LineTexts /\ backups[t] \in LineTexts \union {NoBackup}
  BY <1>2, TextsAre
<1>4. OnDisk(how, compared[t], backups[t]) \in LineTexts \union {NoBackup}
  BY <1>3 DEF OnDisk
<1>5. DvType'
  BY <1>1, <1>2, <1>4 DEF DvType
<1>6. BackupInv(merged, backups, before, torn)'
  <2> SUFFICES ASSUME NEW u \in Sides, u \notin torn', merged[u] PROVE (backups')[u] = before[u] /\ before[u] \in LineTexts
    BY <1>1 DEF BackupInv
  <2>1. u # t /\ u \notin torn
    BY <1>1
  <2> QED BY <1>1, <1>2, <2>1 DEF BackupInv, DvType
<1>7. Redone(compared', skip_rows)
  BY <1>1
<1> QED BY <1>2, <1>5, <1>6, <1>7, RedoneKeeps

(* A merge keeps it.                                                        *)
LEMMA MergeKeeps == ASSUME DvInv, NEW t \in Sides, do_merge_hunk(t) PROVE DvInv'
<1>1. PICK saved \in {"whole", "cut unseen"}, how \in Outcomes \ {"cut unseen"} :
        /\ viewing /\ backups' = BackupMade(t, saved)
        /\ merged' = [merged EXCEPT ![t] = TRUE]
        /\ before' = IF merged[t] THEN before ELSE [before EXCEPT ![t] = compared[t]]
        /\ compared' = [compared EXCEPT ![t] = OnDisk(how, MergeText(t), @)]
        /\ torn' = torn \union (IF CutShort(saved) \/ CutShort(how) THEN {t} ELSE {})
        /\ Redone(compared', skip_rows)
  BY DEF do_merge_hunk
<1>2. skip_rows \in Int /\ DvType /\ BackupInv(merged, backups, before, torn)
  BY <1>1, SkipIs
<1>3. /\ compared[t] \in LineTexts /\ << >> \in LineTexts /\ backups[t] \in LineTexts \union {NoBackup}
      /\ before[t] \in LineTexts \union {NoBackup}
  BY <1>2, TextsAre
<1>4. MergeText(t) \in LineTexts
  <2>1. compared \in [Sides -> Seq(LineValues)]
    BY <1>2 DEF DvType, LineTexts
  <2> QED BY <2>1, MergeTextType DEF LineTexts
<1>5. OnDisk(how, MergeText(t), compared[t]) \in LineTexts /\ OnDisk(saved, compared[t], backups[t]) \in LineTexts \union {NoBackup}
  BY <1>3, <1>4 DEF OnDisk
<1>6. DvType'
  BY <1>1, <1>2, <1>3, <1>5 DEF DvType, BackupMade
<1>7. BackupInv(merged, backups, before, torn)'
  <2> SUFFICES ASSUME NEW u \in Sides, u \notin torn', (merged')[u]
               PROVE (backups')[u] = (before')[u] /\ (before')[u] \in LineTexts
    BY DEF BackupInv
  <2>1. u \notin torn
    BY <1>1
  <2>2. CASE merged[t]
    <3>1. merged[u]
      BY <1>1, <1>2, <2>2 DEF DvType
    <3> QED BY <1>1, <1>2, <2>1, <2>2, <3>1 DEF BackupInv, BackupMade
  <2>3. CASE ~merged[t] /\ u = t
    <3>1. saved = "whole"
      BY <1>1, <2>3 DEF CutShort
    <3> QED BY <1>1, <1>2, <1>3, <2>3, <3>1 DEF BackupMade, OnDisk, DvType
  <2>4. CASE ~merged[t] /\ u # t
    <3>1. merged[u]
      BY <1>1, <1>2, <2>4 DEF DvType
    <3> QED BY <1>1, <1>2, <2>1, <2>4, <3>1 DEF BackupInv, BackupMade, DvType
  <2> QED BY <2>2, <2>3, <2>4
<1>8. Redone(compared', skip_rows)
  BY <1>1
<1> QED BY <1>2, <1>6, <1>7, <1>8, RedoneKeeps

(* Editing a file from the view keeps it.                                   *)
LEMMA EditKeeps == ASSUME DvInv, NEW t \in Sides, dview_edit(t) PROVE DvInv'
<1>1. PICK text \in Edited(compared[t]) : compared' = [compared EXCEPT ![t] = text]
  BY DEF dview_edit
<1>2. viewing /\ Redone(compared', skip_rows) /\ UNCHANGED <<backups, merged, viewing, before, torn>>
  BY DEF dview_edit
<1>3. skip_rows \in Int /\ DvType /\ BackupInv(merged, backups, before, torn)
  BY <1>2, SkipIs
<1>4. text \in LineTexts
  <2>1. compared[t] \in Seq(LineValues)
    BY <1>3 DEF DvType, LineTexts
  <2> DEFINE x == compared[t]
  <2>2. text \in {RemoveAt(x, k) : k \in DOMAIN x} \union {Append(x, v) : v \in LineValues}
    BY <1>1 DEF Edited
  <2>3. x \in Seq(LineValues)
    BY <2>1
  <2> HIDE DEF x
  <2>4. \A v \in LineValues : Append(x, v) \in Seq(LineValues)
    BY <2>3
  <2>5. \A k \in DOMAIN x : RemoveAt(x, k) \in Seq(LineValues)
    <3> TAKE k \in DOMAIN x
    <3>1. Len(x) \in Nat /\ k \in 1..Len(x)
      BY <2>3
    <3>2. SubSeq(x, 1, k - 1) \in Seq(LineValues)
      <4>1. \A i \in 1..k - 1 : x[i] \in LineValues
        BY <2>3, <3>1
      <4> QED BY <2>3, <3>1, <4>1
    <3>3. SubSeq(x, k + 1, Len(x)) \in Seq(LineValues)
      <4>1. \A i \in k + 1..Len(x) : x[i] \in LineValues
        BY <2>3, <3>1
      <4> QED BY <2>3, <3>1, <4>1
    <3> QED BY <3>2, <3>3 DEF RemoveAt
  <2> QED BY <2>2, <2>4, <2>5 DEF LineTexts
<1>5. DvType'
  BY <1>1, <1>2, <1>3, <1>4 DEF DvType
<1>6. BackupInv(merged, backups, before, torn)'
  BY <1>2, <1>3 DEF BackupInv
<1> QED BY <1>2, <1>3, <1>5, <1>6, RedoneKeeps

(* Saving keeps it.                                                         *)
LEMMA SaveKeeps == ASSUME DvInv, dview_save PROVE DvInv'
<1>1. DvType /\ viewing /\ RowsInv(compared, rows, skip_rows)
  BY DEF DvInv, dview_save
<1>2. backups' = Without(Merged) /\ merged' = Unmerged /\ before' = NoneBefore /\ compared' = compared
  BY DEF dview_save, Left
<1>3. DvType'
  BY <1>1, <1>2 DEF DvType, Without, Unmerged, NoneBefore
<1>4. BackupInv(merged, backups, before, torn)'
  BY <1>2 DEF BackupInv, Unmerged
<1>5. viewing' => rows' = rows /\ skip_rows' = skip_rows
  BY DEF dview_save
<1> QED BY <1>1, <1>2, <1>3, <1>4, <1>5 DEF DvInv, RowsInv

(* Writing the backups back keeps it.                                       *)
LEMMA RestoreKeeps == ASSUME DvInv, dview_restore PROVE DvInv'
<1>1. PICK how \in [Sides -> Outcomes] :
        /\ ~viewing'
        /\ compared' = [s \in Sides |->
             IF s \in HasBackup THEN OnDisk(how[s], backups[s], compared[s]) ELSE compared[s]]
        /\ backups' = Without({s \in HasBackup : Reported(how[s])})
        /\ Left
  BY DEF dview_restore
<1>2. DvType
  BY DEF DvInv
<1>3. ASSUME NEW s \in HasBackup PROVE OnDisk(how[s], backups[s], compared[s]) \in LineTexts
  <2>1. backups[s] \in LineTexts /\ compared[s] \in LineTexts /\ << >> \in LineTexts
    BY <1>2 DEF DvType, HasBackup, LineTexts
  <2> QED BY <2>1 DEF OnDisk
<1>4. DvType'
  <2>1. compared' \in [Sides -> LineTexts]
    BY <1>1, <1>2, <1>3 DEF DvType
  <2>2. backups' \in [Sides -> LineTexts \union {NoBackup}]
    BY <1>1, <1>2 DEF DvType, Without
  <2> QED BY <1>1, <2>1, <2>2 DEF DvType, Left, Unmerged, NoneBefore
<1>5. BackupInv(merged, backups, before, torn)'
  BY <1>1 DEF BackupInv, Left, Unmerged
<1> QED BY <1>1, <1>4, <1>5 DEF DvInv

(* Leaving the view keeps it.                                               *)
LEMMA EndKeeps == ASSUME DvInv, dview_ends PROVE DvInv'
<1>1. ~viewing' /\ UNCHANGED <<compared, backups, torn>> /\ merged' = Unmerged /\ before' = NoneBefore
  BY DEF dview_ends, Left
<1> QED BY <1>1 DEF DvInv, DvType, BackupInv, Unmerged, NoneBefore

(* Opening it establishes it.                                               *)
LEMMA StartKeeps == ASSUME DvInv, dview_init PROVE DvInv'
<1>1. Redone(compared, 0) /\ UNCHANGED <<compared, backups, merged, before, torn>>
  BY DEF dview_init
<1>2. DvType /\ BackupInv(merged, backups, before, torn)
  BY DEF DvInv
<1>3. RowsInv(compared, rows', skip_rows')
  BY <1>1, <1>2, RedoneShows DEF DvType
<1> QED BY <1>1, <1>2, <1>3 DEF DvInv, DvType, BackupInv

(* The invariant is inductive.                                              *)
LEMMA DvStep == ASSUME DvInv, [DvNext]_dv_vars PROVE DvInv'
<1>1. CASE \E s \in Sides : merge_refused(s) \/ do_merge_hunk(s) \/ dview_edit(s)
  BY <1>1, RefusedKeeps, MergeKeeps, EditKeeps
<1>2. CASE HunkNext \/ HunkPrev \/ Up \/ Down \/ \E n \in 0..(Len(compared[2]) + 1) : dview_goto_cmd(n)
  <2>1. PICK k \in Int : Move(k)
    BY <1>2, CommandsMove
  <2> QED BY <2>1, MoveKeeps
<1>3. CASE dview_save \/ dview_restore \/ dview_ends \/ dview_init
  BY <1>3, SaveKeeps, RestoreKeeps, EndKeeps, StartKeeps
<1>4. CASE UNCHANGED dv_vars
  BY <1>4 DEF dv_vars, DvInv, DvType, BackupInv, RowsInv
<1> QED BY <1>1, <1>2, <1>3, <1>4 DEF DvNext

(* It holds throughout.                                                     *)
LEMMA DvInvariant == DvSpec => []DvInv
<1>1. DvInv /\ [DvNext]_dv_vars => DvInv'
  BY DvStep
<1> QED BY DvInitial, <1>1, PTL DEF DvSpec

(* It says that the rows are true.                                          *)
LEMMA RowsFollow == ASSUME DvInv PROVE RowsTrue
<1> SUFFICES ASSUME viewing PROVE RowsTrue
  BY DEF RowsTrue
<1>1. /\ DvType /\ RowsShow(compared, rows) /\ skip_rows \in 0..Greatest(0, Len(rows[1]) - 1)
  BY DEF DvInv, RowsInv
<1> DEFINE x == Len(compared[1])
           y == Len(compared[2])
<1>2. /\ rows[1] \in Seq(RowSet) /\ rows[2] \in Seq(RowSet) /\ x \in Nat /\ y \in Nat
      /\ Abreast(compared, rows[1], rows[2]) /\ ShowsLines(rows[1], x) /\ ShowsLines(rows[2], y)
  BY <1>1 DEF RowsShow, SideBySide
<1>3. Len(rows[1]) = Len(rows[2]) /\ Len(rows[1]) \in Nat
  BY <1>2 DEF Abreast
<1>4. ASSUME NEW s \in Sides PROVE LinesOf(s) = [i \in DOMAIN compared[s] |-> i]
  <2>1. rows[s] \in Seq(RowSet) /\ Len(compared[s]) \in Nat /\ ShowsLines(rows[s], Len(compared[s]))
    BY <1>2 DEF Sides
  <2>2. compared[s] \in LineTexts
    BY <1>1 DEF DvType
  <2>3. DOMAIN compared[s] = 1..Len(compared[s])
    BY <2>2 DEF LineTexts
  <2> QED BY <2>1, <2>3, RowsListed DEF LinesOf
<1>5. ASSUME NEW k \in 0..LastRow
      PROVE Differs(k) \/ compared[1][Row(1, k).line] = compared[2][Row(2, k).line]
  <2>1. k + 1 \in 1..Len(rows[1])
    BY <1>3 DEF LastRow
  <2>2. PairTrue(compared, rows[1][k + 1], rows[2][k + 1])
    BY <1>2, <2>1 DEF Abreast
  <2> QED BY <2>2 DEF PairTrue, Differs, Row
<1>6. skip_rows \in 0..Greatest(0, LastRow)
  BY <1>1 DEF LastRow
<1> QED BY <1>3, <1>4, <1>5, <1>6 DEF RowsTrue

(* For every pair of files, every choice of matched lines and every sequence*)
(* of commands, merges, edits and restores: while the view of               *)
(* src/diffviewer/ydiff.c is open, its rows show every line of both files   *)
(* once and in order, an equal row shows equal lines, a changed row stands  *)
(* across from one with a different line or none, and the row at the top is *)
(* one of them.                                                             *)
THEOREM RowsAreTrue == DvSpec => []RowsTrue
BY DvInvariant, RowsFollow, PTL

(***************************************************************************)
(* What a merge writes.                                                    *)
(***************************************************************************)

(* Consecutive places yield a piece of the text,                            *)
LEMMA WrittenPiece ==
  ASSUME NEW S, NEW text \in Seq(S), NEW x \in Nat, NEW y \in Nat, x <= y, y <= Len(text),
         NEW places, \A k \in 1..Len(text) : k \in places <=> x < k /\ k <= y
  PROVE  Written(text, places) = Piece(text, x, y)
<1> DEFINE n == Len(text)
           m == y - x
           p == [i \in 1..m |-> x + i]
<1>1. n \in Nat /\ m \in Nat /\ x + m = y /\ y <= n
  OBVIOUS
<1> HIDE DEF m, n
<1>2. p \in Seq(1..n) /\ Len(p) = m /\ \A i \in 1..m : p[i] = x + i
  <2>1. \A i \in 1..m : x + i \in 1..n
    BY <1>1
  <2> QED BY <1>1, <2>1
<1> HIDE DEF p
<1>3. p \in [1..Len(p) -> 1..n] /\ Rising(p) /\ Len(p) \in Nat
  BY <1>1, <1>2 DEF Rising
<1>4. ASSUME NEW k \in 1..n PROVE k \in places <=> \E i \in 1..Len(p) : p[i] = k
  <2>1. k \in places <=> x < k /\ k <= y
    BY DEF n
  <2>2. CASE x < k /\ k <= y
    <3>1. k - x \in 1..m /\ x + (k - x) = k
      BY <1>1, <2>2
    <3> QED BY <1>2, <2>1, <2>2, <3>1
  <2>3. CASE ~(x < k /\ k <= y)
    <3>1. \A i \in 1..m : x + i # k
      BY <1>1, <2>3
    <3> QED BY <1>2, <2>1, <2>3, <3>1
  <2> QED BY <2>2, <2>3
<1>5. Lists(p, places, n)
  BY <1>3, <1>4 DEF Lists
<1>6. InOrder(text, places) = p
  BY <1>1, <1>5, InOrderIs DEF n
<1>7. Lines(text, p) = [i \in 1..m |-> text[x + i]]
  BY <1>2 DEF Lines
<1> QED BY <1>6, <1>7 DEF Written, Piece, m

(* and all but some consecutive ones the pieces around them.                *)
LEMMA WrittenTwo ==
  ASSUME NEW S, NEW text \in Seq(S), NEW x \in Nat, NEW y \in Nat, x <= y, y <= Len(text),
         NEW places, \A k \in 1..Len(text) : k \in places <=> k <= x \/ y < k
  PROVE  Written(text, places) = Piece(text, 0, x) \o Piece(text, y, Len(text))
<1> DEFINE n == Len(text)
           m == n - y
           p == [i \in 1..x + m |-> IF i <= x THEN i ELSE i + (y - x)]
<1>1. n \in Nat /\ m \in Nat /\ y + m = n /\ y <= n /\ x + m \in Nat
  OBVIOUS
<1> HIDE DEF m, n
<1>2. p \in Seq(1..n) /\ Len(p) = x + m /\ \A i \in 1..x + m : p[i] = IF i <= x THEN i ELSE i + (y - x)
  <2>1. \A i \in 1..x + m : (IF i <= x THEN i ELSE i + (y - x)) \in 1..n
    BY <1>1
  <2> QED BY <1>1, <2>1
<1> HIDE DEF p
<1>3. p \in [1..Len(p) -> 1..n] /\ Rising(p) /\ Len(p) \in Nat
  <2>1. \A i, j \in 1..x + m : i < j => p[i] < p[j]
    BY SMTT(60), <1>1, <1>2
  <2> QED BY SMTT(60), <1>1, <1>2, <2>1 DEF Rising
<1>4. ASSUME NEW k \in 1..n PROVE k \in places <=> \E i \in 1..Len(p) : p[i] = k
  <2>1. k \in places <=> k <= x \/ y < k
    BY DEF n
  <2>2. CASE k <= x
    <3>1. k \in 1..x + m
      BY <1>1, <2>2
    <3> QED BY <1>2, <2>1, <2>2, <3>1
  <2>3. CASE y < k
    <3>1. k - (y - x) \in 1..x + m /\ ~(k - (y - x) <= x) /\ (k - (y - x)) + (y - x) = k
      BY <1>1, <2>3
    <3> QED BY <1>2, <2>1, <2>3, <3>1
  <2>4. CASE ~(k <= x) /\ ~(y < k)
    <3>1. \A i \in 1..x + m : (IF i <= x THEN i ELSE i + (y - x)) # k
      BY <1>1, <2>4
    <3> QED BY <1>2, <2>1, <2>4, <3>1
  <2> QED BY <2>2, <2>3, <2>4
<1>5. Lists(p, places, n)
  BY <1>3, <1>4 DEF Lists
<1>6. InOrder(text, places) = p
  BY <1>1, <1>5, InOrderIs DEF n
<1> DEFINE u == Piece(text, 0, x)
           v == Piece(text, y, n)
           w == Lines(text, p)
<1>7. /\ u \in Seq(S) /\ Len(u) = x - 0 /\ \A i \in 1..(x - 0) : u[i] = text[0 + i]
  <2>1. x <= Len(text) /\ 0 \in Nat /\ 0 <= x
    BY <1>1 DEF n
  <2> QED BY <2>1, PieceIs
<1>8. /\ v \in Seq(S) /\ Len(v) = n - y /\ \A i \in 1..(n - y) : v[i] = text[y + i]
  <2>1. n <= Len(text) /\ y \in Nat /\ n \in Nat /\ y <= n
    BY <1>1 DEF n
  <2> QED BY <2>1, PieceIs
<1>9. w \in Seq(S) /\ Len(w) = x + m /\ \A i \in 1..x + m : w[i] = text[p[i]]
  <2>1. \A i \in 1..x + m : text[p[i]] \in S
    BY <1>2 DEF n
  <2>2. w = [i \in 1..x + m |-> text[p[i]]]
    BY <1>2 DEF Lines
  <2> HIDE DEF w
  <2> QED BY <1>1, <2>1, <2>2
<1> HIDE DEF u, v, w
<1>9a. u \in Seq(S) /\ v \in Seq(S)
  BY <1>7, <1>8
<1>10. /\ u \o v \in Seq(S) /\ Len(u \o v) = Len(u) + Len(v)
       /\ \A i \in 1..Len(u) : (u \o v)[i] = u[i]
       /\ \A i \in 1..Len(v) : (u \o v)[Len(u) + i] = v[i]
  BY <1>9a, ConcatIs
<1> DEFINE z == u \o v
<1>11. z \in Seq(S) /\ Len(z) = x + m
  BY <1>1, <1>7, <1>8, <1>10
<1>12. ASSUME NEW i \in 1..x + m PROVE z[i] = w[i]
  <2>1. CASE i <= x
    <3>1. i \in 1..(x - 0) /\ i \in 1..Len(u) /\ 0 + i = i
      BY <1>7, <2>1
    <3>2. z[i] = u[i] /\ u[i] = text[0 + i]
      BY <1>7, <1>10, <3>1
    <3>3. p[i] = i /\ w[i] = text[p[i]]
      BY <1>2, <1>9, <2>1
    <3> QED BY <3>1, <3>2, <3>3
  <2>2. CASE i > x
    <3>1. PICK j \in 1..(n - y) : j = i - x
      BY <1>1, <2>2
    <3>2. j \in 1..Len(v) /\ Len(u) + j = i /\ y + j = i + (y - x) /\ ~(i <= x)
      BY <1>1, <1>7, <1>8, <2>2, <3>1
    <3>3. z[i] = v[j] /\ v[j] = text[y + j] /\ p[i] = y + j
      BY <1>2, <1>8, <1>10, <3>2
    <3> QED BY <1>9, <3>3
  <2>3. i <= x \/ i > x
    BY <1>1
  <2> QED BY <2>1, <2>2, <2>3
<1> HIDE DEF z
<1>13. w = z
  BY <1>9, <1>11, <1>12
<1> QED BY <1>6, <1>13 DEF Written, u, v, w, z, n

(* The piece between a place and itself is empty.                           *)
LEMMA PieceNone == ASSUME NEW text, NEW x \in Nat PROVE Piece(text, x, x) = << >>
<1>1. x - x = 0
  OBVIOUS
<1>2. Piece(text, x, x) = [i \in 1..0 |-> text[x + i]]
  BY <1>1 DEF Piece
<1> QED BY <1>2

(* A piece of one line.                                                     *)
LEMMA PieceOne ==
  ASSUME NEW S, NEW text \in Seq(S), NEW x \in Nat, x < Len(text)
  PROVE  Piece(text, x, x + 1) = <<text[x + 1]>>
<1>1. (x + 1) - x = 1
  OBVIOUS
<1>2. Piece(text, x, x + 1) = [i \in 1..1 |-> text[x + i]]
  BY <1>1 DEF Piece
<1> QED BY <1>2

(* What FlattenSeq yields, sequence by sequence.                            *)
LEMMA FlattenDoes ==
  ASSUME NEW S, NEW ss \in Seq(Seq(S))
  PROVE  \E F \in [0 .. Len(ss) -> Seq(S)] :
           /\ F[0] = << >>
           /\ \A k \in 1 .. Len(ss) : F[k] = F[k - 1] \o ss[k]
           /\ F[Len(ss)] = FlattenSeq(ss)
<1> DEFINE n == Len(ss)
           Flat(F, k) == /\ F \in [0 .. k -> Seq(S)] /\ F[0] = << >>
                         /\ \A i \in 1 .. k : F[i] = F[i - 1] \o ss[i]
           T == {k \in Nat : k > n \/ \E F : Flat(F, k)}
<1>1. n \in Nat /\ \A i \in 1 .. n : ss[i] \in Seq(S)
  OBVIOUS
<1> HIDE DEF n, Flat
<1>2. 0 \in T
  <2>1. Flat([i \in 0 .. 0 |-> << >>], 0)
    BY DEF Flat
  <2> QED BY <2>1
<1>3. ASSUME NEW k \in Nat, k \in T PROVE k + 1 \in T
  <2> SUFFICES ASSUME k + 1 <= n PROVE \E F : Flat(F, k + 1)
    BY <1>1
  <2>1. PICK F : Flat(F, k)
    BY <1>1, <1>3
  <2>1a. PICK j \in 1 .. n : j = k + 1
    BY <1>1
  <2> HIDE DEF T
  <2> DEFINE G == [i \in 0 .. j |-> IF i = j THEN F[k] \o ss[j] ELSE F[i]]
  <2>1b. j \in Nat /\ k = j - 1 /\ k \in Nat /\ k # j /\ 1 .. k \subseteq 1 .. j
    BY <1>1, <2>1a
  <2>2. F[k] \o ss[j] \in Seq(S)
    BY <1>1, <2>1, <2>1b, ConcatIs DEF Flat
  <2>3. G \in [0 .. j -> Seq(S)] /\ G[0] = << >>
    BY <2>1, <2>2, <2>1a DEF Flat
  <2>4. ASSUME NEW i \in 1 .. j PROVE G[i] = G[i - 1] \o ss[i]
    <3>1. i \in 0 .. j /\ i - 1 \in 0 .. j /\ i - 1 # j /\ (i # j => i \in 1 .. k) /\ (i = j => i - 1 = k)
      BY <2>1b
    <3>2. G[i - 1] = F[i - 1] /\ G[i] = IF i = j THEN F[k] \o ss[j] ELSE F[i]
      BY <3>1
    <3>2a. i # j => F[i] = F[i - 1] \o ss[i]
      BY <3>1, <2>1 DEF Flat
    <3> HIDE DEF G
    <3>3. CASE i = j
      <4>1. G[i] = F[k] \o ss[j]
        BY <3>2, <3>3
      <4>2. G[i - 1] = F[k]
        BY <3>1, <3>2, <3>3
      <4> QED BY <3>3, <4>1, <4>2, Zenon
    <3>4. CASE i # j
      BY <3>2, <3>2a, <3>4
    <3> QED BY <3>3, <3>4
  <2> HIDE DEF G
  <2>5. Flat(G, j)
    BY <2>3, <2>4 DEF Flat
  <2> QED BY <2>5, <2>1a
<1>4. n \in T
  <2> HIDE DEF T
  <2> QED BY <1>1, <1>2, <1>3, NatInduct
<1>5. PICK F : Flat(F, n)
  BY <1>1, <1>4
<1>6. FlattenSeq(ss) = F[n]
  <2>1. CASE n = 0
    BY <1>5, <2>1 DEF FlattenSeq, Flat, n
  <2>2. CASE n # 0
    <3> DEFINE D(g) == [i \in 1 .. n |-> IF i = 1 THEN ss[i] ELSE g[i - 1] \o ss[i]]
               C == CHOOSE g : g = D(g)
               H == [i \in 1 .. n |-> F[i]]
    <3>1. FlattenSeq(ss) = C[n]
      BY <2>2 DEF FlattenSeq, n
    <3>2. H = D(H)
      <4>1. \A i \in 1 .. n : i = 1 => F[i] = ss[i]
        <5>1. ss[1] \in Seq(S) /\ F[1] = << >> \o ss[1]
          <6>1. 1 \in 1 .. n /\ 1 - 1 = 0
            BY <1>1, <2>2
          <6> QED BY <1>1, <1>5, <6>1 DEF Flat
        <5> QED BY <5>1, ConcatEmptySeq
      <4>2. \A i \in 1 .. n : i # 1 => F[i] = H[i - 1] \o ss[i]
        <5>1. \A i \in 1 .. n : i # 1 => i - 1 \in 1 .. n
          BY <1>1
        <5> QED BY <1>5, <5>1 DEF Flat
      <4> QED BY <4>1, <4>2
    <3> HIDE DEF H
    <3>3. C = D(C)
      <4>1. \E g : g = D(g)
        BY <3>2
      <4> HIDE DEF D
      <4> QED BY <4>1
    <3> HIDE DEF C
    <3>3a. \A i \in 1 .. n : C[i] = IF i = 1 THEN ss[i] ELSE C[i - 1] \o ss[i]
      <4> DEFINE d == D(C)
      <4>1. \A i \in 1 .. n : d[i] = IF i = 1 THEN ss[i] ELSE C[i - 1] \o ss[i]
        OBVIOUS
      <4> HIDE DEF d
      <4>2. C = d
        BY <3>3 DEF d
      <4> QED BY <4>1, <4>2
    <3> HIDE DEF D
    <3> DEFINE U == {k \in Nat : k \in 1 .. n => C[k] = F[k]}
    <3>4. 0 \in U
      OBVIOUS
    <3>5. ASSUME NEW k \in Nat, k \in U PROVE k + 1 \in U
      <4> SUFFICES ASSUME k + 1 \in 1 .. n PROVE C[k + 1] = F[k + 1]
        OBVIOUS
      <4>1. C[k + 1] = IF k + 1 = 1 THEN ss[k + 1] ELSE C[k + 1 - 1] \o ss[k + 1]
        <5> HIDE DEF U
        <5> QED BY <3>3a
      <4>2. CASE k = 0
        <5>1. ss[1] \in Seq(S) /\ F[1] = << >> \o ss[1]
          <6>1. 1 \in 1 .. n /\ 1 - 1 = 0
            BY <1>1, <2>2
          <6> QED BY <1>1, <1>5, <6>1 DEF Flat
        <5> QED BY <4>1, <4>2, <5>1, ConcatEmptySeq
      <4>3. CASE k # 0
        <5>1. k \in 1 .. n /\ k + 1 - 1 = k
          BY <1>1, <4>3
        <5>2. PICK j \in 1 .. n : j = k + 1 /\ j - 1 = k /\ j # 1
          BY <4>3, <5>1
        <5>3. F[j] = F[k] \o ss[j]
          BY <1>5, <5>2 DEF Flat
        <5>4. C[k] = F[k]
          BY <3>5, <5>1
        <5> HIDE DEF U
        <5>5. C[j] = C[j - 1] \o ss[j]
          BY <3>3a, <5>2
        <5> QED BY <5>2, <5>3, <5>4, <5>5
      <4> QED BY <4>2, <4>3
    <3>6. n \in U
      <4> HIDE DEF U
      <4> QED BY <1>1, <3>4, <3>5, NatInduct
    <3> QED BY <1>1, <2>2, <3>1, <3>6
  <2> QED BY <2>1, <2>2
<1> QED BY <1>5, <1>6 DEF Flat, n

(* What grows piece by piece has grown by the whole.                        *)
GrowsBy(text, c, F, x, y) ==
  /\ \A k \in x..y : c[k] \in 0..Len(text)
  /\ \A j, k \in x..y : j <= k => c[j] <= c[k]
  /\ \A k \in x..y : k # x => F[k] = F[k - 1] \o Piece(text, c[k - 1], c[k])

(* A text built line by line is the piece from its first line to its last.  *)
LEMMA PieceByPiece ==
  ASSUME NEW S, NEW text \in Seq(S), NEW x \in Nat, NEW y \in Nat, x <= y,
         NEW c, NEW F, F[x] \in Seq(S), GrowsBy(text, c, F, x, y)
  PROVE  F[y] = F[x] \o Piece(text, c[x], c[y]) /\ F[y] \in Seq(S)
<1> DEFINE P(k) == F[k] = F[x] \o Piece(text, c[x], c[k]) /\ F[k] \in Seq(S)
           T == {d \in Nat : x + d <= y => P(x + d)}
<1>0. x \in x..y
  OBVIOUS
<1>0a. /\ \A k \in x..y : c[k] \in 0..Len(text)
       /\ \A j, k \in x..y : j <= k => c[j] <= c[k]
       /\ \A k \in x..y : k # x => F[k] = F[k - 1] \o Piece(text, c[k - 1], c[k])
  BY DEF GrowsBy
<1>1. 0 \in T
  <2>1. c[x] \in Nat
    BY <1>0, <1>0a
  <2>2. Piece(text, c[x], c[x]) = << >>
    BY <2>1, PieceNone
  <2>3. F[x] \o << >> = F[x]
    OBVIOUS
  <2>4. P(x) /\ x + 0 = x
    BY <2>2, <2>3
  <2> HIDE DEF P
  <2> QED BY <2>4
<1>2. ASSUME NEW d \in Nat, d \in T PROVE d + 1 \in T
  <2> HIDE DEF P
  <2> SUFFICES ASSUME x + (d + 1) <= y PROVE P(x + (d + 1))
    OBVIOUS
  <2> USE DEF P
  <2>1. PICK k \in x..y : k = x + (d + 1)
    BY <1>2
  <2>1a. k - 1 = x + d /\ k # x /\ k - 1 \in x..y /\ x <= k - 1 /\ k - 1 <= k /\ x + d <= y
    BY <1>2, <2>1
  <2>2. P(k - 1)
    <3> HIDE DEF P
    <3>1. P(x + d)
      BY <1>2, <2>1a
    <3> QED BY <2>1a, <3>1
  <2> DEFINE a == c[x]
             b == c[k - 1]
             e == c[k]
             f == F[x]
  <2>3. a \in Nat /\ b \in Nat /\ e \in Nat /\ a <= b /\ b <= e /\ e <= Len(text) /\ b <= Len(text)
    BY <1>0, <1>0a, <2>1, <2>1a
  <2>4. F[k] = F[k - 1] \o Piece(text, b, e) /\ F[k - 1] = f \o Piece(text, a, b) /\ f \in Seq(S)
    BY <1>0a, <2>1, <2>1a, <2>2
  <2> HIDE DEF a, b, e, f
  <2>5. Piece(text, a, b) \in Seq(S) /\ Piece(text, b, e) \in Seq(S)
    BY <2>3, PieceIs
  <2>5a. f \in Seq(S)
    BY <2>4
  <2>6. (f \o Piece(text, a, b)) \o Piece(text, b, e) = f \o (Piece(text, a, b) \o Piece(text, b, e))
    <3>1. Joint(f, Piece(text, a, b), Piece(text, b, e))
      BY <2>5, <2>5a, Joined
    <3> QED BY <3>1 DEF Joint
  <2>7. Piece(text, a, b) \o Piece(text, b, e) = Piece(text, a, e)
    BY SMTT(60), <2>3, PiecesJoin
  <2>8. Piece(text, a, e) \in Seq(S)
    <3>1. a <= e
      BY <2>3
    <3> QED BY <2>3, <3>1, PieceIs
  <2>9. f \o Piece(text, a, e) \in Seq(S)
    BY <2>5a, <2>8, ConcatIs
  <2>10. P(k)
    BY <2>4, <2>6, <2>7, <2>9 DEF a, e, f
  <2> HIDE DEF P
  <2> QED BY <2>1, <2>10
<1> HIDE DEF T
<1>3. Nat \subseteq T
  BY <1>1, <1>2, NatInduct
<1>4. P(x + (y - x))
  <2> HIDE DEF P
  <2>1. y - x \in Nat /\ x + (y - x) <= y
    OBVIOUS
  <2> QED BY <1>3, <2>1 DEF T
<1>5. x + (y - x) = y
  OBVIOUS
<1> QED BY <1>4, <1>5

(***************************************************************************)
(* The hunk.                                                               *)
(***************************************************************************)

(* What both lists of rows are: c[s][k] lines of file s are in the first k. *)
Board(c, n) ==
  /\ n \in Nat /\ compared \in [Sides -> LineTexts]
  /\ \A s \in Sides :
       /\ Len(rows[s]) = n /\ DOMAIN rows[s] = 1..n
       /\ \A k \in 0..n : c[s][k] \in 0..Len(compared[s])
       /\ c[s][0] = 0 /\ c[s][n] = Len(compared[s])
       /\ \A j, k \in 0..n : j <= k => c[s][j] <= c[s][k]
       /\ \A k \in 1..n : IF rows[s][k].line = 0 THEN c[s][k] = c[s][k - 1]
                         ELSE rows[s][k].line = c[s][k] /\ c[s][k] = c[s][k - 1] + 1
       /\ \A k \in 0..n : \A i \in 1..c[s][k] : \E j \in 1..k : rows[s][j].line = i
  /\ \A k \in 1..n : PairTrue(compared, rows[1][k], rows[2][k])
  /\ \A k \in 1..n : rows[1][k].ch \in Kinds
  /\ \A k, j \in 1..n : j = k + 1 => Joins(rows[1][k], rows[1][j])

(* The rows shown number both files.                                        *)
LEMMA BoardIs == ASSUME DvInv, viewing PROVE \E c : Board(c, Len(rows[1]))
<1> DEFINE n == Len(rows[1])
<1>1. DvType /\ RowsShow(compared, rows)
  BY DEF DvInv, RowsInv
<1>2. /\ rows[1] \in Seq(RowSet) /\ rows[2] \in Seq(RowSet)
      /\ Len(compared[1]) \in Nat /\ Len(compared[2]) \in Nat
      /\ Abreast(compared, rows[1], rows[2])
      /\ ShowsLines(rows[1], Len(compared[1])) /\ ShowsLines(rows[2], Len(compared[2]))
  BY <1>1 DEF RowsShow, SideBySide
<1>3. n \in Nat /\ Len(rows[2]) = n
  BY <1>2 DEF Abreast
<1>4. ASSUME NEW s \in Sides
      PROVE  /\ rows[s] \in Seq(RowSet) /\ Len(rows[s]) = n
             /\ Len(compared[s]) \in Nat /\ ShowsLines(rows[s], Len(compared[s]))
  BY <1>2, <1>3 DEF Sides
<1> DEFINE c == [s \in Sides |-> CHOOSE f : CountsLines(f, rows[s], Len(compared[s]))]
<1>5. ASSUME NEW s \in Sides PROVE CountsLines(c[s], rows[s], Len(compared[s]))
  BY <1>4 DEF ShowsLines
<1> HIDE DEF c, n
<1>6. ASSUME NEW s \in Sides
      PROVE  /\ Len(rows[s]) = n /\ DOMAIN rows[s] = 1..n
             /\ \A k \in 0..n : c[s][k] \in 0..Len(compared[s])
             /\ c[s][0] = 0 /\ c[s][n] = Len(compared[s])
             /\ \A j, k \in 0..n : j <= k => c[s][j] <= c[s][k]
             /\ \A k \in 1..n : IF rows[s][k].line = 0 THEN c[s][k] = c[s][k - 1]
                               ELSE rows[s][k].line = c[s][k] /\ c[s][k] = c[s][k - 1] + 1
             /\ \A k \in 0..n : \A i \in 1..c[s][k] : \E j \in 1..k : rows[s][j].line = i
  <2>1. /\ rows[s] \in Seq(RowSet) /\ Len(rows[s]) = n /\ Len(compared[s]) \in Nat
        /\ CountsLines(c[s], rows[s], Len(compared[s]))
    BY <1>4, <1>5
  <2> DEFINE rs == rows[s]
             total == Len(compared[s])
             f == c[s]
  <2>2. rs \in Seq(RowSet) /\ Len(rs) = n /\ total \in Nat /\ CountsLines(f, rs, total)
    BY <2>1
  <2> HIDE DEF rs, total, f
  <2>3. Numbering(f, rs, total)
    BY <1>3, <2>2, CountsNumber
  <2>4. DOMAIN rs = 1..n
    BY <2>2
  <2>5. /\ f \in [0..n -> Nat] /\ f[0] = 0 /\ f[n] = total
        /\ \A k \in 1..n :
            IF rs[k].line = 0 THEN f[k] = f[k - 1] ELSE rs[k].line = f[k - 1] + 1 /\ f[k] = f[k - 1] + 1
    BY <2>2 DEF CountsLines
  <2>6. /\ \A j, k \in 0..n : j <= k => f[j] <= f[k]
        /\ \A k \in 0..n : \A i \in 1..f[k] : \E j \in 1..k : rs[j].line = i
    BY <2>2, <2>3 DEF Numbering
  <2>7. \A k \in 0..n : f[k] \in 0..total
    <3> TAKE k \in 0..n
    <3>1. n \in 0..n /\ k <= n
      BY <1>3
    <3>2. f[k] <= f[n] /\ f[k] \in Nat
      BY <2>5, <2>6, <3>1
    <3> QED BY <2>5, <2>2, <3>2
  <2> QED BY <2>2, <2>4, <2>5, <2>6, <2>7 DEF rs, total, f
<1>7. /\ \A k \in 1..n : PairTrue(compared, rows[1][k], rows[2][k])
      /\ \A k, j \in 1..n : j = k + 1 => Joins(rows[1][k], rows[1][j])
  BY <1>2, <1>3 DEF Abreast, n
<1>8. ASSUME NEW k \in 1..n PROVE rows[1][k].ch \in Kinds
  <2>1. rows[1][k] \in RowSet
    BY <1>2 DEF n
  <2> QED BY <2>1 DEF RowSet
<1>9. compared \in [Sides -> LineTexts] /\ n \in Nat
  BY <1>1, <1>3 DEF DvType
<1>10. Board(c, n)
  BY <1>6, <1>7, <1>8, <1>9 DEF Board
<1> QED BY <1>10 DEF n

(* Rows A to B, around the first row shown, are all the rows there that     *)
(* differ.                                                                  *)
HunkIs(n, A, B) ==
  /\ skip_rows \in Nat /\ A \in 1..skip_rows + 1 /\ B \in skip_rows + 1..n
  /\ \A k \in A..B : rows[1][k].ch # "EQU"
  /\ A = 1 \/ rows[1][A - 1].ch = "EQU"
  /\ B = n \/ rows[1][B + 1].ch = "EQU"

TopIs(c, A) ==
  /\ A \in 1..skip_rows + 1 /\ \A k \in A..skip_rows + 1 : rows[1][k].ch # "EQU"
  /\ A = 1 \/ rows[1][A - 1].ch = "EQU"
  /\ \A s \in Sides : HunkStart[s] = c[s][A - 1] + 1

(* Looking back from the row at the top, find_hunk finds where its hunk     *)
(* begins.                                                                  *)
LEMMA HunkTop ==
  ASSUME NEW c, NEW n, Board(c, n), skip_rows \in 0..n - 1, Differs(skip_rows), ~BehindFirst
  PROVE  \E A \in Nat : TopIs(c, A)
<1> DEFINE equal == {k \in 1..skip_rows : ~Differs(k)}
<1>1. n \in Nat /\ skip_rows \in Nat /\ skip_rows + 1 <= n
  BY DEF Board
<1>2. \A k \in Nat : Differs(k) <=> rows[1][k + 1].ch # "EQU"
  BY DEF Differs, Row
<1>3. CASE equal = {}
  <2>1. HunkStart = [s \in Sides |-> 1]
    BY <1>3 DEF HunkStart
  <2>2. \A s \in Sides : HunkStart[s] = c[s][1 - 1] + 1
    BY <2>1 DEF Board
  <2>3. \A j \in 1..skip_rows : Differs(j)
    BY <1>3
  <2>4. Row(1, 0).ch # "EQU"
    BY <2>3 DEF BehindFirst
  <2>5. ASSUME NEW k \in 1..skip_rows + 1 PROVE rows[1][k].ch # "EQU"
    <3>1. CASE k = 1
      BY <2>4, <3>1 DEF Row
    <3>2. CASE k # 1
      <4>1. PICK j \in 1..skip_rows : j = k - 1 /\ j + 1 = k
        BY <1>1, <3>2
      <4>2. Differs(j) /\ j \in Nat
        BY <2>3, <1>1
      <4> QED BY <1>2, <4>1, <4>2
    <3> QED BY <3>1, <3>2
  <2>6. TopIs(c, 1)
    BY <1>1, <2>2, <2>5 DEF TopIs
  <2> QED BY <2>6
<1>4. CASE equal # {}
  <2> DEFINE m == Max(equal)
  <2>1. m \in equal /\ \A y \in equal : y <= m
    <3>1. equal \in SUBSET (0..skip_rows)
      BY <1>1
    <3> HIDE DEF equal
    <3> QED BY <1>1, <1>4, <3>1, MaxIs
  <2>2. HunkStart = [s \in Sides |-> Row(s, m).line + 1]
    BY <1>4 DEF HunkStart
  <2> HIDE DEF m
  <2>3. m \in 1..skip_rows /\ ~Differs(m) /\ m # skip_rows
    BY <2>1
  <2>4. PICK A \in Nat : A = m + 2 /\ A - 1 = m + 1 /\ A \in 1..skip_rows + 1 /\ A - 1 \in 1..n /\ m \in Nat
    BY <1>1, <2>3
  <2>5. rows[1][A - 1].ch = "EQU"
    BY <1>2, <2>3, <2>4
  <2>6. ASSUME NEW k \in A..skip_rows + 1 PROVE rows[1][k].ch # "EQU"
    <3>1. PICK j \in 1..skip_rows : j = k - 1 /\ j + 1 = k /\ ~(j <= m) /\ j \in Nat
      BY <1>1, <2>3, <2>4
    <3>2. j \notin equal
      BY <2>1, <3>1
    <3>3. Differs(j)
      BY <3>2
    <3> QED BY <1>2, <3>1, <3>3
  <2>7. ASSUME NEW s \in Sides PROVE HunkStart[s] = c[s][A - 1] + 1
    <3>1. PairTrue(compared, rows[1][A - 1], rows[2][A - 1])
      BY <2>4 DEF Board
    <3>2. rows[s][A - 1].line # 0
      BY <2>5, <3>1 DEF PairTrue, Sides
    <3>3. rows[s][A - 1].line = c[s][A - 1]
      BY <2>4, <3>2 DEF Board
    <3>4. Row(s, m).line = rows[s][A - 1].line
      BY <2>4 DEF Row
    <3> QED BY <2>2, <3>3, <3>4
  <2>8. TopIs(c, A)
    BY <2>4, <2>5, <2>6, <2>7 DEF TopIs
  <2> QED BY <2>8
<1> QED BY <1>3, <1>4

BottomIs(c, n, B) ==
  /\ B \in skip_rows + 1..n /\ \A k \in skip_rows + 1..B : rows[1][k].ch # "EQU"
  /\ B = n \/ rows[1][B + 1].ch = "EQU"
  /\ \A s \in Sides : rows[s][skip_rows + 1].line # 0 => HunkEnd[s] = Greatest(HunkStart[s], c[s][B])

(* Looking ahead, it finds where it ends.                                   *)
LEMMA HunkBottom ==
  ASSUME NEW c, NEW n, Board(c, n), skip_rows \in 0..n - 1, Differs(skip_rows), LastRow = n - 1
  PROVE  \E B \in Nat : BottomIs(c, n, B)
<1> DEFINE run == {k \in skip_rows..LastRow : \A j \in skip_rows..k : Differs(j)}
           lines(s) == {Row(s, k).line : k \in run} \ {0}
           x == Max(run)
<1>1. n \in Nat /\ skip_rows \in Nat /\ skip_rows + 1 <= n /\ LastRow \in Nat
  BY DEF Board
<1>2. \A k \in Nat : Differs(k) <=> rows[1][k + 1].ch # "EQU"
  BY DEF Differs, Row
<1>3. HunkEnd = [s \in Sides |-> IF lines(s) = {} THEN 1 ELSE Greatest(HunkStart[s], Max(lines(s)))]
  BY DEF HunkEnd
<1>4. skip_rows \in run
  <2>1. \A j \in skip_rows..skip_rows : j = skip_rows
    BY <1>1
  <2>2. skip_rows \in skip_rows..LastRow
    BY <1>1
  <2> QED BY <2>1, <2>2
<1>5. x \in run /\ \A y \in run : y <= x
  <2>1. run \in SUBSET (0..LastRow)
    BY <1>1
  <2>2. run # {}
    BY <1>4
  <2> HIDE DEF run
  <2> QED BY <1>1, <2>1, <2>2, MaxIs
<1> HIDE DEF x
<1>6. x \in skip_rows..LastRow /\ \A j \in skip_rows..x : Differs(j)
  BY <1>5
<1>7. \A k : k \in run <=> k \in skip_rows..x
  <2> SUFFICES ASSUME NEW k \in skip_rows..x PROVE k \in run
    BY <1>1, <1>5
  <2>1. k \in skip_rows..LastRow /\ \A j \in skip_rows..k : j \in skip_rows..x
    BY <1>1, <1>6
  <2> QED BY <1>6, <2>1
<1>8. PICK B \in Nat : B = x + 1 /\ B - 1 = x /\ B \in skip_rows + 1..n /\ x \in Nat
  BY <1>1, <1>6
<1>9. ASSUME NEW k \in skip_rows + 1..B PROVE rows[1][k].ch # "EQU"
  <2>1. PICK j \in skip_rows..x : j = k - 1 /\ j + 1 = k /\ j \in Nat
    BY <1>1, <1>8
  <2> QED BY <1>2, <1>6, <2>1
<1>10. B = n \/ rows[1][B + 1].ch = "EQU"
  <2> SUFFICES ASSUME B # n, Differs(B) PROVE FALSE
    BY <1>2
  <2>1. B \in skip_rows..LastRow /\ ~(B <= x)
    BY <1>1, <1>8
  <2>2. \A j \in skip_rows..B : j = B \/ j \in skip_rows..x
    BY <1>1, <1>8
  <2>3. B \in run
    BY <1>6, <2>1, <2>2
  <2> QED BY <1>5, <2>1, <2>3
<1> HIDE DEF run
<1>11. ASSUME NEW s \in Sides, rows[s][skip_rows + 1].line # 0 PROVE HunkEnd[s] = Greatest(HunkStart[s], c[s][B])
  <2> DEFINE r == rows[s]
             f == c[s]
             L == Len(compared[s])
             ls == lines(s)
  <2>1. /\ \A k \in 0..n : f[k] \in 0..L
        /\ \A j, k \in 0..n : j <= k => f[j] <= f[k]
        /\ \A k \in 1..n : IF r[k].line = 0 THEN f[k] = f[k - 1] ELSE r[k].line = f[k] /\ f[k] = f[k - 1] + 1
        /\ \A k \in 0..n : \A i \in 1..f[k] : \E j \in 1..k : r[j].line = i
        /\ L \in Nat
    <3>1. compared[s] \in Seq(LineValues)
      BY DEF Board, LineTexts
    <3>2. L \in Nat
      BY <3>1
    <3> QED BY <3>2 DEF Board
  <2>2. \A v : v \in ls <=> v # 0 /\ \E k \in skip_rows + 1..B : r[k].line = v
    <3>1. ASSUME NEW v, v \in ls PROVE v # 0 /\ \E k \in skip_rows + 1..B : r[k].line = v
      <4>1. PICK k \in run : v = Row(s, k).line /\ v # 0
        BY <3>1
      <4>2. k \in skip_rows..x
        BY <1>7
      <4>3. k + 1 \in skip_rows + 1..B
        BY <1>1, <1>8, <4>2
      <4> QED BY <4>1, <4>3 DEF Row
    <3>2. ASSUME NEW v, v # 0, NEW k \in skip_rows + 1..B, r[k].line = v PROVE v \in ls
      <4>1. PICK j \in skip_rows..x : j = k - 1 /\ j + 1 = k
        BY <1>1, <1>8
      <4>2. j \in run /\ Row(s, j).line = v
        BY <1>7, <3>2, <4>1 DEF Row
      <4> QED BY <3>2, <4>2
    <3> HIDE DEF ls, r
    <3> QED BY <3>1, <3>2
  <2>3. HunkEnd[s] = IF ls = {} THEN 1 ELSE Greatest(HunkStart[s], Max(ls))
    BY <1>3
  <2>4. r[skip_rows + 1].line # 0
    BY <1>11
  <2> HIDE DEF r, f, L, ls
  <2>5. PICK k \in 1..n : k = skip_rows + 1 /\ k - 1 = skip_rows /\ k \in skip_rows + 1..B /\ k - 1 \in 0..n /\ k \in 0..n /\ k <= B /\ B \in 0..n
    BY <1>1, <1>8
  <2>6. f[k] = f[k - 1] + 1 /\ f[k] <= f[B] /\ f[B] \in 0..L /\ f[k - 1] \in 0..L /\ f[k] \in 0..L
    BY <2>1, <2>4, <2>5
  <2>7. f[B] \in 1..f[B] /\ f[B] # 0 /\ f[k - 1] < f[B]
    BY <2>1, <2>6
  <2>8. PICK j \in 1..B : r[j].line = f[B]
    BY <2>1, <2>5, <2>7
  <2>9. j \in 1..n /\ j \in 0..n /\ f[j] = f[B] /\ j \in Nat
    <3>1. j \in 1..n /\ j \in 0..n /\ j \in Nat
      BY <1>1, <1>8, <2>5
    <3>2. r[j].line # 0
      BY <2>7, <2>8
    <3>3. r[j].line = f[j]
      BY <2>1, <3>1, <3>2
    <3> QED BY <2>8, <3>1, <3>3
  <2>10. j \in skip_rows + 1..B
    <3>1. SUFFICES ASSUME j <= k - 1 PROVE FALSE
      BY <1>1, <1>8, <2>5
    <3>2. f[j] <= f[k - 1]
      BY <2>1, <2>5, <2>9, <3>1
    <3> QED BY <2>1, <2>6, <2>7, <2>9, <3>2
  <2>11. f[B] \in ls
    BY <2>2, <2>7, <2>8, <2>10
  <2>12. \A v \in ls : v \in 0..L /\ v <= f[B]
    <3> TAKE v \in ls
    <3>1. PICK i \in skip_rows + 1..B : v # 0 /\ r[i].line = v
      BY <2>2
    <3>2. i \in 1..n /\ i \in 0..n /\ i <= B
      BY <1>1, <1>8, <2>5
    <3>3. v = f[i] /\ f[i] <= f[B] /\ f[i] \in 0..L
      BY <2>1, <2>5, <3>1, <3>2
    <3> QED BY <3>3
  <2>13. ls \in SUBSET (0..L) /\ ls # {}
    BY <2>11, <2>12
  <2>14. Max(ls) \in ls /\ \A y \in ls : y <= Max(ls)
    BY <2>1, <2>13, MaxIs
  <2>15. Max(ls) \in 0..L /\ Max(ls) <= f[B] /\ f[B] <= Max(ls)
    BY <2>11, <2>12, <2>14
  <2>16. Max(ls) = f[B]
    BY <2>1, <2>6, <2>15
  <2> QED BY <2>3, <2>13, <2>16 DEF f
<1>12. BottomIs(c, n, B)
  BY <1>8, <1>9, <1>10, <1>11 DEF BottomIs
<1> QED BY <1>12

FoundAt(c, A, B) ==
  \A s \in Sides :
    /\ HunkStart[s] = c[s][A - 1] + 1
    /\ rows[s][skip_rows + 1].line # 0 => HunkEnd[s] = c[s][B] /\ c[s][A - 1] < c[s][B]

(* The rows between are the hunk, and its line numbers are those of its     *)
(* first and last rows.                                                     *)
LEMMA HunkBothEnds ==
  ASSUME NEW c, NEW n, Board(c, n), NEW A \in Nat, NEW B \in Nat, TopIs(c, A), BottomIs(c, n, B),
         skip_rows \in 0..n - 1
  PROVE  HunkIs(n, A, B) /\ FoundAt(c, A, B)
<1>1. /\ n \in Nat /\ skip_rows \in Nat /\ A \in 1..skip_rows + 1 /\ B \in skip_rows + 1..n
      /\ \A s \in Sides : HunkStart[s] = c[s][A - 1] + 1
  BY DEF Board, TopIs, BottomIs
<1>2. HunkIs(n, A, B)
  <2>1. ASSUME NEW k \in A..B PROVE rows[1][k].ch # "EQU"
    <3>1. k \in A..skip_rows + 1 \/ k \in skip_rows + 1..B
      BY <1>1
    <3> QED BY <3>1 DEF TopIs, BottomIs
  <2> QED BY <1>1, <2>1 DEF TopIs, BottomIs, HunkIs
<1>3. ASSUME NEW s \in Sides, rows[s][skip_rows + 1].line # 0
      PROVE HunkEnd[s] = c[s][B] /\ c[s][A - 1] < c[s][B]
  <2> DEFINE f == c[s]
             L == Len(compared[s])
  <2>1. PICK k \in 1..n : k = skip_rows + 1 /\ k - 1 \in 0..n /\ k \in 0..n /\ k <= B /\ B \in 0..n /\ A - 1 \in 0..n /\ A - 1 <= k - 1
    BY <1>1
  <2>2. /\ \A i \in 0..n : f[i] \in 0..L
        /\ \A i, j \in 0..n : i <= j => f[i] <= f[j]
        /\ f[k] = f[k - 1] + 1
    BY <1>3, <2>1 DEF Board
  <2>3. HunkEnd[s] = Greatest(HunkStart[s], f[B]) /\ HunkStart[s] = f[A - 1] + 1
    BY <1>1, <1>3 DEF BottomIs
  <2> HIDE DEF f, L
  <2>4. f[A - 1] <= f[k - 1] /\ f[k] <= f[B] /\ f[A - 1] \in 0..L /\ f[k - 1] \in 0..L /\ f[k] \in 0..L /\ f[B] \in 0..L
    BY <2>1, <2>2
  <2>5. f[A - 1] + 1 <= f[B]
    BY <2>2, <2>4
  <2>6. Greatest(f[A - 1] + 1, f[B]) = f[B]
    BY <2>4, <2>5 DEF Greatest
  <2>7. HunkEnd[s] = f[B] /\ f[A - 1] < f[B]
    BY <2>3, <2>4, <2>5, <2>6
  <2> QED BY <2>7 DEF f
<1> QED BY <1>1, <1>2, <1>3 DEF FoundAt

(* The rows of a hunk are of one kind.                                      *)
LEMMA HunkKind ==
  ASSUME NEW c, NEW n, Board(c, n), NEW A, NEW B, HunkIs(n, A, B)
  PROVE  \A k \in A..B : rows[1][k].ch = rows[1][skip_rows + 1].ch
<1>1. /\ n \in Nat /\ skip_rows \in Nat /\ A \in 1..skip_rows + 1 /\ B \in skip_rows + 1..n
      /\ \A k \in A..B : rows[1][k].ch # "EQU"
  BY DEF Board, HunkIs
<1>2. \A k, j \in 1..n : j = k + 1 => Joins(rows[1][k], rows[1][j])
  BY DEF Board
<1> DEFINE T == {d \in Nat : A + d <= B => rows[1][A + d].ch = rows[1][A].ch}
<1>3. 0 \in T
  <2>1. A + 0 = A
    BY <1>1
  <2> QED BY <2>1
<1>4. ASSUME NEW d \in Nat, d \in T PROVE d + 1 \in T
  <2> SUFFICES ASSUME A + (d + 1) <= B PROVE rows[1][A + (d + 1)].ch = rows[1][A].ch
    OBVIOUS
  <2>1. PICK k \in 1..n : k = A + d /\ k \in A..B
    BY <1>1
  <2>2. PICK j \in 1..n : j = A + (d + 1) /\ j \in A..B /\ j = k + 1
    BY <1>1, <2>1
  <2>3. Joins(rows[1][k], rows[1][j]) /\ rows[1][k].ch # "EQU" /\ rows[1][j].ch # "EQU"
    BY <1>1, <1>2, <2>1, <2>2
  <2>4. rows[1][k].ch = rows[1][A].ch
    BY <1>1, <1>4, <2>1, <2>2
  <2>5. rows[1][j].ch = rows[1][A].ch
    BY <2>3, <2>4 DEF Joins
  <2> QED BY <2>2, <2>5
<1> HIDE DEF T
<1>5. Nat \subseteq T
  BY <1>3, <1>4, NatInduct
<1>6. ASSUME NEW k \in A..B PROVE rows[1][k].ch = rows[1][A].ch
  <2>1. k - A \in Nat /\ A + (k - A) = k /\ A + (k - A) <= B
    BY <1>1
  <2> QED BY <1>5, <2>1 DEF T
<1>7. skip_rows + 1 \in A..B
  BY <1>1
<1> QED BY <1>6, <1>7

(* Where one side has no line in the rows from A to B, none is counted.     *)
LEMMA NoLines ==
  ASSUME NEW c, NEW n, Board(c, n), NEW s \in Sides, NEW A \in Nat, NEW B \in Nat,
         1 <= A, A <= B, B <= n, \A k \in A..B : rows[s][k].line = 0
  PROVE  c[s][B] = c[s][A - 1]
<1> DEFINE f == c[s]
           T == {d \in Nat : (A - 1) + d <= B => f[(A - 1) + d] = f[A - 1]}
<1>1. n \in Nat /\ \A k \in A..B : f[k] = f[k - 1]
  BY DEF Board
<1> HIDE DEF f
<1>2. 0 \in T
  <2>1. (A - 1) + 0 = A - 1
    OBVIOUS
  <2> QED BY <2>1
<1>3. ASSUME NEW d \in Nat, d \in T PROVE d + 1 \in T
  <2> SUFFICES ASSUME (A - 1) + (d + 1) <= B PROVE f[(A - 1) + (d + 1)] = f[A - 1]
    OBVIOUS
  <2>1. PICK k \in A..B : k = (A - 1) + (d + 1) /\ k - 1 = (A - 1) + d /\ (A - 1) + d <= B
    OBVIOUS
  <2>2. f[k] = f[k - 1] /\ f[k - 1] = f[A - 1]
    BY <1>1, <1>3, <2>1
  <2> QED BY <2>1, <2>2
<1> HIDE DEF T
<1>4. Nat \subseteq T
  BY <1>2, <1>3, NatInduct
<1>5. B - (A - 1) \in Nat /\ (A - 1) + (B - (A - 1)) = B
  OBVIOUS
<1>6. \A d \in T : (A - 1) + d <= B => f[(A - 1) + d] = f[A - 1]
  BY DEF T
<1>7. f[(A - 1) + (B - (A - 1))] = f[A - 1]
  <2> DEFINE D == B - (A - 1)
  <2>1. D \in Nat /\ (A - 1) + D = B
    BY <1>5
  <2> HIDE DEF D
  <2>2. D \in T /\ (A - 1) + D <= B
    BY <1>4, <2>1
  <2>3. f[(A - 1) + D] = f[A - 1]
    BY <1>6, <2>2
  <2> QED BY <2>3 DEF D
<1>8. f[B] = f[A - 1]
  BY <1>5, <1>7
<1> QED BY <1>8 DEF f

(* The lines in front of the hunk, up to its end, and up to the end of the  *)
(* row behind it, if there is one.                                          *)
Behind(c, n, B, s) == IF B = n THEN c[s][B] ELSE c[s][B] + 1

CutsAre(c, n, A, B, s) ==
  /\ compared[s] \in Seq(LineValues) /\ Len(compared[s]) \in Nat
  /\ c[s][A - 1] \in Nat /\ c[s][B] \in Nat /\ Behind(c, n, B, s) \in Nat
  /\ c[s][A - 1] <= c[s][B] /\ c[s][B] <= Behind(c, n, B, s) /\ Behind(c, n, B, s) <= Len(compared[s])
  /\ Behind(c, n, B, s) = c[s][B] + 1 \/ (Behind(c, n, B, s) = c[s][B] /\ c[s][B] = Len(compared[s]))

(* Where the hunk cuts each file.                                           *)
LEMMA CutsOf ==
  ASSUME NEW c, NEW n, Board(c, n), NEW A, NEW B, HunkIs(n, A, B)
  PROVE  /\ \A s \in Sides : CutsAre(c, n, A, B, s)
         /\ \A s, t \in Sides : Piece(compared[s], c[s][B], Behind(c, n, B, s))
                                = Piece(compared[t], c[t][B], Behind(c, n, B, t))
<1>1. /\ n \in Nat /\ skip_rows \in Nat /\ A \in 1..skip_rows + 1 /\ B \in skip_rows + 1..n
      /\ B = n \/ rows[1][B + 1].ch = "EQU"
  BY DEF Board, HunkIs
<1>2. A - 1 \in 0..n /\ B \in 0..n /\ A - 1 <= B /\ n \in 0..n
  BY <1>1
<1>3. ASSUME NEW s \in Sides
      PROVE  /\ compared[s] \in Seq(LineValues) /\ Len(compared[s]) \in Nat
             /\ \A k \in 0..n : c[s][k] \in 0..Len(compared[s])
             /\ c[s][n] = Len(compared[s]) /\ \A j, k \in 0..n : j <= k => c[s][j] <= c[s][k]
  <2>1. compared[s] \in Seq(LineValues)
    BY DEF Board, LineTexts
  <2>2. Len(compared[s]) \in Nat
    BY <2>1
  <2> QED BY <2>1, <2>2 DEF Board
<1>4. CASE B = n
  <2>1. ASSUME NEW s \in Sides PROVE CutsAre(c, n, A, B, s) /\ Behind(c, n, B, s) = c[s][B] /\ c[s][B] \in Nat
    <3>1. Behind(c, n, B, s) = c[s][B] /\ c[s][B] = Len(compared[s])
      BY <1>3, <1>4 DEF Behind
    <3>2. c[s][A - 1] <= c[s][B] /\ c[s][A - 1] \in Nat /\ c[s][B] \in Nat
      BY <1>2, <1>3
    <3> QED BY <1>3, <3>1, <3>2 DEF CutsAre
  <2>2. ASSUME NEW s \in Sides PROVE Piece(compared[s], c[s][B], Behind(c, n, B, s)) = << >>
    BY <2>1, PieceNone
  <2> QED BY <2>1, <2>2
<1>5. CASE B # n
  <2>1. PICK k \in 1..n : k = B + 1 /\ k - 1 = B /\ k \in 0..n
    BY <1>1, <1>5
  <2>2. rows[1][k].ch = "EQU" /\ PairTrue(compared, rows[1][k], rows[2][k])
    BY <1>1, <1>5, <2>1 DEF Board
  <2>3. /\ rows[1][k].line # 0 /\ rows[2][k].line # 0
        /\ compared[1][rows[1][k].line] = compared[2][rows[2][k].line]
    BY <2>2 DEF PairTrue
  <2>4. ASSUME NEW s \in Sides
        PROVE  /\ CutsAre(c, n, A, B, s) /\ Behind(c, n, B, s) = c[s][B] + 1
               /\ rows[s][k].line = c[s][B] + 1
    <3>1. rows[s][k].line # 0
      BY <2>3 DEF Sides
    <3>2. rows[s][k].line = c[s][k] /\ c[s][k] = c[s][B] + 1
      BY <2>1, <3>1 DEF Board
    <3>3. c[s][A - 1] <= c[s][B] /\ c[s][A - 1] \in Nat /\ c[s][B] \in Nat /\ c[s][k] <= Len(compared[s])
      BY <1>2, <1>3, <2>1
    <3>4. Behind(c, n, B, s) = c[s][B] + 1
      BY <1>5 DEF Behind
    <3> QED BY <1>3, <3>2, <3>3, <3>4 DEF CutsAre
  <2>5. ASSUME NEW s \in Sides
        PROVE Piece(compared[s], c[s][B], Behind(c, n, B, s)) = <<compared[s][rows[s][k].line]>>
    <3>1. c[s][B] < Len(compared[s]) /\ c[s][B] \in Nat /\ compared[s] \in Seq(LineValues)
      BY <2>4 DEF CutsAre
    <3>2. Piece(compared[s], c[s][B], c[s][B] + 1) = <<compared[s][c[s][B] + 1]>>
      BY <3>1, PieceOne
    <3> QED BY <2>4, <3>2
  <2>6. \A s \in Sides : compared[s][rows[s][k].line] = compared[1][rows[1][k].line]
    BY <2>3 DEF Sides
  <2> QED BY <2>4, <2>5, <2>6
<1> QED BY <1>4, <1>5

(* File t with the lines of the other one in place of its own.              *)
Swapped(c, A, B, t) ==
  (Piece(compared[t], 0, c[t][A - 1]) \o Piece(compared[Opposite(t)], c[Opposite(t)][A - 1], c[Opposite(t)][B]))
    \o Piece(compared[t], c[t][B], Len(compared[t]))

Regroups(p, q, r, z) == (p \o (q \o r)) \o z = (p \o q) \o (r \o z)

(* Four pieces joined one way or another.                                   *)
LEMMA Regroup ==
  \A S, p, q, r, z : p \in Seq(S) /\ q \in Seq(S) /\ r \in Seq(S) /\ z \in Seq(S) => Regroups(p, q, r, z)
<1>1. ASSUME NEW S, NEW p, NEW q, NEW r, NEW z,
             p \in Seq(S) /\ q \in Seq(S) /\ r \in Seq(S) /\ z \in Seq(S)
      PROVE  Regroups(p, q, r, z)
  <2> DEFINE u == p \o q
  <2>1. u \in Seq(S)
    BY <1>1
  <2> HIDE DEF u
  <2>2. Joint(p, q, r)
    BY <1>1, Joined
  <2>3. Joint(u, r, z)
    BY <1>1, <2>1, Joined
  <2> QED BY <2>2, <2>3 DEF u, Joint, Regroups
<1> QED BY <1>1

(* Up to the end of the row behind the hunk it makes no difference.         *)
WithNext(c, n, A, B, t, o) ==
  (Piece(compared[t], 0, c[t][A - 1]) \o Piece(compared[o], c[o][A - 1], Behind(c, n, B, o)))
    \o Piece(compared[t], Behind(c, n, B, t), Len(compared[t]))

(* With the line behind the hunk taken from the other file or its own, the  *)
(* text is the same.                                                        *)
LEMMA Regrouped ==
  ASSUME NEW c, NEW n, Board(c, n), NEW A, NEW B, HunkIs(n, A, B), NEW t \in Sides, NEW o \in Sides,
         o = Opposite(t)
  PROVE  WithNext(c, n, A, B, t, o) = Swapped(c, A, B, t)
<1> DEFINE x == compared[t]
           y == compared[o]
           at == c[t][A - 1]
           bt == c[t][B]
           et == Behind(c, n, B, t)
           ao == c[o][A - 1]
           bo == c[o][B]
           eo == Behind(c, n, B, o)
           L == Len(x)
           p == Piece(x, 0, at)
           q == Piece(y, ao, bo)
           r == Piece(y, bo, eo)
           z == Piece(x, et, L)
<1>1. CutsAre(c, n, A, B, t) /\ CutsAre(c, n, A, B, o) /\ r = Piece(x, bt, et)
  BY CutsOf
<1>2. /\ x \in Seq(LineValues) /\ y \in Seq(LineValues) /\ L \in Nat /\ Len(y) \in Nat
      /\ at \in Nat /\ bt \in Nat /\ et \in Nat /\ ao \in Nat /\ bo \in Nat /\ eo \in Nat
      /\ at <= bt /\ bt <= et /\ et <= L /\ ao <= bo /\ bo <= eo /\ eo <= Len(y)
      /\ 0 \in Nat /\ 0 <= at /\ at <= L /\ bo <= Len(y) /\ L <= Len(x)
  BY SMTT(60), <1>1 DEF CutsAre
<1>3. Swapped(c, A, B, t) = (p \o q) \o Piece(x, bt, L)
  BY DEF Swapped
<1> SUFFICES (p \o Piece(y, ao, eo)) \o z = (p \o q) \o Piece(x, bt, L)
  BY ZenonT(60), <1>3 DEF WithNext
<1> HIDE DEF x, y, at, bt, et, ao, bo, eo, L
<1>4. q \o r = Piece(y, ao, eo)
  <2>1. y \in Seq(LineValues) /\ ao \in Nat /\ bo \in Nat /\ eo \in Nat /\ ao <= bo /\ bo <= eo /\ eo <= Len(y)
    BY <1>2
  <2> QED BY <2>1, PiecesJoin
<1>5. Piece(x, bt, et) \o z = Piece(x, bt, L)
  <2>1. x \in Seq(LineValues) /\ bt \in Nat /\ et \in Nat /\ L \in Nat /\ bt <= et /\ et <= L /\ L <= Len(x)
    BY <1>2
  <2> QED BY <2>1, PiecesJoin
<1>6. p \in Seq(LineValues)
  BY <1>2, PieceIs
<1>6a. q \in Seq(LineValues)
  BY <1>2, PieceIs
<1>7. r \in Seq(LineValues)
  BY <1>2, PieceIs
<1>8. z \in Seq(LineValues)
  BY <1>2, PieceIs
<1>9. r \o z = Piece(x, bt, L)
  BY <1>1, <1>5
<1> HIDE DEF p, q, r, z
<1>9a. p \in Seq(LineValues) /\ q \in Seq(LineValues) /\ r \in Seq(LineValues) /\ z \in Seq(LineValues)
  BY <1>6, <1>6a, <1>7, <1>8
<1>10. Regroups(p, q, r, z)
  BY <1>9a, Regroup
<1> QED BY <1>4, <1>9, <1>10 DEF Regroups

(***************************************************************************)
(* What is written for a hunk.                                             *)
(***************************************************************************)

(* The lines in front of it.                                                *)
LEMMA FrontIs ==
  ASSUME NEW c, NEW n, NEW A, NEW B, NEW t, CutsAre(c, n, A, B, t), HunkStart[t] = c[t][A - 1] + 1
  PROVE  Written(compared[t], 1..HunkStart[t] - 1) = Piece(compared[t], 0, c[t][A - 1])
<1> DEFINE x == compared[t]
           a == c[t][A - 1]
           places == 1..HunkStart[t] - 1
<1>1. x \in Seq(LineValues) /\ 0 \in Nat /\ a \in Nat /\ 0 <= a /\ a <= Len(x) /\ HunkStart[t] - 1 = a
  BY DEF CutsAre
<1>2. \A k \in 1..Len(x) : k \in places <=> 0 < k /\ k <= a
  BY <1>1
<1> HIDE DEF x, a, places
<1>3. Written(x, places) = Piece(x, 0, a)
  BY <1>1, <1>2, WrittenPiece
<1> QED BY <1>3 DEF x, a, places

(* The lines of the other file, and one more if there is one.               *)
LEMMA MiddleIs ==
  ASSUME NEW c, NEW n, NEW A, NEW B, NEW s, CutsAre(c, n, A, B, s), HunkStart[s] = c[s][A - 1] + 1,
         HunkEnd[s] = c[s][B]
  PROVE  HunkAndNext(s) = Piece(compared[s], c[s][A - 1], Behind(c, n, B, s))
<1> DEFINE x == compared[s]
           a == c[s][A - 1]
           b == c[s][B]
           e == Behind(c, n, B, s)
           places == HunkStart[s]..HunkEnd[s] + 1
<1>1. /\ x \in Seq(LineValues) /\ a \in Nat /\ b \in Nat /\ e \in Nat /\ a <= b /\ b <= e /\ e <= Len(x)
      /\ e = b + 1 \/ (e = b /\ b = Len(x))
      /\ HunkStart[s] = a + 1 /\ HunkEnd[s] = b /\ Len(x) \in Nat
  BY DEF CutsAre
<1>2. HunkAndNext(s) = Written(x, places) /\ places = (a + 1)..(b + 1)
  BY DEF HunkAndNext
<1> HIDE DEF x, a, b, e, places
<1>3. a <= e
  BY <1>1
<1>4. \A k \in 1..Len(x) : k \in places <=> a < k /\ k <= e
  BY <1>1, <1>2
<1>5. Written(x, places) = Piece(x, a, e)
  BY <1>1, <1>3, <1>4, WrittenPiece
<1> QED BY <1>2, <1>5 DEF x, a, e

(* The lines behind it, but for the one behind it, if any line of its own   *)
(* goes, and if none does.                                                  *)
RestPlaces(c, A, B, t, places) ==
  \/ c[t][A - 1] < c[t][B] /\ places = {k \in HunkStart[t] + 1..Len(compared[t]) : k - 1 > c[t][B]}
  \/ c[t][A - 1] = c[t][B] /\ places = HunkStart[t] + 1..Len(compared[t])

(* What is copied behind the hunk is the rest of the file.                  *)
LEMMA RestIs ==
  ASSUME NEW c, NEW n, NEW A, NEW B, NEW t, CutsAre(c, n, A, B, t), HunkStart[t] = c[t][A - 1] + 1,
         NEW places, RestPlaces(c, A, B, t, places)
  PROVE  Written(compared[t], places) = Piece(compared[t], Behind(c, n, B, t), Len(compared[t]))
<1> DEFINE x == compared[t]
           a == c[t][A - 1]
           b == c[t][B]
           e == Behind(c, n, B, t)
           L == Len(x)
<1>1. /\ x \in Seq(LineValues) /\ a \in Nat /\ b \in Nat /\ e \in Nat /\ a <= b /\ b <= e /\ e <= L
      /\ e = b + 1 \/ (e = b /\ b = L)
      /\ HunkStart[t] = a + 1 /\ L \in Nat
  BY DEF CutsAre
<1>2. \/ a < b /\ places = {k \in (a + 1) + 1..L : k - 1 > b}
      \/ a = b /\ places = (a + 1) + 1..L
  BY DEF RestPlaces
<1>3. L <= Len(x)
  BY <1>1
<1> HIDE DEF a, b, e, L
<1>4. \A k \in 1..L : k \in places <=> e < k /\ k <= L
  <2>1. CASE e = b + 1
    BY <1>1, <1>2, <2>1
  <2>2. CASE e = b /\ b = L
    BY <1>1, <1>2, <2>2
  <2> QED BY <1>1, <2>1, <2>2
<1> HIDE DEF x
<1>5. Written(x, places) = Piece(x, e, L)
  BY <1>1, <1>3, <1>4, WrittenPiece DEF L
<1> QED BY <1>5 DEF x, e, L

(* dview_remove_hunk writes the file without the hunk.                      *)
LEMMA HunkRemoved ==
  ASSUME NEW c, NEW n, NEW A, NEW B, NEW t \in Sides, NEW o, o = Opposite(t),
         CutsAre(c, n, A, B, t), CutsAre(c, n, A, B, o), HunkStart[t] = c[t][A - 1] + 1,
         HunkEnd[t] = c[t][B], c[t][A - 1] < c[t][B], c[o][B] = c[o][A - 1]
  PROVE  dview_remove_hunk(t) = Swapped(c, A, B, t)
<1> DEFINE x == compared[t]
           a == c[t][A - 1]
           b == c[t][B]
           places == {k \in DOMAIN x : KeepsLine(k, HunkStart[t], HunkEnd[t])}
           p == Piece(x, 0, a)
           z == Piece(x, b, Len(x))
<1>1. /\ x \in Seq(LineValues) /\ a \in Nat /\ b \in Nat /\ a < b /\ a <= b /\ b <= Len(x) /\ a <= Len(x)
      /\ HunkStart[t] = a + 1 /\ HunkEnd[t] = b /\ 0 \in Nat /\ 0 <= a /\ Len(x) \in Nat
  BY DEF CutsAre
<1>2. dview_remove_hunk(t) = Written(x, places)
  BY DEF dview_remove_hunk
<1>3. Piece(compared[o], c[o][A - 1], c[o][B]) = << >>
  <2>1. c[o][A - 1] \in Nat
    BY DEF CutsAre
  <2> QED BY <2>1, PieceNone
<1>4. Swapped(c, A, B, t) = (p \o << >>) \o z
  BY <1>3 DEF Swapped
<1>5. DOMAIN x = 1..Len(x) /\ \A k \in 1..Len(x) : k \in places <=> k <= a \/ b < k
  <2>1. DOMAIN x = 1..Len(x)
    BY <1>1
  <2> HIDE DEF x, a, b
  <2> QED BY <1>1, <2>1 DEF KeepsLine, Counted
<1> HIDE DEF x, a, b, places
<1>6. Written(x, places) = p \o z
  BY <1>1, <1>5, WrittenTwo
<1>7. p \in Seq(LineValues)
  BY <1>1, PieceIs
<1> HIDE DEF p, z
<1>8. p \o << >> = p
  BY <1>7
<1> QED BY <1>2, <1>4, <1>6, <1>8

(* dview_add_hunk writes the file with the other's lines put in.            *)
LEMMA HunkAdded ==
  ASSUME NEW c, NEW n, Board(c, n), NEW A, NEW B, HunkIs(n, A, B), NEW t \in Sides, NEW o \in Sides,
         o = Opposite(t), \A s \in Sides : HunkStart[s] = c[s][A - 1] + 1,
         HunkEnd[o] = c[o][B], c[t][A - 1] = c[t][B]
  PROVE  dview_add_hunk(t) = Swapped(c, A, B, t)
<1>1. CutsAre(c, n, A, B, t) /\ CutsAre(c, n, A, B, o)
  BY CutsOf
<1>2. Written(compared[t], 1..HunkStart[t] - 1) = Piece(compared[t], 0, c[t][A - 1])
  BY <1>1, FrontIs
<1>3. HunkAndNext(o) = Piece(compared[o], c[o][A - 1], Behind(c, n, B, o))
  BY <1>1, MiddleIs
<1>4. Written(compared[t], HunkStart[t] + 1..Len(compared[t])) = Piece(compared[t], Behind(c, n, B, t), Len(compared[t]))
  <2>1. HunkStart[t] = c[t][A - 1] + 1 /\ RestPlaces(c, A, B, t, HunkStart[t] + 1..Len(compared[t]))
    BY DEF RestPlaces
  <2> QED BY <1>1, <2>1, RestIs
<1>5. WithNext(c, n, A, B, t, o) = Swapped(c, A, B, t)
  BY Regrouped
<1>6. dview_add_hunk(t) = (Written(compared[t], 1..HunkStart[t] - 1) \o HunkAndNext(o))
                            \o Written(compared[t], HunkStart[t] + 1..Len(compared[t]))
  BY DEF dview_add_hunk
<1> QED BY <1>2, <1>3, <1>4, <1>5, <1>6 DEF WithNext

(* dview_replace_hunk writes the file with the other's lines for its own.   *)
LEMMA HunkReplaced ==
  ASSUME NEW c, NEW n, Board(c, n), NEW A, NEW B, HunkIs(n, A, B), NEW t \in Sides, NEW o \in Sides,
         o = Opposite(t), \A s \in Sides : HunkStart[s] = c[s][A - 1] + 1,
         HunkEnd[o] = c[o][B], HunkEnd[t] = c[t][B], c[t][A - 1] < c[t][B]
  PROVE  dview_replace_hunk(t) = Swapped(c, A, B, t)
<1>1. CutsAre(c, n, A, B, t) /\ CutsAre(c, n, A, B, o)
  BY CutsOf
<1>2. Written(compared[t], 1..HunkStart[t] - 1) = Piece(compared[t], 0, c[t][A - 1])
  BY <1>1, FrontIs
<1>3. HunkAndNext(o) = Piece(compared[o], c[o][A - 1], Behind(c, n, B, o))
  BY <1>1, MiddleIs
<1>4. Written(compared[t], {k \in HunkStart[t] + 1..Len(compared[t]) : Counted(k) > HunkEnd[t]})
        = Piece(compared[t], Behind(c, n, B, t), Len(compared[t]))
  <2> DEFINE places == {k \in HunkStart[t] + 1..Len(compared[t]) : Counted(k) > HunkEnd[t]}
  <2>1. places = {k \in HunkStart[t] + 1..Len(compared[t]) : k - 1 > c[t][B]}
    BY DEF Counted
  <2> HIDE DEF places
  <2>2. Written(compared[t], places) = Piece(compared[t], Behind(c, n, B, t), Len(compared[t]))
    <3>1. HunkStart[t] = c[t][A - 1] + 1 /\ RestPlaces(c, A, B, t, places)
      BY <2>1 DEF RestPlaces
    <3> QED BY <1>1, <3>1, RestIs
  <2> QED BY <2>2 DEF places
<1>5. WithNext(c, n, A, B, t, o) = Swapped(c, A, B, t)
  BY Regrouped
<1>6. dview_replace_hunk(t) =
        (Written(compared[t], 1..HunkStart[t] - 1) \o HunkAndNext(o))
          \o Written(compared[t], {k \in HunkStart[t] + 1..Len(compared[t]) : Counted(k) > HunkEnd[t]})
  BY DEF dview_replace_hunk
<1> QED BY <1>2, <1>3, <1>4, <1>5, <1>6 DEF WithNext

(* A merge writes the file with the lines of the other one.                 *)
LEMMA MergeIs ==
  ASSUME NEW c, NEW n, Board(c, n), NEW A \in Nat, NEW B \in Nat, HunkIs(n, A, B), FoundAt(c, A, B),
         NEW t \in Sides, \A s \in Sides : ~PastLines(s)
  PROVE  MergeText(t) = Swapped(c, A, B, t)
<1> DEFINE ch == rows[1][skip_rows + 1].ch
           o == Opposite(t)
<1>1. /\ n \in Nat /\ skip_rows \in Nat /\ A \in 1..skip_rows + 1 /\ B \in skip_rows + 1..n
      /\ 1 <= A /\ A <= B /\ B <= n /\ skip_rows + 1 \in A..B /\ \A k \in A..B : k \in 1..n
  BY DEF Board, HunkIs
<1>2. ch \in Kinds /\ ch # "EQU" /\ \A k \in A..B : rows[1][k].ch = ch
  <2>1. \A k \in A..B : rows[1][k].ch = ch
    BY HunkKind
  <2>2. ch \in Kinds
    BY <1>1 DEF Board
  <2>3. ch # "EQU"
    BY <1>1 DEF HunkIs
  <2> QED BY <2>1, <2>2, <2>3
<1>3. Row(1, skip_rows).ch = ch
  BY DEF Row
<1> HIDE DEF ch
<1>4. o \in Sides /\ Opposite(o) = t /\ (t = 1 => o = 2) /\ (t = 2 => o = 1)
  BY DEF Sides, Opposite
<1>5. ASSUME NEW k \in A..B
      PROVE  /\ ch = "ADD" => rows[1][k].line # 0 /\ rows[2][k].line = 0
             /\ ch = "DEL" => rows[1][k].line = 0 /\ rows[2][k].line # 0
  <2>1. PairTrue(compared, rows[1][k], rows[2][k]) /\ rows[1][k].ch = ch
    BY <1>1, <1>2 DEF Board
  <2> QED BY <2>1 DEF PairTrue
<1>6. \A s \in Sides : HunkStart[s] = c[s][A - 1] + 1
  BY DEF FoundAt
<1>7. ASSUME NEW s \in Sides, rows[s][skip_rows + 1].line # 0
      PROVE HunkEnd[s] = c[s][B] /\ c[s][A - 1] < c[s][B]
  BY <1>7 DEF FoundAt
<1>8. ASSUME NEW s \in Sides, \A k \in A..B : rows[s][k].line = 0 PROVE c[s][B] = c[s][A - 1]
  BY <1>1, <1>8, NoLines
<1>9. CASE ch = "CHG"
  <2>1. \A s \in Sides : rows[s][skip_rows + 1].line # 0
    BY <1>3, <1>9 DEF PastLines, Row
  <2>2. HunkEnd[o] = c[o][B] /\ HunkEnd[t] = c[t][B] /\ c[t][A - 1] < c[t][B]
    BY <1>4, <1>7, <2>1
  <2>3. MergeText(t) = dview_replace_hunk(t)
    BY <1>3, <1>9 DEF MergeText
  <2> QED BY <1>4, <1>6, <2>2, <2>3, HunkReplaced
<1>10. CASE ch = (IF t = 1 THEN "ADD" ELSE "DEL")
  <2>1. rows[t][skip_rows + 1].line # 0 /\ \A k \in A..B : rows[o][k].line = 0
    BY <1>1, <1>4, <1>5, <1>10 DEF Sides
  <2>2. HunkEnd[t] = c[t][B] /\ c[t][A - 1] < c[t][B] /\ c[o][B] = c[o][A - 1]
    BY <1>4, <1>7, <1>8, <2>1
  <2>3. MergeText(t) = dview_remove_hunk(t)
    BY <1>3, <1>10 DEF MergeText
  <2>4. CutsAre(c, n, A, B, t) /\ CutsAre(c, n, A, B, o)
    BY <1>4, CutsOf
  <2>5. HunkStart[t] = c[t][A - 1] + 1
    BY <1>6
  <2> QED BY <2>2, <2>3, <2>4, <2>5, HunkRemoved
<1>11. CASE ch # "CHG" /\ ch # (IF t = 1 THEN "ADD" ELSE "DEL")
  <2>1. ch = (IF t = 1 THEN "DEL" ELSE "ADD")
    BY <1>2, <1>11 DEF Kinds
  <2>2. rows[o][skip_rows + 1].line # 0 /\ \A k \in A..B : rows[t][k].line = 0
    BY <1>1, <1>4, <1>5, <2>1 DEF Sides
  <2>3. HunkEnd[o] = c[o][B] /\ c[t][A - 1] = c[t][B]
    BY <1>4, <1>7, <1>8, <2>2
  <2>4. MergeText(t) = dview_add_hunk(t)
    BY <1>3, <1>11 DEF MergeText
  <2> QED BY <1>4, <1>6, <2>3, <2>4, HunkAdded
<1> QED BY <1>9, <1>10, <1>11

(* The hunk at the first row shown is rows A to B.                          *)
LEMMA HunkRows ==
  ASSUME NEW n \in Nat, NEW A, NEW B, HunkIs(n, A, B), LastRow = n - 1, NEW i \in 1..n
  PROVE  InHunk(i - 1) <=> i \in A..B
<1>1. /\ skip_rows \in Nat /\ A \in 1..skip_rows + 1 /\ B \in skip_rows + 1..n
      /\ \A k \in A..B : rows[1][k].ch # "EQU"
      /\ A = 1 \/ rows[1][A - 1].ch = "EQU"
      /\ B = n \/ rows[1][B + 1].ch = "EQU"
  BY DEF HunkIs
<1>2. \A k \in Nat : Differs(k) <=> rows[1][k + 1].ch # "EQU"
  BY DEF Differs, Row
<1>3. InHunk(i - 1) <=> \A j \in 0..n - 1 : j \in (i - 1)..skip_rows \/ j \in skip_rows..(i - 1) => Differs(j)
  BY DEF InHunk
<1>4. CASE i \in A..B
  <2>1. ASSUME NEW j \in 0..n - 1, j \in (i - 1)..skip_rows \/ j \in skip_rows..(i - 1) PROVE Differs(j)
    <3>1. PICK k \in A..B : k = j + 1
      BY <1>1, <1>4, <2>1
    <3>2. j \in Nat
      OBVIOUS
    <3> QED BY <1>1, <1>2, <3>1, <3>2
  <2> QED BY <1>3, <1>4, <2>1
<1>5. CASE i < A
  <2>1. PICK j \in 0..n - 1 : j = A - 2 /\ j \in (i - 1)..skip_rows /\ j + 1 = A - 1 /\ A # 1 /\ j \in Nat
    BY <1>1, <1>5
  <2>2. ~Differs(j)
    BY <1>1, <1>2, <2>1
  <2>3. i \notin A..B
    BY <1>1, <1>5
  <2> QED BY <1>3, <2>1, <2>2, <2>3
<1>6. CASE i > B
  <2>1. PICK j \in 0..n - 1 : j = B /\ j \in skip_rows..(i - 1) /\ B # n /\ j \in Nat
    BY <1>1, <1>6
  <2>2. ~Differs(j)
    BY <1>1, <1>2, <2>1
  <2>3. i \notin A..B
    BY <1>1, <1>6
  <2> QED BY <1>3, <2>1, <2>2, <2>3
<1> QED BY <1>1, <1>4, <1>5, <1>6

(* What the rows from x + 1 to y show of file s is the lines counted there. *)
Flattens(F, ss, n) == \A k \in 1..n : F[k] = F[k - 1] \o ss[k]
ShowsFrom(s, ss, n, x, y) ==
  \A k \in 1..n : x < k /\ k <= y =>
    ss[k] = IF rows[s][k].line = 0 THEN << >> ELSE <<compared[s][rows[s][k].line]>>

(* The rows of a side, read one after the other, grow the file line by line.*)
LEMMA RowsGrow ==
  ASSUME NEW c, NEW n, Board(c, n), NEW s \in Sides, NEW x \in Nat, NEW y \in Nat, x <= y, y <= n,
         NEW F, NEW ss, Flattens(F, ss, n), ShowsFrom(s, ss, n, x, y)
  PROVE  GrowsBy(compared[s], c[s], F, x, y)
<1> DEFINE f == c[s]
           text == compared[s]
           r == rows[s]
<1>1. /\ n \in Nat /\ text \in Seq(LineValues) /\ \A k \in 0..n : f[k] \in 0..Len(text)
      /\ \A j, k \in 0..n : j <= k => f[j] <= f[k]
      /\ \A k \in 1..n : IF r[k].line = 0 THEN f[k] = f[k - 1] ELSE r[k].line = f[k] /\ f[k] = f[k - 1] + 1
  BY DEF Board, LineTexts
<1>2. \A k \in 1..n : x < k /\ k <= y => ss[k] = IF r[k].line = 0 THEN << >> ELSE <<text[r[k].line]>>
  BY DEF ShowsFrom
<1> HIDE DEF f, text, r
<1>3. ASSUME NEW k \in x..y, k # x PROVE F[k] = F[k - 1] \o Piece(text, f[k - 1], f[k])
  <2>1. k \in 1..n /\ x < k /\ k <= y /\ k - 1 \in 0..n /\ k \in 0..n
    BY <1>1, <1>3
  <2>2. F[k] = F[k - 1] \o ss[k]
    BY <2>1 DEF Flattens
  <2>3. f[k - 1] \in Nat /\ f[k] \in Nat /\ f[k] <= Len(text) /\ Len(text) \in Nat
    BY <1>1, <2>1
  <2>4. CASE r[k].line = 0
    <3>1. f[k] = f[k - 1] /\ ss[k] = << >>
      BY <1>1, <1>2, <2>1, <2>4
    <3>2. Piece(text, f[k - 1], f[k]) = << >>
      BY <2>3, <3>1, PieceNone
    <3> QED BY <2>2, <3>1, <3>2, Zenon
  <2>5. CASE r[k].line # 0
    <3>1. f[k] = f[k - 1] + 1 /\ r[k].line = f[k] /\ ss[k] = <<text[f[k]]>>
      BY <1>1, <1>2, <2>1, <2>5
    <3>2. f[k - 1] < Len(text)
      BY <2>3, <3>1
    <3>3. Piece(text, f[k - 1], f[k - 1] + 1) = <<text[f[k - 1] + 1]>>
      BY <1>1, <2>3, <3>2, PieceOne
    <3>4. Piece(text, f[k - 1], f[k]) = <<text[f[k]]>>
      BY <3>1, <3>3
    <3> QED BY <2>2, <3>1, <3>4, Zenon
  <2> QED BY <2>4, <2>5
<1>4. \A k \in x..y : k \in 0..n
  BY <1>1
<1>5. GrowsBy(text, f, F, x, y)
  BY <1>1, <1>3, <1>4 DEF GrowsBy
<1> QED BY <1>5 DEF text, f

(* The file with the hunk of the other one, as it is asked for, is that.    *)
LEMMA WithHunkIs ==
  ASSUME NEW c, NEW n, Board(c, n), NEW A \in Nat, NEW B \in Nat, HunkIs(n, A, B), LastRow = n - 1,
         NEW t \in Sides
  PROVE  WithHunk(t) = Swapped(c, A, B, t)
<1> DEFINE o == Opposite(t)
           Of(i) == IF i \in A..B THEN o ELSE t
           Shows(i) == LET k == rows[Of(i)][i].line IN IF k = 0 THEN << >> ELSE <<compared[Of(i)][k]>>
           ss == [i \in 1..n |-> Shows(i)]
           x == compared[t]
           y == compared[o]
           L == Len(x)
<1>1. /\ n \in Nat /\ skip_rows \in Nat /\ A \in 1..skip_rows + 1 /\ B \in skip_rows + 1..n
      /\ A - 1 \in Nat /\ 0 <= A - 1 /\ A - 1 <= B /\ B <= n /\ A - 1 <= n /\ n <= n /\ 0 \in Nat
  BY DEF Board, HunkIs
<1>2. o \in Sides /\ DOMAIN rows[t] = 1..n
  BY DEF Sides, Opposite, Board
<1>3. WithHunk(t) = FlattenSeq(ss)
  <2>1. \A i \in 1..n : InHunk(i - 1) <=> i \in A..B
    BY <1>1, HunkRows
  <2>2. WithHunk(t) = FlattenSeq([i \in 1..n |->
          LET s == IF InHunk(i - 1) THEN o ELSE t
              k == rows[s][i].line
          IN  IF k = 0 THEN << >> ELSE <<compared[s][k]>>])
    BY <1>2 DEF WithHunk
  <2>3. [i \in 1..n |->
          LET s == IF InHunk(i - 1) THEN o ELSE t
              k == rows[s][i].line
          IN  IF k = 0 THEN << >> ELSE <<compared[s][k]>>] = ss
    BY <2>1
  <2> HIDE DEF ss
  <2> QED BY <2>2, <2>3
<1>4. ASSUME NEW s \in Sides
      PROVE compared[s] \in Seq(LineValues) /\ \A i \in 1..n : rows[s][i].line = 0 \/ rows[s][i].line \in 1..Len(compared[s])
  <2>1. compared[s] \in Seq(LineValues)
    BY DEF Board, LineTexts
  <2>2. \A i \in 1..n : rows[s][i].line = 0 \/ (rows[s][i].line = c[s][i] /\ c[s][i] \in 0..Len(compared[s]))
    <3>1. \A i \in 1..n : i \in 0..n
      OBVIOUS
    <3> QED BY <3>1 DEF Board
  <2>3. Len(compared[s]) \in Nat
    BY <2>1
  <2> QED BY <2>1, <2>2, <2>3
<1>5. \A i \in 1..n : Of(i) \in Sides
  BY <1>2
<1> HIDE DEF o
<1>6. ss \in Seq(Seq(LineValues)) /\ Len(ss) = n
  <2>1. ASSUME NEW i \in 1..n PROVE Shows(i) \in Seq(LineValues)
    <3> DEFINE s == Of(i)
    <3>1. s \in Sides
      BY <1>5
    <3>2. Shows(i) = IF rows[s][i].line = 0 THEN << >> ELSE <<compared[s][rows[s][i].line]>>
      OBVIOUS
    <3> HIDE DEF s
    <3>3. rows[s][i].line # 0 => compared[s][rows[s][i].line] \in LineValues
      BY <1>4, <3>1
    <3> DEFINE e == IF rows[s][i].line = 0 THEN << >> ELSE <<compared[s][rows[s][i].line]>>
    <3>4. e \in Seq(LineValues)
      BY <3>3
    <3> QED BY <3>2, <3>4
  <2> HIDE DEF Shows
  <2> QED BY <1>1, <2>1
<1>7. /\ \A i \in A..B : ss[i] = IF rows[o][i].line = 0 THEN << >> ELSE <<compared[o][rows[o][i].line]>>
      /\ \A i \in 1..n : i \notin A..B => ss[i] = IF rows[t][i].line = 0 THEN << >> ELSE <<compared[t][rows[t][i].line]>>
  <2>1. A..B \subseteq 1..n
    BY <1>1
  <2>2. \A i \in 1..n : ss[i] = IF rows[Of(i)][i].line = 0 THEN << >> ELSE <<compared[Of(i)][rows[Of(i)][i].line]>>
    OBVIOUS
  <2> HIDE DEF ss
  <2> QED BY <2>1, <2>2
<1> HIDE DEF ss
<1>8. PICK F \in [0..n -> Seq(LineValues)] :
        F[0] = << >> /\ (\A k \in 1..n : F[k] = F[k - 1] \o ss[k]) /\ F[n] = FlattenSeq(ss)
  BY <1>6, FlattenDoes
<1>8a. Flattens(F, ss, n)
  BY <1>8 DEF Flattens
<1>9. GrowsBy(x, c[t], F, 0, A - 1)
  <2>1. ShowsFrom(t, ss, n, 0, A - 1)
    <3>1. \A k \in 1..n : 0 < k /\ k <= A - 1 => k \notin A..B
      BY <1>1
    <3> QED BY <1>7, <3>1 DEF ShowsFrom
  <2> QED BY <1>1, <1>8a, <2>1, RowsGrow DEF x
<1>10. GrowsBy(y, c[o], F, A - 1, B)
  <2>1. ShowsFrom(o, ss, n, A - 1, B)
    <3>1. \A k \in 1..n : A - 1 < k /\ k <= B => k \in A..B
      BY <1>1
    <3> QED BY <1>7, <3>1 DEF ShowsFrom
  <2> QED BY <1>1, <1>2, <1>8a, <2>1, RowsGrow DEF y
<1>11. GrowsBy(x, c[t], F, B, n)
  <2>1. ShowsFrom(t, ss, n, B, n)
    <3>1. \A k \in 1..n : B < k /\ k <= n => k \notin A..B
      BY <1>1
    <3> QED BY <1>7, <3>1 DEF ShowsFrom
  <2> QED BY <1>1, <1>8a, <2>1, RowsGrow DEF x
<1>12. x \in Seq(LineValues) /\ y \in Seq(LineValues) /\ c[t][0] = 0 /\ c[t][n] = L
  BY <1>2, <1>4 DEF Board
<1> HIDE DEF x, y, L
<1>13. F[A - 1] = F[0] \o Piece(x, c[t][0], c[t][A - 1]) /\ F[A - 1] \in Seq(LineValues)
  <2>1. F[0] \in Seq(LineValues)
    BY <1>1, <1>8
  <2> QED BY <1>1, <1>9, <1>12, <2>1, PieceByPiece
<1>14. F[B] = F[A - 1] \o Piece(y, c[o][A - 1], c[o][B]) /\ F[B] \in Seq(LineValues)
  BY <1>1, <1>10, <1>12, <1>13, PieceByPiece
<1>15. F[n] = F[B] \o Piece(x, c[t][B], c[t][n]) /\ F[n] \in Seq(LineValues)
  <2>1. F[B] \in Seq(LineValues)
    BY <1>14
  <2>2. x \in Seq(LineValues) /\ n \in Nat /\ B \in Nat /\ B <= n
    BY <1>1, <1>12
  <2> QED BY <1>11, <2>1, <2>2, PieceByPiece
<1>16. F[A - 1] = Piece(x, 0, c[t][A - 1])
  <2>1. CutsAre(c, n, A, B, t)
    BY CutsOf
  <2>2. 0 <= c[t][A - 1] /\ c[t][A - 1] \in Nat /\ c[t][A - 1] <= Len(x) /\ 0 \in Nat
    BY <2>1 DEF CutsAre, x
  <2>3. Piece(x, 0, c[t][A - 1]) \in Seq(LineValues)
    BY <1>12, <2>2, PieceIs
  <2> DEFINE p == Piece(x, 0, c[t][A - 1])
  <2>4. F[A - 1] = << >> \o p
    BY <1>8, <1>12, <1>13
  <2> HIDE DEF p
  <2>5. << >> \o p = p
    BY <2>3 DEF p
  <2> QED BY <2>4, <2>5 DEF p
<1> QED BY <1>3, <1>8, <1>12, <1>14, <1>15, <1>16 DEF Swapped, x, y, L, o

(* What a merge writes is the file with the hunk of the other swapped in.   *)
LEMMA MergedRight ==
  ASSUME DvInv, NEW t \in Sides, viewing, rows[1] # << >>, Differs(skip_rows), ~BehindFirst,
         \A s \in Sides : ~PastLines(s)
  PROVE  MergeText(t) = WithHunk(t)
<1> DEFINE n == Len(rows[1])
<1>1. PICK c : Board(c, n)
  BY BoardIs
<1>2. LastRow = n - 1 /\ n \in Nat
  BY <1>1 DEF LastRow, Board
<1>3. skip_rows \in 0..n - 1
  <2>1. rows[1] \in Seq(RowSet) /\ skip_rows \in 0..Greatest(0, n - 1)
    BY DEF DvInv, RowsInv, RowsShow, SideBySide
  <2>2. n # 0
    BY <2>1
  <2> HIDE DEF n
  <2> QED BY <1>2, <2>1, <2>2 DEF Greatest
<1> HIDE DEF n
<1>4. PICK A \in Nat : TopIs(c, A)
  BY <1>1, <1>3, HunkTop
<1>5. PICK B \in Nat : BottomIs(c, n, B)
  BY <1>1, <1>2, <1>3, HunkBottom
<1>6. HunkIs(n, A, B) /\ FoundAt(c, A, B)
  BY <1>1, <1>3, <1>4, <1>5, HunkBothEnds
<1>7. MergeText(t) = Swapped(c, A, B, t)
  BY <1>1, <1>6, MergeIs
<1>8. WithHunk(t) = Swapped(c, A, B, t)
  BY <1>1, <1>2, <1>6, WithHunkIs
<1> QED BY <1>7, <1>8

(***************************************************************************)
(* What a step may do to the files.                                        *)
(***************************************************************************)
Asked(t) ==
  CASE did' = <<"edited", t>> -> TRUE
    [] did' = <<"merged", t>> ->
         BehindFirst \/ (\E s \in Sides : PastLines(s)) \/ compared'[t] = WithHunk(t)
    [] did' = <<"restored", 0>> ->
         Orphaned(t) \/ compared'[t] = IF merged[t] THEN before[t] ELSE compared[t]
    [] OTHER -> compared'[t] = compared[t]

(* A step that leaves the file as it is, unless it is one of the others.    *)
LEMMA LeavesAsked ==
  ASSUME NEW t \in Sides, compared'[t] = compared[t],
         did' # <<"merged", t>>, did' # <<"restored", 0>>
  PROVE  Asked(t)
BY DEF Asked

(* A merge changes only the file asked for, and as asked.                   *)
LEMMA MergeAsked ==
  ASSUME DvInv, NEW u \in Sides, do_merge_hunk(u), NEW t \in Sides, t \notin torn'
  PROVE  Asked(t)
<1>1. PICK saved \in {"whole", "cut unseen"}, how \in Outcomes \ {"cut unseen"} :
        /\ viewing /\ rows[1] # << >> /\ Differs(skip_rows)
        /\ compared' = [compared EXCEPT ![u] = OnDisk(how, MergeText(u), @)]
        /\ torn' = torn \union (IF CutShort(saved) \/ CutShort(how) THEN {u} ELSE {})
        /\ did' = <<IF how = "whole" THEN "merged" ELSE "refused", u>>
  BY DEF do_merge_hunk
<1>2. compared \in [Sides -> LineTexts]
  BY DEF DvInv, DvType
<1>3. CASE t # u
  <2>1. compared'[t] = compared[t]
    BY <1>1, <1>2, <1>3
  <2>2. did' # <<"merged", t>> /\ did' # <<"restored", 0>>
    BY <1>1, <1>3
  <2> QED BY <2>1, <2>2, LeavesAsked
<1>4. CASE t = u /\ how # "whole"
  <2>1. ~CutShort(how)
    BY <1>1, <1>4
  <2>2. compared'[t] = compared[t]
    BY <1>1, <1>2, <1>4, <2>1 DEF OnDisk
  <2>3. did' # <<"merged", t>> /\ did' # <<"restored", 0>>
    BY <1>1, <1>4
  <2> QED BY <2>2, <2>3, LeavesAsked
<1>5. CASE t = u /\ how = "whole"
  <2>1. compared'[t] = MergeText(t)
    BY <1>1, <1>2, <1>5 DEF OnDisk
  <2>2. did' = <<"merged", t>> /\ did' # <<"edited", t>>
    BY <1>1, <1>5
  <2>3. BehindFirst \/ (\E s \in Sides : PastLines(s)) \/ compared'[t] = WithHunk(t)
    BY <1>1, <2>1, MergedRight
  <2>4. did' # <<"restored", 0>>
    BY <2>2
  <2> QED BY <2>2, <2>3, <2>4 DEF Asked
<1> QED BY <1>3, <1>4, <1>5

(* Restoring writes back what was there before the first merge.             *)
LEMMA RestoreAsked ==
  ASSUME DvInv, dview_restore, NEW t \in Sides, t \notin torn'
  PROVE  Asked(t)
<1>1. PICK how \in [Sides -> Outcomes] :
        /\ compared' = [s \in Sides |->
             IF s \in HasBackup THEN OnDisk(how[s], backups[s], compared[s]) ELSE compared[s]]
        /\ torn' = torn \union {s \in Sides : how[s] # "whole"}
        /\ did' = <<"restored", 0>>
  BY DEF dview_restore
<1>2. DvType /\ BackupInv(merged, backups, before, torn)
  BY DEF DvInv
<1>3. how[t] = "whole" /\ t \notin torn
  BY <1>1
<1>4. compared'[t] = IF backups[t] # NoBackup THEN backups[t] ELSE compared[t]
  BY <1>1, <1>3 DEF HasBackup, OnDisk
<1>5. merged[t] => backups[t] = before[t] /\ backups[t] # NoBackup
  BY <1>2, <1>3, NoBackupAssumption DEF BackupInv, LineTexts
<1>6. Orphaned(t) \/ compared'[t] = IF merged[t] THEN before[t] ELSE compared[t]
  BY <1>4, <1>5 DEF Orphaned
<1>7. did' = <<"restored", 0>> /\ did' # <<"edited", t>> /\ did' # <<"merged", t>>
  BY <1>1
<1> QED BY <1>6, <1>7 DEF Asked

(* Every step does so.                                                      *)
LEMMA AskedStep == ASSUME DvInv, DvNext, NEW t \in Sides, t \notin torn' PROVE Asked(t)
<1>1. compared \in [Sides -> LineTexts]
  BY DEF DvInv, DvType
<1>2. CASE \E u \in Sides : merge_refused(u)
  <2>1. PICK u \in Sides : merge_refused(u)
    BY <1>2
  <2>2. compared' = compared /\ did' = <<"refused", u>>
    BY <2>1 DEF merge_refused
  <2>3. did' # <<"merged", t>> /\ did' # <<"restored", 0>>
    BY <2>2
  <2> QED BY <2>2, <2>3, LeavesAsked
<1>3. CASE \E u \in Sides : dview_edit(u)
  <2>1. PICK u \in Sides : dview_edit(u)
    BY <1>3
  <2>2. did' = <<"edited", u>> /\ did' # <<"merged", t>> /\ did' # <<"restored", 0>>
    BY <2>1 DEF dview_edit
  <2>3. CASE t = u
    BY <2>2, <2>3 DEF Asked
  <2>4. CASE t # u
    <3>1. PICK text \in Edited(compared[u]) : compared' = [compared EXCEPT ![u] = text]
      BY <2>1 DEF dview_edit
    <3>2. compared'[t] = compared[t]
      BY <1>1, <2>4, <3>1
    <3> QED BY <2>2, <3>2, LeavesAsked
  <2> QED BY <2>3, <2>4
<1>4. CASE HunkNext \/ HunkPrev \/ Up \/ Down \/ \E n \in 0..(Len(compared[2]) + 1) : dview_goto_cmd(n)
  <2>1. PICK k \in Int : Move(k)
    BY <1>4, CommandsMove
  <2>2. compared' = compared /\ did' = <<"moved", 0>>
    BY <2>1 DEF Move
  <2>3. did' # <<"merged", t>> /\ did' # <<"restored", 0>>
    BY <2>2
  <2> QED BY <2>2, <2>3, LeavesAsked
<1>5. CASE dview_save \/ dview_ends \/ dview_init
  <2>1. compared' = compared /\ did' \in {<<"saved", 0>>, <<"ended", 0>>, <<"started", 0>>}
    BY <1>5 DEF dview_save, dview_ends, dview_init
  <2>2. did' # <<"merged", t>> /\ did' # <<"restored", 0>>
    BY <2>1
  <2> QED BY <2>1, <2>2, LeavesAsked
<1>6. CASE \E u \in Sides : do_merge_hunk(u)
  BY <1>6, MergeAsked
<1>7. CASE dview_restore
  BY <1>7, RestoreAsked
<1> QED BY <1>2, <1>3, <1>4, <1>5, <1>6, <1>7 DEF DvNext

(* No step of the view changes a file except as its user asked for:         *)
(* do_merge_hunk writes the file with the lines of the hunk at the top taken*)
(* from the other one, and dview_ok_to_exit, when the merges are not kept,  *)
(* writes back what the files held before the first merge. Left out are a   *)
(* file whose write was cut short, a backup left behind by an earlier       *)
(* session, and the two kinds of hunk for which the code is known to go     *)
(* wrong (BehindFirst, PastLines).                                          *)
THEOREM OnlyAsAskedHolds == DvSpec => OnlyAsAsked
<1>1. DvInv /\ [DvNext]_dv_vars => [\A t \in Sides \ torn' : Asked(t)]_dv_vars
  BY AskedStep
<1>2. DvSpec => [][\A t \in Sides \ torn' : Asked(t)]_dv_vars
  BY DvInvariant, <1>1, PTL DEF DvSpec
<1> QED BY <1>2 DEF OnlyAsAsked, Asked
=============================================================================
