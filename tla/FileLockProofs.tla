--------------------------- MODULE FileLockProofs ---------------------------
(***************************************************************************)
(* For any number of processes, windows and files: no lock is left behind, *)
(* and undisturbed locks exclude each other.                               *)
(***************************************************************************)
EXTENDS FileLock, TLAPS

(* What a window knows at each step: whose lock the call is about, and what *)
(* the flags of the window say of it.                                       *)
LockingOK(c, e) ==
  /\ c.file \in Files /\ ~c.save_lock
  /\ c.at = "kill" => c.seen \in Processes
  /\ \/ c.why = "modification" /\ c.file = e.filename /\ ~e.modified
     \/ /\ c.why \in {"save", "save_as"} /\ c.file = c.exp
        /\ c.exp = e.filename => ~e.locked
        /\ c.why = "save" => c.exp = e.filename

SavingOK(c, e) ==
  /\ c.why \in {"save", "save_as"} /\ c.exp \in Files
  /\ c.why = "save" => c.exp = e.filename

UnlockingOK(c, e) ==
  /\ c.file \in Files
  /\ e.locked \/ c.save_lock
  /\ \/ /\ c.why = "saved" /\ c.exp \in Files
        /\ c.file = e.filename /\ (c.save_lock => c.exp = e.filename)
     \/ /\ c.why \in {"save cancelled", "save failed"} /\ c.save_lock
        /\ c.file = e.filename /\ c.exp = e.filename
     \/ c.why = "save_as failed" /\ c.save_lock /\ c.file = c.exp
     \/ /\ c.why = "saved under new name" /\ c.save_lock /\ c.exp \in Files
        /\ c.file = c.exp /\ c.exp # e.filename
     \/ c.why \in {"close", "clean"} /\ ~c.save_lock /\ c.file = e.filename

WindowOK(c, e) ==
  /\ ~e.open => e = NoEdit /\ c = Idle
  /\ e.open => e.filename \in Files
  /\ e.locked => e.modified
  /\ c.save_lock /\ c.exp = e.filename => ~e.locked
  /\ c.at = "idle" => c = Idle
  /\ c.at \in LockSteps => LockingOK(c, e)
  /\ c.at = "save_file" => SavingOK(c, e)
  /\ c.at = "ask_name" => ~c.save_lock
  /\ c.at \in UnlockSteps => UnlockingOK(c, e)

Typed ==
  /\ link \in [Files -> Processes \cup {NoProcess}]
  /\ process \in [Processes -> {"running", "exited", "crashed"}]
  /\ edit \in [Windows -> WEdit]
  /\ call \in [Windows -> Call]
  /\ disturbed \subseteq {"end", "grab", "close"}

CallInv == Typed /\ \A w \in Windows : WindowOK(call[w], edit[w])

(* Undisturbed, every process runs and answers kill, so that no link is     *)
(* removed as stale; the second unlock_file of edit_close_cmd, which may    *)
(* find the lock of another, does not come about.                           *)
Calm ==
  OneHost /\ disturbed = {} =>
    /\ \A p \in Processes : process[p] = "running"
    /\ \A w \in Windows : call[w].at # "unlink" /\ call[w].why # "close"

-----------------------------------------------------------------------------
(* What a step of window w does to a file's lock: nothing is changed, it is *)
(* taken where there was none, it is given back, or a link is removed by a  *)
(* window that goes on as it was.                                           *)

Kept(w, f) == link'[f] = link[f] /\ (Holds(w, f)' <=> Holds(w, f))
Taken(w, f) == link[f] = NoProcess /\ link'[f] = Owner[w] /\ Holds(w, f)'
GivenBack(w, f) ==
  /\ Holds(w, f) /\ ~Holds(w, f)' /\ link'[f] # Owner[w]
  /\ link'[f] \in {link[f], NoProcess}
Removed(w, f) ==
  /\ call[w].at = "unlink" \/ call[w].why = "close"
  /\ link'[f] = NoProcess /\ (Holds(w, f)' <=> Holds(w, f))

LinkStep(w, f) == Kept(w, f) \/ Taken(w, f) \/ GivenBack(w, f) \/ Removed(w, f)

Step(w) ==
  /\ call' \in [Windows -> Call] /\ edit' \in [Windows -> WEdit]
  /\ \A v \in Windows : v # w => call'[v] = call[v] /\ edit'[v] = edit[v]
  /\ WindowOK(call'[w], edit'[w])
  /\ process' = process /\ link' \in [Files -> Processes \cup {NoProcess}]
  /\ disturbed \subseteq disturbed' /\ disturbed' \subseteq {"end", "grab", "close"}
  /\ \A f \in Files : LinkStep(w, f)
  /\ Calm /\ OneHost /\ disturbed' = {} => call'[w].at # "unlink" /\ call'[w].why # "close"

(* The windows other than w hold what they held. *)
LEMMA StepFrame ==
  ASSUME NEW w \in Windows, Step(w)
  PROVE  \A v \in Windows, f \in Files : v # w => (Holds(v, f)' <=> Holds(v, f))
BY DEF Step, Holds

(* Such a step keeps what the windows know. *)
LEMMA StepCalls ==
  ASSUME CallInv, NEW w \in Windows, Step(w)
  PROVE  CallInv'
<1>1. Typed'
  BY DEF Step, CallInv, Typed
<1>2. ASSUME NEW v \in Windows PROVE WindowOK(call'[v], edit'[v])
  <2>1. CASE v = w
    BY <2>1 DEF Step
  <2>2. CASE v # w
    <3>1. WindowOK(call[v], edit[v]) BY DEF CallInv
    <3>2. call'[v] = call[v] /\ edit'[v] = edit[v] BY <2>2 DEF Step
    <3> QED BY <3>1, <3>2
  <2> QED BY <2>1, <2>2
<1> QED BY <1>1, <1>2 DEF CallInv

(* Such a step leaves no lock behind. *)
LEMMA StepNoLeak ==
  ASSUME NoLeak, NEW w \in Windows, Step(w)
  PROVE  NoLeak'
<1> SUFFICES ASSUME NEW f \in Files, link'[f] # NoProcess, process'[link'[f]] # "crashed"
             PROVE  \E v \in Windows : Owner[v] = link'[f] /\ Holds(v, f)'
  BY DEF NoLeak
<1>1. LinkStep(w, f) /\ process' = process
  BY DEF Step
<1>2. CASE Taken(w, f)
  BY <1>2 DEF Taken
<1>3. CASE ~Taken(w, f)
  <2>1. link'[f] = link[f]
    BY <1>1, <1>3 DEF LinkStep, Kept, GivenBack, Removed
  <2>2. PICK v \in Windows : Owner[v] = link[f] /\ Holds(v, f)
    BY <1>1, <2>1 DEF NoLeak
  <2>3. CASE v # w
    BY <2>1, <2>2, <2>3, StepFrame
  <2>4. CASE v = w
    BY <1>1, <1>3, <2>1, <2>2, <2>4 DEF LinkStep, Kept, GivenBack, Removed
  <2> QED BY <2>3, <2>4
<1> QED BY <1>2, <1>3

(* Such a step, undisturbed, keeps the locks exclusive. *)
LEMMA StepExclusive ==
  ASSUME Calm, Exclusive, NEW w \in Windows, Step(w)
  PROVE  Calm' /\ Exclusive'
<1> SUFFICES ASSUME OneHost, disturbed' = {}
             PROVE  /\ \A p \in Processes : process'[p] = "running"
                    /\ \A v \in Windows : call'[v].at # "unlink" /\ call'[v].why # "close"
                    /\ Excluding'
  BY DEF Calm, Exclusive, OneHost
<1>1. disturbed = {} /\ Excluding
  BY DEF Step, Exclusive
<1>2. \A p \in Processes : process'[p] = "running"
  BY <1>1 DEF Step, Calm
<1>3. \A v \in Windows : call'[v].at # "unlink" /\ call'[v].why # "close"
  BY <1>1 DEF Step, Calm
<1>4. Excluding'
  <2> SUFFICES ASSUME NEW u \in Windows, NEW f \in Files, Holds(u, f)'
               PROVE  link'[f] = Owner[u] /\ \A v \in Windows : Holds(v, f)' => v = u
    BY DEF Excluding
  <2>1. LinkStep(w, f) BY DEF Step
  <2>2. Kept(w, f) \/ Taken(w, f) \/ GivenBack(w, f)
    BY <1>1, <2>1 DEF LinkStep, Removed, Calm
  <2>3. \A v \in Windows : Owner[v] # NoProcess
    BY OwnerAssumption, NoneAssumption
  <2>4. \A v \in Windows : Holds(v, f) => link[f] = Owner[v] /\ \A x \in Windows : Holds(x, f) => x = v
    BY <1>1 DEF Excluding
  <2>5. CASE Kept(w, f)
    BY <2>4, <2>5, StepFrame DEF Kept
  <2>6. CASE Taken(w, f)
    BY <2>3, <2>4, <2>6, StepFrame DEF Taken
  <2>7. CASE GivenBack(w, f)
    BY <2>4, <2>7, StepFrame DEF GivenBack
  <2> QED BY <2>2, <2>5, <2>6, <2>7
<1> QED BY <1>2, <1>3, <1>4

-----------------------------------------------------------------------------
(* Each system call of lock_file and unlock_file is such a step.            *)

LEMMA CallsNow ==
  ASSUME CallInv, NEW w \in Windows
  PROVE  /\ call \in [Windows -> Call] /\ edit \in [Windows -> WEdit]
         /\ link \in [Files -> Processes \cup {NoProcess}]
         /\ call[w] \in Call /\ edit[w] \in WEdit /\ WindowOK(call[w], edit[w])
         /\ Owner[w] \in Processes
         /\ Calm /\ OneHost /\ disturbed = {} => call[w].at # "unlink" /\ call[w].why # "close"
         /\ disturbed \subseteq {"end", "grab", "close"}
BY OwnerAssumption DEF CallInv, Typed, Calm

(* A step that changes neither a link nor what the window holds. *)
LEMMA QuietStep ==
  ASSUME CallInv, NEW w \in Windows,
         call' \in [Windows -> Call], edit' \in [Windows -> WEdit],
         \A v \in Windows : v # w => call'[v] = call[v] /\ edit'[v] = edit[v],
         UNCHANGED <<link, process>>,
         disturbed \subseteq disturbed', disturbed' \subseteq {"end", "grab", "close"},
         WindowOK(call'[w], edit'[w]),
         \A f \in Files : Holds(w, f)' <=> Holds(w, f),
         Calm /\ OneHost /\ disturbed' = {} => call'[w].at # "unlink" /\ call'[w].why # "close"
  PROVE  Step(w)
BY DEF Step, CallInv, Typed, LinkStep, Kept

(* A call of lock_file goes on to its next system call. *)
LEMMA GoOnLocking ==
  ASSUME CallInv, NEW w \in Windows, call[w].at \in LockSteps, NEW s \in LockSteps,
         call' \in [Windows -> Call],
         \A v \in Windows : v # w => call'[v] = call[v],
         call'[w].at = s, s = "kill" => call'[w].seen \in Processes,
         call'[w].why = call[w].why, call'[w].file = call[w].file,
         call'[w].exp = call[w].exp, call'[w].save_lock = call[w].save_lock,
         UNCHANGED <<process, edit>>,
         disturbed \subseteq disturbed', disturbed' \subseteq {"end", "grab", "close"},
         Calm /\ OneHost /\ disturbed' = {} => s # "unlink"
  PROVE  /\ WindowOK(call'[w], edit'[w])
         /\ \A f \in Files : Holds(w, f)' <=> Holds(w, f)
         /\ Calm /\ OneHost /\ disturbed' = {} => call'[w].at # "unlink" /\ call'[w].why # "close"
         /\ link' = link => Step(w)
<1>1. LockingOK(call[w], edit[w]) /\ WindowOK(call[w], edit[w])
  BY CallsNow DEF WindowOK
<1>2. LockingOK(call'[w], edit[w])
  BY <1>1 DEF LockingOK
<1>3. s \notin UnlockSteps /\ s \notin {"idle", "save_file", "ask_name"}
  BY DEF LockSteps, UnlockSteps
<1>4. edit[w].open
  <2>1. Idle.at = "idle" /\ call[w].at # "idle" BY DEF Idle, LockSteps
  <2> QED BY <1>1, <2>1 DEF WindowOK
<1>5. WindowOK(call'[w], edit[w])
  BY <1>1, <1>2, <1>3, <1>4 DEF WindowOK
<1>6. \A f \in Files : Holds(w, f)' <=> Holds(w, f)
  BY DEF Holds
<1>7. Calm /\ OneHost /\ disturbed' = {} => call'[w].at # "unlink" /\ call'[w].why # "close"
  BY CallsNow
<1> QED BY <1>5, <1>6, <1>7, QuietStep, CallsNow

LEMMA Goes ==
  ASSUME CallInv, NEW w \in Windows, NEW s \in LockSteps \cup UnlockSteps, Goto(w, s)
  PROVE  /\ call' \in [Windows -> Call]
         /\ \A v \in Windows : v # w => call'[v] = call[v]
         /\ call'[w].at = s /\ call'[w].why = call[w].why
         /\ call'[w].file = call[w].file /\ call'[w].exp = call[w].exp
         /\ call'[w].save_lock = call[w].save_lock
<1>1. call \in [Windows -> Call]
  BY CallsNow
<1>2. call' = [call EXCEPT ![w].at = s]
  BY DEF Goto
<1>3. call' \in [Windows -> Call]
  BY ZenonT(60), <1>1, <1>2 DEF Call
<1>4. \A v \in Windows : v # w => call'[v] = call[v]
  BY <1>1, <1>2 DEF Call
<1>5. call'[w].at = s /\ call'[w].why = call[w].why
  BY <1>1, <1>2 DEF Call
<1>6. call'[w].file = call[w].file /\ call'[w].exp = call[w].exp
  BY <1>1, <1>2 DEF Call
<1>7. call'[w].save_lock = call[w].save_lock
  BY <1>1, <1>2 DEF Call
<1> QED BY <1>3, <1>4, <1>5, <1>6, <1>7

(* Calls stay calls as one field of one of them is changed. *)
WithAt(d, w, x) == [d EXCEPT ![w].at = x]
WithWhy(d, w, x) == [d EXCEPT ![w].why = x]
WithFile(d, w, x) == [d EXCEPT ![w].file = x]
WithSeen(d, w, x) == [d EXCEPT ![w].seen = x]
WithSaveLock(d, w, x) == [d EXCEPT ![w].save_lock = x]

LEMMA CallWith ==
  ASSUME NEW d \in [Windows -> Call], NEW w \in Windows
  PROVE  /\ \A x \in LockSteps \cup UnlockSteps \cup {"save_file"} : WithAt(d, w, x) \in [Windows -> Call]
         /\ \A x \in {"modification", "saved", "save cancelled", "save failed", "save_as failed",
                      "saved under new name", "close", "clean"} :
              WithWhy(d, w, x) \in [Windows -> Call]
         /\ \A x \in Files \cup {NoFile} : WithFile(d, w, x) \in [Windows -> Call]
         /\ \A x \in Processes \cup {NoProcess} : WithSeen(d, w, x) \in [Windows -> Call]
         /\ \A x \in BOOLEAN : WithSaveLock(d, w, x) \in [Windows -> Call]
<1>1. \A x \in LockSteps \cup UnlockSteps \cup {"save_file"} : WithAt(d, w, x) \in [Windows -> Call]
  BY ZenonT(60) DEF Call, WithAt
<1>2. \A x \in {"modification", "saved", "save cancelled", "save failed", "save_as failed",
                 "saved under new name", "close", "clean"} :
         WithWhy(d, w, x) \in [Windows -> Call]
  BY ZenonT(60) DEF Call, WithWhy
<1>3. \A x \in Files \cup {NoFile} : WithFile(d, w, x) \in [Windows -> Call]
  BY ZenonT(60) DEF Call, WithFile
<1>4. \A x \in Processes \cup {NoProcess} : WithSeen(d, w, x) \in [Windows -> Call]
  BY ZenonT(60) DEF Call, WithSeen
<1>5. \A x \in BOOLEAN : WithSaveLock(d, w, x) \in [Windows -> Call]
  BY ZenonT(60) DEF Call, WithSaveLock
<1> QED BY <1>1, <1>2, <1>3, <1>4, <1>5

LEMMA GoesSeeing ==
  ASSUME CallInv, NEW w \in Windows, NEW s \in LockSteps,
         NEW p \in Processes \cup {NoProcess},
         call' = [call EXCEPT ![w].at = s, ![w].seen = p]
  PROVE  /\ call' \in [Windows -> Call]
         /\ \A v \in Windows : v # w => call'[v] = call[v]
         /\ call'[w].at = s /\ call'[w].why = call[w].why /\ call'[w].seen = p
         /\ call'[w].file = call[w].file /\ call'[w].exp = call[w].exp
         /\ call'[w].save_lock = call[w].save_lock
<1>1. call \in [Windows -> Call]
  BY CallsNow
<1>2. call'[w].seen = p
  BY <1>1 DEF Call
<1>3. call' \in [Windows -> Call]
  <2>1. PICK d : d = [call EXCEPT ![w].at = s]
    OBVIOUS
  <2>2. d \in [Windows -> Call]
    BY ZenonT(60), <1>1, <2>1 DEF Call
  <2>3. call' = WithSeen(d, w, p)
    BY <2>1 DEF WithSeen
  <2>4. WithSeen(d, w, p) \in [Windows -> Call]
    BY <2>2, CallWith
  <2> QED BY <2>3, <2>4
<1>4. \A v \in Windows : v # w => call'[v] = call[v]
  BY <1>1 DEF Call
<1>5. call'[w].at = s /\ call'[w].why = call[w].why
  BY <1>1 DEF Call
<1>6. call'[w].file = call[w].file /\ call'[w].exp = call[w].exp
  BY ZenonT(60), <1>1 DEF Call
<1>7. call'[w].save_lock = call[w].save_lock
  BY ZenonT(60), <1>1 DEF Call
<1> QED BY <1>2, <1>3, <1>4, <1>5, <1>6, <1>7

LEMMA LockLstat ==
  ASSUME CallInv, NEW w \in Windows, lock_lstat(w)
  PROVE  Step(w)
<1>1. PICK s \in {"symlink", "readlink"} : Goto(w, s)
  BY DEF lock_lstat
<1>2. s \in LockSteps /\ call[w].at \in LockSteps /\ s \notin {"kill", "unlink"}
  BY DEF lock_lstat, At, LockSteps
<1> QED BY <1>1, <1>2, Goes, CallsNow, GoOnLocking DEF lock_lstat

LEMMA LockUnlink ==
  ASSUME CallInv, NEW w \in Windows, lock_unlink(w)
  PROVE  Step(w)
<1>1. Goto(w, "symlink") /\ "symlink" \in LockSteps /\ call[w].at \in LockSteps
  BY DEF lock_unlink, At, LockSteps
<1>2. link' = [link EXCEPT ![call[w].file] = NoProcess] /\ UNCHANGED <<process, edit, disturbed>>
  BY DEF lock_unlink, SetLink
<1>3. /\ WindowOK(call'[w], edit'[w])
      /\ \A f \in Files : Holds(w, f)' <=> Holds(w, f)
      /\ Calm /\ OneHost /\ disturbed' = {} => call'[w].at # "unlink" /\ call'[w].why # "close"
  BY <1>1, <1>2, Goes, CallsNow, GoOnLocking
<1>4. ASSUME NEW f \in Files PROVE LinkStep(w, f)
  BY <1>2, <1>3, CallsNow DEF LinkStep, Kept, Removed, lock_unlink, At
<1> QED BY <1>1, <1>2, <1>3, <1>4, Goes, CallsNow DEF Step

LEMMA LockQueryGrab ==
  ASSUME CallInv, NEW w \in Windows, lock_query_grab(w)
  PROVE  Step(w)
<1>1. Goto(w, "unlink") /\ "unlink" \in LockSteps /\ call[w].at \in LockSteps
  BY DEF lock_query_grab, At, LockSteps
<1> QED BY <1>1, Goes, CallsNow, GoOnLocking DEF lock_query_grab

LEMMA LockKill ==
  ASSUME CallInv, NEW w \in Windows, lock_kill(w)
  PROVE  Step(w)
<1> DEFINE s == IF Answers(w, call[w].seen) THEN "query" ELSE "unlink"
<1>1. PICK t : t = s
  OBVIOUS
<1>2. t \in LockSteps /\ call[w].at \in LockSteps /\ t # "kill"
  BY <1>1 DEF lock_kill, At, LockSteps
<1>3. call' = [call EXCEPT ![w].at = t, ![w].seen = NoProcess]
  BY <1>1 DEF lock_kill
<1>4. Calm /\ OneHost /\ disturbed' = {} => t # "unlink"
  <2> SUFFICES ASSUME Calm, OneHost, disturbed' = {} PROVE Answers(w, call[w].seen)
    BY <1>1
  <2>1. call[w].seen \in Processes
    BY CallsNow DEF lock_kill, At, WindowOK, LockingOK, LockSteps
  <2> QED BY <2>1, CallsNow DEF Answers, Calm, OneHost, lock_kill
<1> QED BY ZenonT(60), <1>2, <1>3, <1>4, CallsNow, GoesSeeing, GoOnLocking DEF lock_kill

LEMMA LockReadlinkSees ==
  ASSUME CallInv, NEW w \in Windows, At(w, "readlink"), Link(w) # NoProcess,
         call' = [call EXCEPT ![w].at = "kill", ![w].seen = Link(w)],
         UNCHANGED <<edit, link, process, disturbed>>
  PROVE  Step(w)
<1>1. "kill" \in LockSteps /\ call[w].at \in LockSteps
  BY DEF At, LockSteps
<1>2. PICK p \in Processes : p = Link(w)
  BY <1>1, CallsNow DEF Link, WindowOK, LockingOK
<1>3. call' = [call EXCEPT ![w].at = "kill", ![w].seen = p]
  BY <1>2
<1>4. /\ call' \in [Windows -> Call]
      /\ \A v \in Windows : v # w => call'[v] = call[v]
      /\ call'[w].at = "kill" /\ call'[w].why = call[w].why /\ call'[w].seen = p
      /\ call'[w].file = call[w].file /\ call'[w].exp = call[w].exp
      /\ call'[w].save_lock = call[w].save_lock
  BY <1>1, <1>3, GoesSeeing
<1> QED BY <1>1, <1>4, CallsNow, GoOnLocking

(* Back from a call made for a modification. *)
LEMMA ReturnsModified ==
  ASSUME CallInv, NEW w \in Windows, NEW result \in BOOLEAN, Return(w),
         edit' = [edit EXCEPT ![w].locked = result, ![w].modified = TRUE], edit[w].open
  PROVE  /\ call' \in [Windows -> Call] /\ edit' \in [Windows -> WEdit]
         /\ \A v \in Windows : v # w => call'[v] = call[v] /\ edit'[v] = edit[v]
         /\ call'[w] = Idle /\ edit'[w].filename = edit[w].filename
         /\ edit'[w].locked = result /\ WindowOK(call'[w], edit'[w])
<1>1. call \in [Windows -> Call] /\ edit \in [Windows -> WEdit]
  BY CallsNow
<1>2. Idle \in Call /\ Idle.at = "idle" /\ ~Idle.save_lock
  BY DEF Idle, Call
<1>3. call' \in [Windows -> Call] /\ call'[w] = Idle /\ \A v \in Windows : v # w => call'[v] = call[v]
  <2> HIDE DEF Idle
  <2> QED BY <1>1, <1>2 DEF Return
<1>4. edit' \in [Windows -> WEdit]
  BY ZenonT(60), <1>1 DEF WEdit
<1>5. \A v \in Windows : v # w => edit'[v] = edit[v]
  BY <1>1 DEF WEdit
<1>6. edit'[w].filename = edit[w].filename
  BY <1>1 DEF WEdit
<1>7. edit'[w].locked = result
  BY <1>1 DEF WEdit
<1>8. edit'[w].modified /\ edit'[w].open
  BY <1>1 DEF WEdit
<1>9. edit[w].filename \in Files
  BY CallsNow DEF WindowOK
<1>10. Idle.at \notin LockSteps \cup UnlockSteps \cup {"save_file", "ask_name"}
  BY <1>2 DEF LockSteps, UnlockSteps
<1>11. WindowOK(call'[w], edit'[w])
  BY <1>2, <1>3, <1>6, <1>7, <1>8, <1>9, <1>10 DEF WindowOK
<1> QED BY <1>3, <1>4, <1>5, <1>6, <1>7, <1>11

(* Back from a call made for a save. *)
LEMMA ReturnsToSave ==
  ASSUME CallInv, NEW w \in Windows, NEW result \in BOOLEAN, call[w].at \in LockSteps,
         call' = [call EXCEPT ![w].at = "save_file", ![w].save_lock = result,
                              ![w].file = NoFile, ![w].seen = NoProcess]
  PROVE  /\ call' \in [Windows -> Call]
         /\ \A v \in Windows : v # w => call'[v] = call[v]
         /\ call'[w].at = "save_file" /\ call'[w].why = call[w].why
         /\ call'[w].exp = call[w].exp /\ call'[w].save_lock = result
<1>1. call \in [Windows -> Call]
  BY CallsNow
<1>2. call' \in [Windows -> Call]
  <2>1. PICK d1 : d1 = WithAt(call, w, "save_file") OBVIOUS
  <2>2. PICK d2 : d2 = WithSaveLock(d1, w, result) OBVIOUS
  <2>3. PICK d3 : d3 = WithFile(d2, w, NoFile) OBVIOUS
  <2>4. d1 \in [Windows -> Call] BY <1>1, <2>1, CallWith
  <2>5. d2 \in [Windows -> Call] BY <2>2, <2>4, CallWith
  <2>6. d3 \in [Windows -> Call] BY <2>3, <2>5, CallWith
  <2>7. WithSeen(d3, w, NoProcess) \in [Windows -> Call] BY <2>6, CallWith
  <2>8. call' = WithSeen(d3, w, NoProcess)
    BY <2>1, <2>2, <2>3 DEF WithAt, WithSaveLock, WithFile, WithSeen
  <2> QED BY <2>7, <2>8
<1>3. \A v \in Windows : v # w => call'[v] = call[v]
  BY <1>1 DEF Call
<1>4. call'[w].at = "save_file" /\ call'[w].why = call[w].why
  BY ZenonT(60), <1>1 DEF Call
<1>5. call'[w].exp = call[w].exp
  BY ZenonT(60), <1>1 DEF Call
<1>6. call'[w].save_lock = result
  BY <1>1 DEF Call
<1> QED BY <1>2, <1>3, <1>4, <1>5, <1>6

(* When lock_file returns, the window holds the lock it asked for if it has *)
(* got it, and what it held before.                                         *)
LEMMA LockReturned ==
  ASSUME CallInv, NEW w \in Windows, NEW result \in BOOLEAN, call[w].at \in LockSteps,
         LockReturns(w, result)
  PROVE  /\ call' \in [Windows -> Call] /\ edit' \in [Windows -> WEdit]
         /\ \A v \in Windows : v # w => call'[v] = call[v] /\ edit'[v] = edit[v]
         /\ WindowOK(call'[w], edit'[w])
         /\ \A f \in Files : Holds(w, f)' <=> Holds(w, f) \/ (result /\ f = call[w].file)
         /\ call'[w].at # "unlink" /\ call'[w].why \in {"", call[w].why}
<1>1. LockingOK(call[w], edit[w]) /\ WindowOK(call[w], edit[w])
  BY CallsNow DEF WindowOK
<1>2. edit[w].open
  <2>1. Idle.at = "idle" /\ call[w].at # "idle" BY DEF Idle, LockSteps
  <2> QED BY <1>1, <2>1 DEF WindowOK
<1>3. CASE /\ call[w].why = "modification" /\ Return(w)
           /\ edit' = [edit EXCEPT ![w].locked = result, ![w].modified = TRUE]
  <2>1. /\ call' \in [Windows -> Call] /\ edit' \in [Windows -> WEdit]
        /\ \A v \in Windows : v # w => call'[v] = call[v] /\ edit'[v] = edit[v]
        /\ call'[w] = Idle /\ edit'[w].filename = edit[w].filename
        /\ edit'[w].locked = result /\ WindowOK(call'[w], edit'[w])
    BY <1>2, <1>3, ReturnsModified
  <2>2. Idle.at = "idle" /\ Idle.why = "" /\ ~Idle.save_lock
    BY DEF Idle
  <2>3. ~edit[w].locked /\ ~call[w].save_lock /\ call[w].file = edit[w].filename
    BY <1>1, <1>3 DEF LockingOK, WindowOK
  <2>4. \A f \in Files : Holds(w, f)' <=> Holds(w, f) \/ (result /\ f = call[w].file)
    BY <2>1, <2>2, <2>3 DEF Holds
  <2> QED BY <2>1, <2>2, <2>4
<1>4. CASE /\ call[w].why # "modification" /\ UNCHANGED edit
           /\ call' = [call EXCEPT ![w].at = "save_file", ![w].save_lock = result,
                                   ![w].file = NoFile, ![w].seen = NoProcess]
  <2>1. /\ call' \in [Windows -> Call]
        /\ \A v \in Windows : v # w => call'[v] = call[v]
        /\ call'[w].at = "save_file" /\ call'[w].why = call[w].why
        /\ call'[w].exp = call[w].exp /\ call'[w].save_lock = result
    BY <1>4, ReturnsToSave
  <2>2. /\ call[w].why \in {"save", "save_as"} /\ call[w].file = call[w].exp
        /\ call[w].file \in Files /\ ~call[w].save_lock
        /\ call[w].exp = edit[w].filename => ~edit[w].locked
        /\ call[w].why = "save" => call[w].exp = edit[w].filename
    BY <1>1, <1>4 DEF LockingOK
  <2>3. SavingOK(call'[w], edit[w])
    BY <2>1, <2>2 DEF SavingOK
  <2>4. "save_file" \notin LockSteps \cup UnlockSteps
    BY DEF LockSteps, UnlockSteps
  <2>5. WindowOK(call'[w], edit[w])
    BY <1>1, <1>2, <2>1, <2>2, <2>3, <2>4 DEF WindowOK
  <2>6. \A f \in Files : Holds(w, f)' <=> Holds(w, f) \/ (result /\ f = call[w].file)
    BY <1>4, <2>1, <2>2 DEF Holds
  <2> QED BY <1>4, <2>1, <2>5, <2>6, CallsNow
<1> QED BY <1>3, <1>4 DEF LockReturns

LEMMA LockFails ==
  ASSUME CallInv, NEW w \in Windows, call[w].at \in LockSteps, LockReturns(w, FALSE),
         UNCHANGED <<link, process, disturbed>>
  PROVE  Step(w)
<1>1. Calm /\ OneHost /\ disturbed' = {} => call'[w].why # "close"
  BY LockReturned, CallsNow
<1> QED BY <1>1, LockReturned, CallsNow, QuietStep

LEMMA LockSucceeds ==
  ASSUME CallInv, NEW w \in Windows, call[w].at \in LockSteps, LockReturns(w, TRUE),
         Link(w) = NoProcess, SetLink(w, Owner[w]), UNCHANGED <<process, disturbed>>
  PROVE  Step(w)
<1>1. Calm /\ OneHost /\ disturbed' = {} => call'[w].why # "close"
  BY LockReturned, CallsNow
<1>2. call[w].file \in Files /\ link' = [link EXCEPT ![call[w].file] = Owner[w]]
  BY CallsNow DEF WindowOK, LockingOK, SetLink
<1>3. link' \in [Files -> Processes \cup {NoProcess}]
  BY <1>2, CallsNow
<1>4. ASSUME NEW f \in Files PROVE LinkStep(w, f)
  <2>1. CASE f = call[w].file
    BY <1>2, <2>1, LockReturned, CallsNow DEF LinkStep, Taken, Link
  <2>2. CASE f # call[w].file
    BY <1>2, <2>2, LockReturned, CallsNow DEF LinkStep, Kept
  <2> QED BY <2>1, <2>2
<1> QED BY <1>1, <1>3, <1>4, LockReturned, CallsNow DEF Step

LEMMA LockCallsStep ==
  ASSUME CallInv, NEW w \in Windows, LockCalls(w)
  PROVE  Step(w)
<1>1. CASE lock_lstat(w) BY <1>1, LockLstat
<1>2. CASE lock_readlink(w)
  <2>1. At(w, "readlink") /\ call[w].at \in LockSteps
    BY <1>2 DEF lock_readlink, At, LockSteps
  <2> QED BY <1>2, <2>1, LockFails, LockReadlinkSees DEF lock_readlink
<1>3. CASE lock_kill(w) BY <1>3, LockKill
<1>4. CASE lock_query_grab(w) BY <1>4, LockQueryGrab
<1>5. CASE lock_query_ignore(w)
  <2>1. call[w].at \in LockSteps
    BY <1>5 DEF lock_query_ignore, At, LockSteps
  <2> QED BY <1>5, <2>1, LockFails DEF lock_query_ignore
<1>6. CASE lock_unlink(w) BY <1>6, LockUnlink
<1>7. CASE lock_symlink(w)
  <2>1. call[w].at \in LockSteps
    BY <1>7 DEF lock_symlink, At, LockSteps
  <2>2. CASE Link(w) = NoProcess
    BY <1>7, <2>1, <2>2, LockSucceeds DEF lock_symlink
  <2>3. CASE Link(w) # NoProcess
    BY <1>7, <2>1, <2>3, LockFails DEF lock_symlink
  <2> QED BY <2>2, <2>3
<1> QED BY <1>1, <1>2, <1>3, <1>4, <1>5, <1>6, <1>7 DEF LockCalls

-----------------------------------------------------------------------------
(* What the calls and fields of a window are after each way to return.      *)

LEMMA IdleOK ==
  /\ Idle \in Call /\ Idle.at = "idle" /\ Idle.why = "" /\ ~Idle.save_lock
  /\ NoEdit \in WEdit /\ ~NoEdit.open /\ ~NoEdit.locked /\ WindowOK(Idle, NoEdit)
  /\ \A e \in WEdit : e.open /\ e.filename \in Files /\ (e.locked => e.modified) => WindowOK(Idle, e)
<1>1. Idle \in Call /\ Idle.at = "idle" /\ Idle.why = "" /\ ~Idle.save_lock
  BY DEF Idle, Call
<1>2. NoEdit \in WEdit /\ ~NoEdit.open /\ ~NoEdit.locked
  BY DEF NoEdit, WEdit
<1>3. Idle.at \notin LockSteps \cup UnlockSteps \cup {"save_file", "ask_name"}
  BY <1>1 DEF LockSteps, UnlockSteps
<1> QED BY <1>1, <1>2, <1>3 DEF WindowOK

LEMMA Returns ==
  ASSUME CallInv, NEW w \in Windows, Return(w)
  PROVE  /\ call' \in [Windows -> Call] /\ call'[w] = Idle
         /\ \A v \in Windows : v # w => call'[v] = call[v]
BY CallsNow, IdleOK DEF Return

LEMMA Asks ==
  ASSUME CallInv, NEW w \in Windows, AskName(w), NEW e \in WEdit,
         e.open, e.filename \in Files, e.locked => e.modified
  PROVE  /\ call' \in [Windows -> Call] /\ call'[w].why = "" /\ ~call'[w].save_lock
         /\ call'[w].at # "unlink"
         /\ \A v \in Windows : v # w => call'[v] = call[v]
         /\ WindowOK(call'[w], e)
<1>1. PICK c : c = [Idle EXCEPT !.at = "ask_name"]
  OBVIOUS
<1>2. c = [at |-> "ask_name", why |-> "", file |-> NoFile,
           seen |-> NoProcess, exp |-> NoFile, save_lock |-> FALSE]
  BY <1>1 DEF Idle
<1>3. c \in Call /\ c.at = "ask_name" /\ c.why = "" /\ ~c.save_lock
  BY <1>2 DEF Call
<1>4. call' = [call EXCEPT ![w] = c]
  BY <1>1 DEF AskName
<1>5. call' \in [Windows -> Call] /\ call'[w] = c /\ \A v \in Windows : v # w => call'[v] = call[v]
  BY <1>3, <1>4, CallsNow
<1>6. "ask_name" \notin LockSteps \cup UnlockSteps \cup {"save_file", "idle", "unlink"}
  BY DEF LockSteps, UnlockSteps
<1>7. WindowOK(c, e)
  BY <1>3, <1>6 DEF WindowOK
<1> QED BY <1>3, <1>5, <1>6, <1>7

(* The same of the fields of a WEdit. *)
WithFilename(d, w, x) == [d EXCEPT ![w].filename = x]
WithModified(d, w, x) == [d EXCEPT ![w].modified = x]
WithDeleteFile(d, w, x) == [d EXCEPT ![w].delete_file = x]
WithLocked(d, w, x) == [d EXCEPT ![w].locked = x]

LEMMA EditWith ==
  ASSUME NEW d \in [Windows -> WEdit], NEW w \in Windows
  PROVE  /\ \A x \in Files : WithFilename(d, w, x) \in [Windows -> WEdit]
         /\ \A x \in BOOLEAN : WithModified(d, w, x) \in [Windows -> WEdit]
         /\ \A x \in BOOLEAN : WithDeleteFile(d, w, x) \in [Windows -> WEdit]
         /\ \A x \in BOOLEAN : WithLocked(d, w, x) \in [Windows -> WEdit]
<1>1. \A x \in Files : WithFilename(d, w, x) \in [Windows -> WEdit]
  BY DEF WEdit, WithFilename
<1>2. \A x \in BOOLEAN : WithModified(d, w, x) \in [Windows -> WEdit]
  BY DEF WEdit, WithModified
<1>3. \A x \in BOOLEAN : WithDeleteFile(d, w, x) \in [Windows -> WEdit]
  BY DEF WEdit, WithDeleteFile
<1>4. \A x \in BOOLEAN : WithLocked(d, w, x) \in [Windows -> WEdit]
  BY DEF WEdit, WithLocked
<1> QED BY <1>1, <1>2, <1>3, <1>4

LEMMA SavedFields ==
  ASSUME CallInv, NEW w \in Windows, Saved(w), edit[w].open, call[w].exp \in Files
  PROVE  /\ call' \in [Windows -> Call] /\ edit' \in [Windows -> WEdit]
         /\ \A v \in Windows : v # w => call'[v] = call[v] /\ edit'[v] = edit[v]
         /\ call'[w] = Idle /\ ~edit'[w].locked /\ WindowOK(call'[w], edit'[w])
<1>1. call' \in [Windows -> Call] /\ call'[w] = Idle /\ \A v \in Windows : v # w => call'[v] = call[v]
  BY Returns DEF Saved
<1>2. PICK f \in Files : f = call[w].exp
  OBVIOUS
<1>3. edit' = [edit EXCEPT ![w].filename = f, ![w].modified = FALSE,
                           ![w].delete_file = FALSE, ![w].locked = FALSE]
  BY <1>2 DEF Saved
<1>4. edit \in [Windows -> WEdit]
  BY CallsNow
<1>5. edit' \in [Windows -> WEdit]
  <2>1. PICK d1 : d1 = WithFilename(edit, w, f) OBVIOUS
  <2>2. PICK d2 : d2 = WithModified(d1, w, FALSE) OBVIOUS
  <2>3. PICK d3 : d3 = WithDeleteFile(d2, w, FALSE) OBVIOUS
  <2>4. d1 \in [Windows -> WEdit] BY <1>4, <2>1, EditWith
  <2>5. d2 \in [Windows -> WEdit] BY <2>2, <2>4, EditWith
  <2>6. d3 \in [Windows -> WEdit] BY <2>3, <2>5, EditWith
  <2>7. WithLocked(d3, w, FALSE) \in [Windows -> WEdit] BY <2>6, EditWith
  <2>8. edit' = WithLocked(d3, w, FALSE)
    BY <1>3, <2>1, <2>2, <2>3 DEF WithFilename, WithModified, WithDeleteFile, WithLocked
  <2> QED BY <2>7, <2>8
<1>6. \A v \in Windows : v # w => edit'[v] = edit[v]
  BY <1>3, <1>4 DEF WEdit
<1>7. edit'[w].open /\ ~edit'[w].locked
  BY <1>3, <1>4 DEF WEdit
<1>8. edit'[w].filename = f
  BY <1>3, <1>4 DEF WEdit
<1> QED BY <1>1, <1>5, <1>6, <1>7, <1>8, IdleOK

LEMMA UnlockedFields ==
  ASSUME CallInv, NEW w \in Windows, Unlocked(w), edit[w].open
  PROVE  /\ edit' \in [Windows -> WEdit]
         /\ \A v \in Windows : v # w => edit'[v] = edit[v]
         /\ edit'[w].open /\ edit'[w].filename \in Files /\ ~edit'[w].locked
<1>1. edit \in [Windows -> WEdit] /\ edit[w].filename \in Files
  BY CallsNow DEF WindowOK
<1>2. edit' \in [Windows -> WEdit]
  BY <1>1 DEF WEdit, Unlocked
<1>3. \A v \in Windows : v # w => edit'[v] = edit[v]
  BY <1>1 DEF WEdit, Unlocked
<1>4. edit'[w].open /\ ~edit'[w].locked
  BY <1>1 DEF WEdit, Unlocked
<1>5. edit'[w].filename = edit[w].filename
  BY <1>1 DEF WEdit, Unlocked
<1> QED BY <1>1, <1>2, <1>3, <1>4, <1>5

LEMMA ClosedFields ==
  ASSUME CallInv, NEW w \in Windows, Closed(w)
  PROVE  /\ call' \in [Windows -> Call] /\ edit' \in [Windows -> WEdit]
         /\ \A v \in Windows : v # w => call'[v] = call[v] /\ edit'[v] = edit[v]
         /\ call'[w] = Idle /\ edit'[w] = NoEdit /\ WindowOK(call'[w], edit'[w])
<1>1. call' \in [Windows -> Call] /\ call'[w] = Idle /\ \A v \in Windows : v # w => call'[v] = call[v]
  BY Returns DEF Closed
<1>2. edit' = [edit EXCEPT ![w] = NoEdit]
  BY DEF Closed
<1>3. edit' \in [Windows -> WEdit] /\ edit'[w] = NoEdit /\ \A v \in Windows : v # w => edit'[v] = edit[v]
  BY <1>2, CallsNow, IdleOK
<1> QED BY <1>1, <1>3, IdleOK

(* unlock_file, called by the window with its save lock kept or dropped. *)
UnlockWhys == {"saved", "save cancelled", "save failed", "save_as failed",
               "saved under new name", "close", "clean"}

LEMMA UnlockFields ==
  ASSUME CallInv, NEW w \in Windows, NEW f \in Files, NEW why \in UnlockWhys, unlock_file(w, f, why)
  PROVE  /\ call' \in [Windows -> Call]
         /\ \A v \in Windows : v # w => call'[v] = call[v]
         /\ call'[w].at = "unlock_lstat" /\ call'[w].why = why
         /\ call'[w].file = f /\ call'[w].exp = call[w].exp
         /\ call'[w].save_lock = call[w].save_lock
<1>1. call \in [Windows -> Call]
  BY CallsNow
<1>2. call' = [call EXCEPT ![w].at = "unlock_lstat", ![w].file = f, ![w].why = why]
  BY DEF unlock_file
<1>3. call' \in [Windows -> Call]
  <2>1. PICK d1 : d1 = WithAt(call, w, "unlock_lstat") OBVIOUS
  <2>2. PICK d2 : d2 = WithFile(d1, w, f) OBVIOUS
  <2>3. d1 \in [Windows -> Call] BY <1>1, <2>1, CallWith DEF UnlockSteps
  <2>4. d2 \in [Windows -> Call] BY <2>2, <2>3, CallWith
  <2>5. WithWhy(d2, w, why) \in [Windows -> Call] BY <2>4, CallWith DEF UnlockWhys
  <2>6. call' = WithWhy(d2, w, why)
    BY <1>2, <2>1, <2>2 DEF WithAt, WithFile, WithWhy
  <2> QED BY <2>5, <2>6
<1>4. \A v \in Windows : v # w => call'[v] = call[v]
  BY <1>1, <1>2
<1>5. call[w] \in Call
  BY <1>1
<1>6. call'[w] = [call[w] EXCEPT !.at = "unlock_lstat", !.file = f, !.why = why]
  BY <1>1, <1>2
<1>7. call'[w].at = "unlock_lstat" /\ call'[w].why = why
  BY <1>5, <1>6 DEF Call
<1>8. call'[w].file = f
  BY <1>5, <1>6 DEF Call
<1>9. call'[w].exp = call[w].exp
  BY <1>5, <1>6 DEF Call
<1>10. call'[w].save_lock = call[w].save_lock
  BY <1>5, <1>6 DEF Call
<1> QED BY <1>3, <1>4, <1>7, <1>8, <1>9, <1>10

LEMMA UnlockAgainFields ==
  ASSUME CallInv, NEW w \in Windows, NEW why \in UnlockWhys, UnlockAgain(w, why),
         edit[w].filename \in Files
  PROVE  /\ call' \in [Windows -> Call]
         /\ \A v \in Windows : v # w => call'[v] = call[v]
         /\ call'[w].at = "unlock_lstat" /\ call'[w].why = why
         /\ call'[w].file = edit[w].filename /\ call'[w].exp = call[w].exp
         /\ ~call'[w].save_lock
<1>1. call \in [Windows -> Call]
  BY CallsNow
<1>2. PICK f \in Files : f = edit[w].filename
  OBVIOUS
<1>3. call' = [call EXCEPT ![w].at = "unlock_lstat", ![w].why = why,
                           ![w].file = f, ![w].save_lock = FALSE]
  BY <1>2 DEF UnlockAgain
<1>4. call' \in [Windows -> Call]
  <2>1. PICK d1 : d1 = WithAt(call, w, "unlock_lstat") OBVIOUS
  <2>2. PICK d2 : d2 = WithWhy(d1, w, why) OBVIOUS
  <2>3. PICK d3 : d3 = WithFile(d2, w, f) OBVIOUS
  <2>4. d1 \in [Windows -> Call] BY <1>1, <2>1, CallWith DEF UnlockSteps
  <2>5. d2 \in [Windows -> Call] BY <2>2, <2>4, CallWith DEF UnlockWhys
  <2>6. d3 \in [Windows -> Call] BY <2>3, <2>5, CallWith
  <2>7. WithSaveLock(d3, w, FALSE) \in [Windows -> Call] BY <2>6, CallWith
  <2>8. call' = WithSaveLock(d3, w, FALSE)
    BY <1>3, <2>1, <2>2, <2>3 DEF WithAt, WithWhy, WithFile, WithSaveLock
  <2> QED BY <2>7, <2>8
<1>5. \A v \in Windows : v # w => call'[v] = call[v]
  BY <1>1, <1>3 DEF Call
<1>6. call'[w].at = "unlock_lstat" /\ call'[w].why = why
  BY ZenonT(60), <1>1, <1>3 DEF Call
<1>7. call'[w].file = f /\ call'[w].exp = call[w].exp
  BY ZenonT(60), <1>1, <1>3 DEF Call
<1>8. ~call'[w].save_lock
  BY <1>1, <1>3 DEF Call
<1> QED BY <1>2, <1>4, <1>5, <1>6, <1>7, <1>8

-----------------------------------------------------------------------------
(* When unlock_file returns, the link does not name the window's process    *)
(* any more, and the window does not hold the lock.                         *)

LEMMA UnlockReturned ==
  ASSUME CallInv, NEW w \in Windows, call[w].at \in UnlockSteps, UnlockReturns(w),
         link' \in [Files -> Processes \cup {NoProcess}],
         \A f \in Files : f # call[w].file => link'[f] = link[f],
         link'[call[w].file] \in {link[call[w].file], NoProcess},
         link'[call[w].file] # Owner[w],
         UNCHANGED <<process, disturbed>>
  PROVE  Step(w)
<1>1. /\ UnlockingOK(call[w], edit[w]) /\ WindowOK(call[w], edit[w])
      /\ edit[w] \in WEdit /\ edit[w].open /\ edit[w].filename \in Files
  <2>1. Idle.at = "idle" /\ call[w].at # "idle" BY DEF Idle, UnlockSteps
  <2> QED BY <2>1, CallsNow DEF WindowOK
<1>0. PICK g : g = call[w].file
  OBVIOUS
<1> DEFINE GivesBack ==
             /\ Holds(w, g) /\ ~Holds(w, g)'
             /\ \A f \in Files : f # g => (Holds(w, f)' <=> Holds(w, f))
           Holding == \A f \in Files : Holds(w, f)' <=> Holds(w, f)
<1>2. SUFFICES
        /\ call' \in [Windows -> Call] /\ edit' \in [Windows -> WEdit]
        /\ \A v \in Windows : v # w => call'[v] = call[v] /\ edit'[v] = edit[v]
        /\ WindowOK(call'[w], edit'[w])
        /\ call'[w].at # "unlink"
        /\ Calm /\ OneHost /\ disturbed' = {} => call'[w].why # "close"
        /\ \/ GivesBack
           \/ Holding /\ (link' = link \/ (call[w].why = "close" /\ link'[call[w].file] = NoProcess))
  <2>1. ASSUME NEW f \in Files, GivesBack PROVE LinkStep(w, f)
    <3>1. CASE f = g BY <1>0, <2>1, <3>1 DEF LinkStep, GivenBack
    <3>2. CASE f # g BY <1>0, <2>1, <3>2 DEF LinkStep, Kept
    <3> QED BY <3>1, <3>2
  <2>2. ASSUME NEW f \in Files, Holding, link' = link PROVE LinkStep(w, f)
    BY <2>2 DEF LinkStep, Kept
  <2>3. ASSUME NEW f \in Files, Holding, call[w].why = "close", link'[call[w].file] = NoProcess
        PROVE  LinkStep(w, f)
    <3>1. CASE f = call[w].file BY <2>3, <3>1 DEF LinkStep, Removed
    <3>2. CASE f # call[w].file BY <2>3, <3>2 DEF LinkStep, Kept
    <3> QED BY <3>1, <3>2
  <2>4. \A f \in Files : LinkStep(w, f)
    <3> HIDE DEF GivesBack, Holding
    <3> QED BY <2>1, <2>2, <2>3
  <2> HIDE DEF GivesBack, Holding
  <2> QED BY <2>4, CallsNow DEF Step
<1> HIDE <1>2
<1>3. CASE call[w].why = "saved" /\ Saved(w)
  <2>1. /\ call[w].exp \in Files /\ call[w].file = edit[w].filename
        /\ call[w].save_lock => call[w].exp = edit[w].filename
        /\ edit[w].locked \/ call[w].save_lock
    BY <1>1, <1>3 DEF UnlockingOK
  <2> QED BY <1>0, <1>1, <1>3, <2>1, SavedFields, IdleOK DEF Holds
<1>4. CASE call[w].why = "save cancelled" /\ Return(w) /\ Unlocked(w)
  <2>1. call[w].save_lock /\ call[w].file = edit[w].filename /\ call[w].exp = edit[w].filename
    BY <1>1, <1>4 DEF UnlockingOK
  <2>2. WindowOK(call'[w], edit'[w])
    BY <1>1, <1>4, Returns, UnlockedFields, IdleOK
  <2> QED BY <1>0, <1>1, <1>4, <2>1, <2>2, Returns, UnlockedFields, IdleOK DEF Holds
<1>5. CASE call[w].why = "save failed" /\ AskName(w) /\ Unlocked(w)
  <2>1. call[w].save_lock /\ call[w].file = edit[w].filename /\ call[w].exp = edit[w].filename
    BY <1>1, <1>5 DEF UnlockingOK
  <2>2. /\ edit' \in [Windows -> WEdit] /\ edit'[w] \in WEdit
        /\ edit'[w].open /\ edit'[w].filename \in Files /\ ~edit'[w].locked
        /\ \A v \in Windows : v # w => edit'[v] = edit[v]
    BY <1>1, <1>5, UnlockedFields
  <2>3. /\ call' \in [Windows -> Call] /\ call'[w].why = "" /\ ~call'[w].save_lock
        /\ call'[w].at # "unlink"
        /\ \A v \in Windows : v # w => call'[v] = call[v]
        /\ WindowOK(call'[w], edit'[w])
    BY <1>5, <2>2, Asks
  <2> QED BY <1>0, <2>1, <2>2, <2>3 DEF Holds
<1>6. CASE call[w].why = "save_as failed" /\ Return(w) /\ UNCHANGED edit
  <2>1. call[w].save_lock /\ call[w].file = call[w].exp
    BY <1>1, <1>6 DEF UnlockingOK
  <2>2. call[w].exp = edit[w].filename => ~edit[w].locked
    BY <1>1, <2>1 DEF WindowOK
  <2>3. edit[w].locked => edit[w].modified
    BY <1>1 DEF WindowOK
  <2>4. WindowOK(call'[w], edit'[w])
    BY <1>1, <1>6, <2>3, Returns, IdleOK
  <2>5. GivesBack
    BY <1>0, <1>6, <2>1, <2>2, Returns, IdleOK DEF Holds
  <2> HIDE DEF GivesBack
  <2> QED BY <1>6, <2>4, <2>5, Returns, IdleOK, CallsNow
<1>7. CASE call[w].why = "saved under new name" /\ ~edit[w].locked /\ Saved(w)
  <2>1. call[w].save_lock /\ call[w].file = call[w].exp /\ call[w].exp \in Files
    BY <1>1, <1>7 DEF UnlockingOK
  <2> QED BY <1>0, <1>1, <1>7, <2>1, SavedFields, IdleOK DEF Holds
<1>8. CASE call[w].why = "saved under new name" /\ edit[w].locked /\ UnlockAgain(w, "saved")
  <2>1. /\ call[w].save_lock /\ call[w].file = call[w].exp
        /\ call[w].exp \in Files /\ call[w].exp # edit[w].filename
    BY <1>1, <1>8 DEF UnlockingOK
  <2>2. /\ call' \in [Windows -> Call]
        /\ \A v \in Windows : v # w => call'[v] = call[v]
        /\ call'[w].at = "unlock_lstat" /\ call'[w].why = "saved"
        /\ call'[w].file = edit[w].filename /\ call'[w].exp = call[w].exp
        /\ ~call'[w].save_lock
    BY <1>1, <1>8, UnlockAgainFields DEF UnlockWhys
  <2>3. edit' = edit
    BY <1>8 DEF UnlockAgain
  <2>4. UnlockingOK(call'[w], edit[w])
    BY <1>1, <1>8, <2>1, <2>2 DEF UnlockingOK
  <2>5. WindowOK(call'[w], edit'[w])
    BY <1>1, <2>2, <2>3, <2>4 DEF WindowOK, LockSteps
  <2>6. GivesBack
    BY <1>0, <2>1, <2>2, <2>3 DEF Holds
  <2> HIDE DEF GivesBack
  <2> QED BY <1>8, <2>2, <2>3, <2>5, <2>6, CallsNow
<1>9. CASE call[w].why = "close" /\ UnlockAgain(w, "clean")
  <2>1. ~call[w].save_lock /\ call[w].file = edit[w].filename /\ edit[w].locked
    BY <1>1, <1>9 DEF UnlockingOK
  <2>2. /\ call' \in [Windows -> Call]
        /\ \A v \in Windows : v # w => call'[v] = call[v]
        /\ call'[w].at = "unlock_lstat" /\ call'[w].why = "clean"
        /\ call'[w].file = edit[w].filename /\ call'[w].exp = call[w].exp
        /\ ~call'[w].save_lock
    BY <1>1, <1>9, UnlockAgainFields DEF UnlockWhys
  <2>3. edit' = edit
    BY <1>9 DEF UnlockAgain
  <2>4. UnlockingOK(call'[w], edit[w])
    BY <1>1, <2>1, <2>2 DEF UnlockingOK
  <2>5. WindowOK(call'[w], edit'[w])
    BY <1>1, <2>2, <2>3, <2>4 DEF WindowOK, LockSteps
  <2>6. \A f \in Files : Holds(w, f)' <=> Holds(w, f)
    BY <2>1, <2>2, <2>3 DEF Holds
  <2>7. link'[call[w].file] = NoProcess \/ link' = link
    BY <1>1, <2>1, CallsNow
  <2> QED BY <1>9, <2>2, <2>3, <2>5, <2>6, <2>7, CallsNow
<1>10. CASE call[w].why = "clean" /\ Closed(w)
  <2>1. ~call[w].save_lock /\ call[w].file = edit[w].filename /\ edit[w].locked
    BY <1>1, <1>10 DEF UnlockingOK
  <2> QED BY <1>0, <1>1, <1>10, <2>1, ClosedFields, IdleOK DEF Holds
<1> QED BY <1>2, <1>3, <1>4, <1>5, <1>6, <1>7, <1>8, <1>9, <1>10 DEF UnlockReturns

LEMMA UnlockGoesOn ==
  ASSUME CallInv, NEW w \in Windows, call[w].at \in UnlockSteps, NEW s \in UnlockSteps, Goto(w, s),
         UNCHANGED <<link, process, edit, disturbed>>
  PROVE  Step(w)
<1>1. UnlockingOK(call[w], edit[w]) /\ WindowOK(call[w], edit[w]) /\ edit[w].open
  <2>1. Idle.at = "idle" /\ call[w].at # "idle" BY DEF Idle, UnlockSteps
  <2> QED BY <2>1, CallsNow DEF WindowOK
<1>2. /\ call' \in [Windows -> Call]
      /\ \A v \in Windows : v # w => call'[v] = call[v]
      /\ call'[w].at = s /\ call'[w].why = call[w].why
      /\ call'[w].file = call[w].file /\ call'[w].exp = call[w].exp
      /\ call'[w].save_lock = call[w].save_lock
  BY Goes
<1>3. UnlockingOK(call'[w], edit[w])
  BY <1>1, <1>2 DEF UnlockingOK
<1>4. s \notin LockSteps \cup {"idle", "save_file", "ask_name"}
  BY DEF LockSteps, UnlockSteps
<1>5. WindowOK(call'[w], edit[w]) /\ s # "unlink"
  BY <1>1, <1>2, <1>3, <1>4 DEF WindowOK, LockSteps
<1>6. \A f \in Files : Holds(w, f)' <=> Holds(w, f)
  BY <1>2 DEF Holds
<1> QED BY <1>2, <1>5, <1>6, CallsNow, QuietStep

LEMMA UnlockCallsStep ==
  ASSUME CallInv, NEW w \in Windows, UnlockCalls(w)
  PROVE  Step(w)
<1>1. call[w].at \in UnlockSteps /\ UNCHANGED <<process, disturbed>>
  BY DEF UnlockCalls, unlock_lstat, unlock_readlink, unlock_unlink, At, UnlockSteps
<1>2. call[w].file \in Files
  BY <1>1, CallsNow DEF WindowOK, UnlockingOK
<1>3. Owner[w] # NoProcess
  BY CallsNow, NoneAssumption
<1>4. CASE UnlockReturns(w) /\ link' = link /\ Link(w) # Owner[w]
  BY <1>1, <1>4, CallsNow, UnlockReturned DEF Link
<1>5. CASE unlock_lstat(w)
  <2>1. CASE Link(w) = NoProcess /\ UnlockReturns(w)
    BY <1>3, <1>4, <1>5, <2>1 DEF unlock_lstat
  <2>2. CASE Goto(w, "unlock_readlink") /\ UNCHANGED edit
    BY <1>1, <1>5, <2>2, UnlockGoesOn DEF unlock_lstat, UnlockSteps
  <2> QED BY <1>5, <2>1, <2>2 DEF unlock_lstat
<1>6. CASE unlock_readlink(w)
  <2>1. CASE ~Ours(w, Link(w)) /\ UnlockReturns(w)
    <3>1. Link(w) # Owner[w] BY <2>1 DEF Ours
    <3> QED BY <1>4, <1>6, <2>1, <3>1 DEF unlock_readlink
  <2>2. CASE Goto(w, "unlock_unlink") /\ UNCHANGED edit
    BY <1>1, <1>6, <2>2, UnlockGoesOn DEF unlock_readlink, UnlockSteps
  <2> QED BY <1>6, <2>1, <2>2 DEF unlock_readlink
<1>7. CASE unlock_unlink(w)
  <2>1. link' = [link EXCEPT ![call[w].file] = NoProcess] /\ UnlockReturns(w)
    BY <1>7 DEF unlock_unlink, SetLink
  <2>2. /\ link' \in [Files -> Processes \cup {NoProcess}]
        /\ link'[call[w].file] = NoProcess
        /\ \A f \in Files : f # call[w].file => link'[f] = link[f]
    BY <1>2, <2>1, CallsNow
  <2> QED BY <1>1, <1>3, <2>1, <2>2, UnlockReturned
<1> QED BY <1>5, <1>6, <1>7 DEF UnlockCalls

-----------------------------------------------------------------------------
(* Each command of the user is such a step.                                 *)

LEMMA Open ==
  ASSUME CallInv, NEW w \in Windows, NEW f \in Files, NEW new \in BOOLEAN, open(w, f, new)
  PROVE  Step(w)
<1>1. PICK e : e = [NoEdit EXCEPT !.open = TRUE, !.filename = f, !.delete_file = new]
  OBVIOUS
<1>2. e = [open |-> TRUE, filename |-> f, modified |-> FALSE, delete_file |-> new, locked |-> FALSE]
  BY <1>1 DEF NoEdit
<1>3. e \in WEdit /\ e.open /\ e.filename = f /\ ~e.locked
  BY <1>2 DEF WEdit
<1>4. edit' = [edit EXCEPT ![w] = e] /\ UNCHANGED <<link, process, call, disturbed>>
  BY <1>1 DEF open
<1>5. call[w] = Idle /\ edit[w] = NoEdit
  BY CallsNow DEF open, WindowOK
<1>6. edit' \in [Windows -> WEdit] /\ edit'[w] = e /\ \A v \in Windows : v # w => edit'[v] = edit[v]
  BY <1>3, <1>4, CallsNow
<1>7. WindowOK(call'[w], edit'[w])
  BY <1>3, <1>4, <1>5, <1>6, IdleOK
<1>8. \A g \in Files : Holds(w, g)' <=> Holds(w, g)
  BY <1>3, <1>4, <1>5, <1>6, IdleOK DEF Holds
<1> QED BY <1>4, <1>6, <1>7, <1>8, CallsNow, QuietStep

LEMMA LockFileFields ==
  ASSUME CallInv, NEW w \in Windows, NEW f \in Files, lock_file(w, f, "modification"), call[w] = Idle
  PROVE  /\ call' \in [Windows -> Call]
         /\ \A v \in Windows : v # w => call'[v] = call[v]
         /\ call'[w].at = "lstat" /\ call'[w].why = "modification"
         /\ call'[w].file = f /\ ~call'[w].save_lock
<1>1. call \in [Windows -> Call] /\ ~call[w].save_lock
  BY CallsNow, IdleOK
<1>2. call' = [call EXCEPT ![w].at = "lstat", ![w].file = f, ![w].why = "modification"]
  BY DEF lock_file
<1>3. call' \in [Windows -> Call]
  <2>1. PICK d1 : d1 = WithAt(call, w, "lstat") OBVIOUS
  <2>2. PICK d2 : d2 = WithFile(d1, w, f) OBVIOUS
  <2>3. d1 \in [Windows -> Call] BY <1>1, <2>1, CallWith DEF LockSteps
  <2>4. d2 \in [Windows -> Call] BY <2>2, <2>3, CallWith
  <2>5. WithWhy(d2, w, "modification") \in [Windows -> Call] BY <2>4, CallWith
  <2>6. call' = WithWhy(d2, w, "modification")
    BY <1>2, <2>1, <2>2 DEF WithAt, WithFile, WithWhy
  <2> QED BY <2>5, <2>6
<1>4. \A v \in Windows : v # w => call'[v] = call[v]
  BY <1>1, <1>2 DEF Call
<1>5. call'[w].at = "lstat" /\ call'[w].why = "modification"
  BY <1>1, <1>2 DEF Call
<1>6. call'[w].file = f
  BY <1>1, <1>2 DEF Call
<1>7. call'[w].save_lock = call[w].save_lock
  BY <1>1, <1>2 DEF Call
<1> QED BY <1>1, <1>3, <1>4, <1>5, <1>6, <1>7

LEMMA Modification ==
  ASSUME CallInv, NEW w \in Windows, edit_modification(w)
  PROVE  Step(w)
<1>1. /\ call[w] = Idle /\ edit[w].open /\ edit[w].filename \in Files
      /\ ~edit[w].modified /\ ~edit[w].locked /\ UNCHANGED <<link, process, disturbed>>
  BY OwnerAssumption, CallsNow DEF edit_modification, IdleEditor, Free, WindowOK
<1>2. CASE edit' = [edit EXCEPT ![w].modified = TRUE] /\ UNCHANGED call
  <2>1. edit' \in [Windows -> WEdit]
    BY <1>2, CallsNow DEF WEdit
  <2>2. \A v \in Windows : v # w => edit'[v] = edit[v]
    BY <1>2, CallsNow DEF WEdit
  <2>3. edit'[w].filename = edit[w].filename
    BY <1>2, CallsNow DEF WEdit
  <2>4. edit'[w].open = edit[w].open
    BY <1>2, CallsNow DEF WEdit
  <2>5. edit'[w].locked = edit[w].locked
    BY <1>2, CallsNow DEF WEdit
  <2>6. WindowOK(call'[w], edit'[w])
    BY <1>1, <1>2, <2>1, <2>3, <2>4, <2>5, IdleOK
  <2>7. \A g \in Files : Holds(w, g)' <=> Holds(w, g)
    BY <1>2, <2>3, <2>5 DEF Holds
  <2> QED BY <1>1, <1>2, <2>1, <2>2, <2>6, <2>7, CallsNow, QuietStep
<1>3. CASE lock_file(w, edit[w].filename, "modification") /\ UNCHANGED edit
  <2>1. /\ call' \in [Windows -> Call]
        /\ \A v \in Windows : v # w => call'[v] = call[v]
        /\ call'[w].at = "lstat" /\ call'[w].why = "modification"
        /\ call'[w].file = edit[w].filename /\ ~call'[w].save_lock
    BY <1>1, <1>3, LockFileFields
  <2>2. LockingOK(call'[w], edit[w])
    BY <1>1, <2>1 DEF LockingOK
  <2>3. WindowOK(call'[w], edit[w])
    BY <1>1, <2>1, <2>2 DEF WindowOK, UnlockSteps
  <2>4. \A g \in Files : Holds(w, g)' <=> Holds(w, g)
    BY <1>1, <1>3, <2>1, IdleOK DEF Holds
  <2> QED BY <1>1, <1>3, <2>1, <2>3, <2>4, CallsNow, QuietStep
<1> QED BY <1>2, <1>3 DEF edit_modification

LEMMA Saves ==
  ASSUME CallInv, NEW w \in Windows, NEW f \in Files, NEW wanted \in BOOLEAN,
         NEW why \in {"save", "save_as"}, LockAndSave(w, f, wanted, why),
         edit[w].open, ~call[w].save_lock,
         wanted /\ f = edit[w].filename => ~edit[w].locked,
         why = "save" => f = edit[w].filename
  PROVE  Step(w)
<1>1. PICK s \in {"lstat", "save_file"}, g \in Files \cup {NoFile} :
        /\ s = IF wanted THEN "lstat" ELSE "save_file"
        /\ g = IF wanted THEN f ELSE NoFile
  OBVIOUS
<1>2. PICK c : c = [Idle EXCEPT !.at = s, !.why = why, !.file = g, !.exp = f]
  OBVIOUS
<1>3. c = [at |-> s, why |-> why, file |-> g, seen |-> NoProcess, exp |-> f, save_lock |-> FALSE]
  BY <1>2 DEF Idle
<1>4. c \in Call /\ c.at = s /\ c.why = why /\ c.file = g /\ c.exp = f /\ ~c.save_lock
  BY <1>3 DEF Call, LockSteps
<1>5. call' = [call EXCEPT ![w] = c] /\ UNCHANGED <<link, process, edit, disturbed>>
  BY <1>1, <1>2 DEF LockAndSave
<1>6. call' \in [Windows -> Call] /\ call'[w] = c /\ \A v \in Windows : v # w => call'[v] = call[v]
  BY <1>4, <1>5, CallsNow
<1>7. edit[w].filename \in Files /\ (edit[w].locked => edit[w].modified)
  BY CallsNow DEF WindowOK
<1>8. CASE wanted
  <2>1. s = "lstat" /\ g = f
    BY <1>1, <1>8
  <2>2. LockingOK(c, edit[w])
    BY <1>4, <1>8, <2>1 DEF LockingOK
  <2> QED BY <1>4, <1>7, <2>1, <2>2, <1>5, <1>6, CallsNow, QuietStep DEF WindowOK, UnlockSteps, Holds
<1>9. CASE ~wanted
  <2>1. s = "save_file"
    BY <1>1, <1>9
  <2>2. SavingOK(c, edit[w])
    BY <1>4 DEF SavingOK
  <2> QED BY <1>4, <1>7, <2>1, <2>2, <1>5, <1>6, CallsNow, QuietStep DEF WindowOK, LockSteps, UnlockSteps, Holds
<1> QED BY <1>8, <1>9

(* The window may call unlock_file so. *)
MayUnlock(w, f, why) ==
  \A c \in Call : /\ c.file = f /\ c.why = why
                 /\ c.exp = call[w].exp /\ c.save_lock = call[w].save_lock
                 => UnlockingOK(c, edit[w])

LEMMA Unlocks ==
  ASSUME CallInv, NEW w \in Windows, NEW f \in Files, NEW why \in UnlockWhys, unlock_file(w, f, why),
         UNCHANGED <<link, process, edit>>,
         disturbed \subseteq disturbed', disturbed' \subseteq {"end", "grab", "close"},
         why = "close" => disturbed' # {},
         edit[w].open,
         MayUnlock(w, f, why)
  PROVE  Step(w)
<1>1. /\ call' \in [Windows -> Call]
      /\ \A v \in Windows : v # w => call'[v] = call[v]
      /\ call'[w].at = "unlock_lstat" /\ call'[w].why = why
      /\ call'[w].file = f /\ call'[w].exp = call[w].exp
      /\ call'[w].save_lock = call[w].save_lock
  BY UnlockFields
<1>2. UnlockingOK(call'[w], edit[w])
  BY <1>1 DEF MayUnlock
<1>3. WindowOK(call'[w], edit[w])
  BY <1>1, <1>2, CallsNow DEF WindowOK, LockSteps
<1>4. \A g \in Files : Holds(w, g)' <=> Holds(w, g)
  BY <1>1 DEF Holds
<1> QED BY <1>1, <1>3, <1>4, CallsNow, QuietStep

LEMMA SaveReturns ==
  ASSUME CallInv, NEW w \in Windows, NEW res \in {-1, 0, 1}, save_returns(w, res)
  PROVE  Step(w)
<1>1. /\ call[w].at = "save_file" /\ call[w].why = "save"
      /\ UNCHANGED <<link, process, disturbed>>
  BY DEF save_returns, At
<1>2. edit[w].open /\ edit[w].filename \in Files /\ (edit[w].locked => edit[w].modified)
  BY <1>1, CallsNow, IdleOK DEF WindowOK
<1>3. SavingOK(call[w], edit[w])
  BY <1>1, CallsNow DEF WindowOK
<1>4. call[w].exp = edit[w].filename
  BY <1>1, <1>3 DEF SavingOK
<1>5. CASE (res = 1 /\ edit[w].locked) \/ call[w].save_lock
  <2>1. PICK why \in {"saved", "save failed", "save cancelled"} :
          /\ why = CASE res = 1 -> "saved" [] res = 0 -> "save failed" [] res = -1 -> "save cancelled"
          /\ why # "saved" => res # 1
    <3>1. CASE res = 1 BY <3>1
    <3>2. CASE res = 0 BY <3>2
    <3>3. CASE res = -1 BY <3>3
    <3> QED BY <3>1, <3>2, <3>3
  <2>2. unlock_file(w, edit[w].filename, why) /\ UNCHANGED edit
    BY <1>5, <2>1 DEF save_returns
  <2>3. why \in UnlockWhys /\ why # "close"
    BY DEF UnlockWhys
  <2>4. MayUnlock(w, edit[w].filename, why)
    BY <1>2, <1>4, <1>5, <2>1 DEF MayUnlock, UnlockingOK
  <2>5. disturbed \subseteq disturbed' /\ disturbed' \subseteq {"end", "grab", "close"}
    BY <1>1, CallsNow
  <2> QED BY <1>1, <1>2, <2>2, <2>3, <2>4, <2>5, Unlocks
<1>6. CASE ~((res = 1 /\ edit[w].locked) \/ call[w].save_lock)
  <2>1. CASE res = 1 /\ Saved(w)
    <3>1. \A f \in Files : ~Holds(w, f) /\ ~Holds(w, f)'
      BY <1>2, <1>4, <1>6, <2>1, SavedFields, IdleOK DEF Holds
    <3> QED BY <1>1, <1>2, <1>4, <2>1, <3>1, SavedFields, IdleOK, CallsNow, QuietStep
  <2>2. CASE AskName(w) /\ UNCHANGED edit
    <3>1. \A f \in Files : Holds(w, f)' <=> Holds(w, f)
      BY <1>2, <1>6, <2>2, Asks, CallsNow DEF Holds
    <3>2. /\ call' \in [Windows -> Call] /\ call'[w].why = "" /\ call'[w].at # "unlink"
          /\ \A v \in Windows : v # w => call'[v] = call[v]
          /\ WindowOK(call'[w], edit[w])
      BY <1>2, <2>2, Asks, CallsNow
    <3> QED BY <1>1, <2>2, <3>1, <3>2, CallsNow, QuietStep
  <2>3. CASE Return(w) /\ UNCHANGED edit
    <3>1. \A f \in Files : Holds(w, f)' <=> Holds(w, f)
      BY <1>2, <1>6, <2>3, Returns, IdleOK DEF Holds
    <3> QED BY <1>1, <1>2, <2>3, <3>1, Returns, IdleOK, CallsNow, QuietStep
  <2> QED BY <1>6, <2>1, <2>2, <2>3 DEF save_returns
<1> QED BY <1>5, <1>6

LEMMA SaveAsReturns ==
  ASSUME CallInv, NEW w \in Windows, NEW res \in {-1, 0, 1}, save_as_returns(w, res)
  PROVE  Step(w)
<1>1. /\ call[w].at = "save_file" /\ call[w].why = "save_as"
      /\ UNCHANGED <<link, process, disturbed>>
  BY DEF save_as_returns, At
<1>2. edit[w].open /\ edit[w].filename \in Files /\ (edit[w].locked => edit[w].modified)
  BY <1>1, CallsNow, IdleOK DEF WindowOK
<1>3. call[w].exp \in Files
  BY <1>1, CallsNow DEF WindowOK, SavingOK
<1>4. ASSUME NEW f \in Files, NEW why \in {"saved under new name", "saved", "save_as failed"},
             unlock_file(w, f, why), UNCHANGED edit,
             MayUnlock(w, f, why)
      PROVE  Step(w)
  <2>1. why \in UnlockWhys /\ why # "close"
    BY DEF UnlockWhys
  <2>2. disturbed \subseteq disturbed' /\ disturbed' \subseteq {"end", "grab", "close"}
    BY <1>1, CallsNow
  <2> QED BY <1>1, <1>2, <1>4, <2>1, <2>2, Unlocks
<1>5. CASE /\ call[w].exp # edit[w].filename /\ call[w].save_lock /\ UNCHANGED edit
           /\ unlock_file(w, call[w].exp, "saved under new name")
  <2>1. MayUnlock(w, call[w].exp, "saved under new name")
    BY <1>3, <1>5 DEF MayUnlock, UnlockingOK
  <2> QED BY <1>3, <1>4, <1>5, <2>1
<1>6. CASE /\ unlock_file(w, edit[w].filename, "saved") /\ UNCHANGED edit
           /\ edit[w].locked \/ call[w].save_lock
           /\ call[w].save_lock => call[w].exp = edit[w].filename
  <2>1. MayUnlock(w, edit[w].filename, "saved")
    BY <1>2, <1>3, <1>6 DEF MayUnlock, UnlockingOK
  <2> QED BY <1>2, <1>4, <1>6, <2>1
<1>7. CASE ~call[w].save_lock /\ ~edit[w].locked /\ Saved(w)
  <2>1. \A f \in Files : ~Holds(w, f) /\ ~Holds(w, f)'
    BY <1>2, <1>3, <1>7, SavedFields, IdleOK DEF Holds
  <2> QED BY <1>1, <1>2, <1>3, <1>7, <2>1, SavedFields, IdleOK, CallsNow, QuietStep
<1>8. CASE /\ call[w].save_lock /\ UNCHANGED edit
           /\ unlock_file(w, call[w].exp, "save_as failed")
  <2>1. MayUnlock(w, call[w].exp, "save_as failed")
    BY <1>3, <1>8 DEF MayUnlock, UnlockingOK
  <2> QED BY <1>3, <1>4, <1>8, <2>1
<1>9. CASE ~call[w].save_lock /\ Return(w) /\ UNCHANGED edit
  <2>1. \A f \in Files : Holds(w, f)' <=> Holds(w, f)
    BY <1>9, Returns, IdleOK DEF Holds
  <2> QED BY <1>1, <1>2, <1>9, <2>1, Returns, IdleOK, CallsNow, QuietStep
<1> QED BY <1>5, <1>6, <1>7, <1>8, <1>9 DEF save_as_returns

LEMMA Closes ==
  ASSUME CallInv, NEW w \in Windows, close_unlocked(w) \/ edit_close_cmd(w) \/ edit_clean(w)
  PROVE  Step(w)
<1>1. /\ call[w] = Idle /\ edit[w].open /\ edit[w].filename \in Files
      /\ edit[w].locked => edit[w].modified
  BY CallsNow DEF close_unlocked, edit_close_cmd, edit_clean, IdleEditor, Free, WindowOK
<1>2. CASE close_unlocked(w)
  <2>1. \A f \in Files : ~Holds(w, f) /\ ~Holds(w, f)'
    BY <1>1, <1>2, ClosedFields, IdleOK DEF Holds, close_unlocked
  <2> QED BY <1>2, <2>1, ClosedFields, IdleOK, CallsNow, QuietStep DEF close_unlocked
<1>3. ASSUME NEW why \in {"close", "clean"}, edit[w].locked
      PROVE  MayUnlock(w, edit[w].filename, why)
  BY <1>1, <1>3, IdleOK DEF MayUnlock, UnlockingOK
<1>4. "close" \in UnlockWhys /\ "clean" \in UnlockWhys
  BY DEF UnlockWhys
<1>5. CASE edit_close_cmd(w)
  <2>1. /\ disturbed \subseteq disturbed' /\ disturbed' # {}
        /\ disturbed' \subseteq {"end", "grab", "close"}
    BY <1>5, CallsNow DEF edit_close_cmd
  <2> QED BY <1>1, <1>3, <1>4, <1>5, <2>1, Unlocks DEF edit_close_cmd
<1>6. CASE edit_clean(w)
  BY <1>1, <1>3, <1>4, <1>6, CallsNow, Unlocks DEF edit_clean
<1> QED BY <1>2, <1>5, <1>6

LEMMA CommandsStep ==
  ASSUME CallInv, NEW w \in Windows, Commands(w)
  PROVE  Step(w)
<1>1. CASE \E f \in Files : open(w, f, TRUE) \/ open(w, f, FALSE)
  BY <1>1, Open
<1>2. ASSUME IdleEditor(w) \/ At(w, "ask_name") PROVE edit[w].open /\ ~call[w].save_lock
  <2>1. CASE IdleEditor(w)
    BY <2>1, CallsNow, IdleOK DEF IdleEditor, Free
  <2>2. CASE At(w, "ask_name")
    BY <2>2, CallsNow, IdleOK DEF At, WindowOK
  <2> QED BY <1>2, <2>1, <2>2
<1>3. CASE \E f \in Files : edit_save_as_cmd(w, f)
  <2>1. PICK f \in Files : edit_save_as_cmd(w, f)
    BY <1>3
  <2>2. PICK wanted \in BOOLEAN : wanted = (f # edit[w].filename \/ NeedsLock(w))
    OBVIOUS
  <2>3. LockAndSave(w, f, wanted, "save_as") /\ (wanted /\ f = edit[w].filename => ~edit[w].locked)
    BY <2>1, <2>2 DEF edit_save_as_cmd, NeedsLock
  <2> QED BY <1>2, <2>1, <2>3, Saves DEF edit_save_as_cmd
<1>4. CASE edit_modification(w)
  BY <1>4, Modification
<1>5. CASE edit_save_cmd(w)
  <2>1. PICK wanted \in BOOLEAN : wanted = NeedsLock(w)
    BY DEF NeedsLock
  <2>2. LockAndSave(w, edit[w].filename, wanted, "save") /\ (wanted => ~edit[w].locked)
    BY <1>5, <2>1 DEF edit_save_cmd, NeedsLock
  <2>3. edit[w].open /\ ~call[w].save_lock /\ edit[w].filename \in Files
    BY <1>2, <1>5, CallsNow DEF edit_save_cmd, WindowOK
  <2> QED BY <2>2, <2>3, Saves
<1>6. CASE save_as_cancelled(w)
  <2>1. /\ edit[w].open /\ ~call[w].save_lock /\ edit[w].filename \in Files
        /\ edit[w].locked => edit[w].modified
    BY <1>2, <1>6, CallsNow DEF save_as_cancelled, WindowOK
  <2>2. \A f \in Files : Holds(w, f)' <=> Holds(w, f)
    BY <1>6, <2>1, Returns, IdleOK DEF Holds, save_as_cancelled
  <2> QED BY ZenonT(60), <1>6, <2>1, <2>2, Returns, IdleOK, CallsNow, QuietStep DEF save_as_cancelled
<1>7. CASE \E res \in {-1, 0, 1} : save_returns(w, res) \/ save_as_returns(w, res)
  BY <1>7, SaveReturns, SaveAsReturns
<1>8. CASE close_unlocked(w) \/ edit_close_cmd(w) \/ edit_clean(w)
  BY <1>8, Closes
<1> QED BY <1>1, <1>3, <1>4, <1>5, <1>6, <1>7, <1>8 DEF Commands

-----------------------------------------------------------------------------
(* A process ends.  If it is quit it has no windows left; a crash takes its *)
(* windows with it, and leaves its links.                                   *)

LEMMA QuitOK ==
  ASSUME CallInv, NoLeak, NEW p \in Processes, quit(p)
  PROVE  CallInv' /\ NoLeak' /\ disturbed' # {}
<1>1. /\ process' = [process EXCEPT ![p] = "exited"] /\ UNCHANGED <<link, edit, call>>
      /\ disturbed' = disturbed \cup {"end"} /\ process[p] = "running"
      /\ process \in [Processes -> {"running", "exited", "crashed"}]
      /\ link \in [Files -> Processes \cup {NoProcess}]
  BY DEF quit, CallInv, Typed
<1>2. CallInv'
  BY <1>1 DEF CallInv, Typed
<1>3. NoLeak'
  <2> SUFFICES ASSUME NEW f \in Files, link[f] # NoProcess, process'[link[f]] # "crashed"
               PROVE  \E w \in Windows : Owner[w] = link[f] /\ Holds(w, f)'
    BY <1>1 DEF NoLeak
  <2>1. process[link[f]] # "crashed"
    BY <1>1
  <2>2. PICK w \in Windows : Owner[w] = link[f] /\ Holds(w, f)
    BY <2>1 DEF NoLeak
  <2>3. Holds(w, f)'
    BY <1>1, <2>2 DEF Holds
  <2> QED BY <2>2, <2>3
<1> QED BY <1>1, <1>2, <1>3

LEMMA CrashOK ==
  ASSUME CallInv, NoLeak, NEW p \in Processes, crash(p)
  PROVE  CallInv' /\ NoLeak' /\ disturbed' # {}
<1>1. /\ process' = [process EXCEPT ![p] = "crashed"] /\ link' = link
      /\ edit' = [w \in Windows |-> IF Owner[w] = p THEN NoEdit ELSE edit[w]]
      /\ call' = [w \in Windows |-> IF Owner[w] = p THEN Idle ELSE call[w]]
      /\ disturbed' = disturbed \cup {"end"} /\ process[p] = "running"
      /\ process \in [Processes -> {"running", "exited", "crashed"}]
      /\ link \in [Files -> Processes \cup {NoProcess}]
  BY DEF crash, CallInv, Typed
<1>2. Typed'
  BY <1>1, IdleOK DEF CallInv, Typed
<1>3. ASSUME NEW w \in Windows PROVE WindowOK(call'[w], edit'[w])
  BY <1>1, IdleOK DEF CallInv
<1>4. NoLeak'
  <2> SUFFICES ASSUME NEW f \in Files, link[f] # NoProcess, process'[link[f]] # "crashed"
               PROVE  \E w \in Windows : Owner[w] = link[f] /\ Holds(w, f)'
    BY <1>1 DEF NoLeak
  <2>1. process[link[f]] # "crashed" /\ link[f] # p
    BY <1>1
  <2>2. PICK w \in Windows : Owner[w] = link[f] /\ Holds(w, f)
    BY <2>1 DEF NoLeak
  <2>3. Holds(w, f)'
    BY <1>1, <2>1, <2>2 DEF Holds
  <2> QED BY <2>2, <2>3
<1> QED BY <1>1, <1>2, <1>3, <1>4 DEF CallInv

-----------------------------------------------------------------------------
(* The inductive invariant. *)
Inv == CallInv /\ NoLeak /\ Calm /\ Exclusive

LEMMA InitInv == Init => Inv
<1> SUFFICES ASSUME Init PROVE Inv
  OBVIOUS
<1>1. CallInv
  BY IdleOK DEF Init, CallInv, Typed
<1>2. NoLeak /\ Calm
  BY IdleOK DEF Init, NoLeak, Calm
<1>3. \A w \in Windows, f \in Files : ~Holds(w, f)
  BY IdleOK DEF Init, Holds
<1>4. Exclusive
  BY <1>3 DEF Exclusive, Excluding
<1> QED BY <1>1, <1>2, <1>4 DEF Inv

LEMMA NextInv == Inv /\ [Next]_vars => Inv'
<1> SUFFICES ASSUME Inv, [Next]_vars PROVE Inv'
  OBVIOUS
<1> USE DEF Inv
<1>1. ASSUME NEW w \in Windows, LockCalls(w) \/ UnlockCalls(w) \/ Commands(w)
      PROVE  Inv'
  <2>1. Step(w)
    BY <1>1, LockCallsStep, UnlockCallsStep, CommandsStep
  <2> QED BY <2>1, StepCalls, StepNoLeak, StepExclusive
<1>2. ASSUME NEW p \in Processes, quit(p) \/ crash(p)
      PROVE  Inv'
  <2>1. CallInv' /\ NoLeak' /\ disturbed' # {}
    BY <1>2, QuitOK, CrashOK
  <2> QED BY <2>1 DEF Calm, Exclusive
<1>3. CASE UNCHANGED vars
  BY <1>3 DEF vars, CallInv, Typed, NoLeak, Calm, Exclusive, Excluding, OneHost, Holds
<1> QED BY <1>1, <1>2, <1>3 DEF Next

(* Whatever the editors, users and crashes do, each window knows what the   *)
(* call it is in is about.                                                  *)
THEOREM LockInvariant == Spec => []Inv
BY InitInv, NextInv, PTL DEF Spec

(* The links, the processes, the windows and their calls keep their types,  *)
(* and a call to lock or unlock has a file to do it to.                     *)
THEOREM LockTypeCorrect == Spec => []TypeOK
<1>1. Inv => TypeOK
  BY DEF Inv, CallInv, Typed, TypeOK, WindowOK, LockingOK, UnlockingOK, SavingOK
<1> QED BY <1>1, LockInvariant, PTL

(* lock_file and unlock_file leave no lock behind, of any number of files,  *)
(* windows and processes, on one host or on several: every way out of a     *)
(* save or of a window removes what it has made, or finds it gone.          *)
THEOREM NoLockLeaks == Spec => []NoLeak
BY LockInvariant, PTL DEF Inv

(* While nothing ends, is grabbed or is closed by edit_close_cmd, the locks *)
(* of the windows of any number of processes of one host exclude each       *)
(* other.                                                                   *)
THEOREM LocksExclude == Spec => []Exclusive
BY LockInvariant, PTL DEF Inv
=============================================================================
