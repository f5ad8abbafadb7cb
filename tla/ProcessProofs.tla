---------------------------- MODULE ProcessProofs ----------------------------
(***************************************************************************)
(* The programs mc talks to, for any number of children, of event loops    *)
(* within each other, of lines and of requests: what is read is what is    *)
(* waited for (AnswersMatch of TaskBackground, InactiveAwaits of Subshell, *)
(* TurnsMatch of ConsSaver).                                               *)
(*                                                                         *)
(* In each case the invariant says, for every place where the two sides    *)
(* may be together, what the channels between them hold.                   *)
(***************************************************************************)
EXTENDS TaskBackground, Subshell, ConsSaver, SequenceTheorems, TLAPS

-----------------------------------------------------------------------------
(* The children in the background.                                          *)

Pieces == [call : Nat, last : BOOLEAN, ends : BOOLEAN]
EventLoops == [ready : SUBSET Tasks, task : Tasks \cup {NoTask}, call : Nat]

BgTypeOK ==
  /\ state \in [Tasks -> {"work", "ask", "args", "wait", "gone"}]
  /\ calls \in [Tasks -> Nat] /\ ending \in [Tasks -> BOOLEAN]
  /\ DOMAIN up = Tasks /\ DOMAIN down = Tasks
  /\ loops \in Seq(EventLoops) /\ loops # << >> /\ registered \subseteq Tasks

(* What the parent has not read of the call a child is in.                  *)
PiecesKept ==
  \A t \in Tasks :
    /\ \/ up[t] = << >> \/ up[t] = <<Header(t)>>
       \/ up[t] = <<Header(t), Arguments(t)>> \/ up[t] = <<Arguments(t)>>
    /\ state[t] \in {"work", "ask"} => up[t] = << >>
    /\ state[t] = "args" => up[t] = << >> \/ up[t] = <<Header(t)>>

(* The one result there may be.                                             *)
ResultsKept ==
  \A t \in Tasks :
    \/ down[t] = << >>
    \/ down[t] = <<<<t, calls[t]>>>> /\ up[t] = << >> /\ state[t] \in {"wait", "gone"}

(* The children whose dialogs are open: each waits in the call that its     *)
(* dialog is about, with nothing left in its pipes, and has no other.       *)
DialogsKept ==
  /\ \A i \in 1..(Len(loops) - 1) :
       LET t == loops[i].task IN
         /\ t \in Tasks /\ loops[i].call = calls[t] /\ state[t] \in {"wait", "gone"}
         /\ up[t] = << >> /\ down[t] = << >>
  /\ \A i, j \in 1..(Len(loops) - 1) : i # j => loops[i].task # loops[j].task

BgInv == BgTypeOK /\ PiecesKept /\ ResultsKept /\ DialogsKept

(* The sequences of pieces that a pipe may hold.                            *)
LEMMA PieceFacts ==
  /\ \A x \in Pieces : Append(<< >>, x) = <<x>> /\ Head(<<x>>) = x /\ Tail(<<x>>) = << >> /\ <<x>> # << >>
  /\ \A x, y \in Pieces : Append(<<x>>, y) = <<x, y>> /\ Head(<<x, y>>) = x /\ Tail(<<x, y>>) = <<y>> /\ <<x, y>> # << >>
<1>1. \A x \in Pieces : Append(<< >>, x) = <<x>> /\ Head(<<x>>) = x /\ Tail(<<x>>) = << >> /\ <<x>> # << >>
  OBVIOUS
<1>2. ASSUME NEW x \in Pieces, NEW y \in Pieces
      PROVE  Append(<<x>>, y) = <<x, y>> /\ Tail(<<x, y>>) = <<y>>
  <2>1. <<x>> \in Seq(Pieces) /\ <<y>> \in Seq(Pieces) /\ <<x, y>> \in Seq(Pieces) /\ <<x, y>> # << >>
    OBVIOUS
  <2> DEFINE s == Append(<<x>>, y)
             t == <<x, y>>
             u == Tail(t)
             w == <<y>>
  <2>2. /\ s \in Seq(Pieces) /\ Len(s) = 2 /\ s[1] = x /\ s[2] = y
        /\ t \in Seq(Pieces) /\ Len(t) = 2 /\ t[1] = x /\ t[2] = y
    BY <2>1
  <2>3. /\ u \in Seq(Pieces) /\ Len(u) = 1 /\ u[1] = y
        /\ w \in Seq(Pieces) /\ Len(w) = 1 /\ w[1] = y
    BY <2>1, <2>2, HeadTailProperties
  <2> HIDE DEF s, t, u, w
  <2>4. \A i \in 1..Len(s) : s[i] = t[i]
    BY <2>2
  <2>5. \A i \in 1..Len(u) : u[i] = w[i]
    BY <2>3
  <2>6. s = t
    BY <2>2, <2>4, SeqEqual
  <2>7. u = w
    BY <2>3, <2>5, SeqEqual
  <2> QED BY <2>6, <2>7 DEF s, t, u, w
<1>3. \A x, y \in Pieces : Head(<<x, y>>) = x /\ <<x, y>> # << >>
  OBVIOUS
<1> QED BY <1>1, <1>2, <1>3

(* The two pieces of the call a child is in.                                *)
LEMMA PieceTypes ==
  ASSUME BgTypeOK, NEW t \in Tasks
  PROVE  /\ Header(t) \in Pieces /\ Arguments(t) \in Pieces
         /\ Header(t).last = FALSE /\ Arguments(t).last = TRUE
         /\ Arguments(t).call = calls[t] /\ Arguments(t).ends = ending[t]
BY DEF BgTypeOK, Header, Arguments, Pieces

(* All children at work, the pipes empty, one event loop.                   *)
LEMMA BgInitInv == BgInit => BgInv
<1> SUFFICES ASSUME BgInit PROVE BgInv
  OBVIOUS
<1>1. EventLoop \in EventLoops /\ EventLoop.task = NoTask
  BY DEF EventLoop, EventLoops
<1>2. loops \in Seq(EventLoops) /\ loops # << >> /\ Len(loops) = 1
  BY <1>1 DEF BgInit
<1>3. BgTypeOK
  BY <1>2 DEF BgInit, BgTypeOK
<1>4. PiecesKept /\ ResultsKept /\ DialogsKept
  BY <1>2 DEF BgInit, PiecesKept, ResultsKept, DialogsKept
<1> QED BY <1>3, <1>4 DEF BgInv

(* A child begins a call (parent_call): the pipes are empty, and no         *)
(* dialog is about it.                                                      *)
LEMMA CallBegins ==
  ASSUME BgInv, NEW t \in Tasks, NEW last \in BOOLEAN, parent_call(t, last)
  PROVE  BgInv'
<1>1. /\ state[t] = "work" /\ state' = [state EXCEPT ![t] = "ask"] /\ calls' = [calls EXCEPT ![t] = @ + 1]
      /\ ending' = [ending EXCEPT ![t] = last] /\ UNCHANGED <<up, down, loops, registered>>
  BY DEF parent_call
<1>2. BgTypeOK'
  BY <1>1 DEF BgInv, BgTypeOK
<1>3. up[t] = << >> /\ down[t] = << >> /\ \A i \in 1..(Len(loops) - 1) : loops[i].task # t
  BY <1>1 DEF BgInv, PiecesKept, ResultsKept, DialogsKept
<1>4. \A s \in Tasks \ {t} : /\ Header(s)' = Header(s) /\ Arguments(s)' = Arguments(s)
                             /\ state'[s] = state[s] /\ calls'[s] = calls[s]
  BY <1>1 DEF BgInv, BgTypeOK, Header, Arguments
<1>5. state'[t] = "ask"
  BY <1>1 DEF BgInv, BgTypeOK
<1>6. PiecesKept'
  BY <1>1, <1>3, <1>4, <1>5 DEF BgInv, PiecesKept
<1>7. ResultsKept'
  BY <1>1, <1>3, <1>4, <1>5 DEF BgInv, ResultsKept
<1>8. DialogsKept'
  BY <1>1, <1>3, <1>4, <1>5 DEF BgInv, DialogsKept
<1> QED BY <1>2, <1>6, <1>7, <1>8 DEF BgInv

(* It writes the header, or the arguments.                                  *)
LEMMA PieceWritten ==
  ASSUME BgInv, NEW t \in Tasks, parent_call_header(t) \/ parent_va_call(t)
  PROVE  BgInv'
<1> DEFINE piece == IF state[t] = "ask" THEN Header(t) ELSE Arguments(t)
<1>1. /\ state[t] \in {"ask", "args"} /\ up' = [up EXCEPT ![t] = Append(@, piece)]
      /\ state' = [state EXCEPT ![t] = IF state[t] = "ask" THEN "args" ELSE "wait"]
      /\ UNCHANGED <<calls, ending, down, loops, registered>>
  BY DEF parent_call_header, parent_va_call
<1>2. BgTypeOK'
  BY <1>1 DEF BgInv, BgTypeOK
<1>3. \A s \in Tasks : Header(s)' = Header(s) /\ Arguments(s)' = Arguments(s)
  BY <1>1 DEF Header, Arguments
<1>4. /\ down[t] = << >> /\ \A i \in 1..(Len(loops) - 1) : loops[i].task # t
      /\ state[t] = "ask" => up[t] = << >>
      /\ state[t] = "args" => up[t] = << >> \/ up[t] = <<Header(t)>>
  BY <1>1 DEF BgInv, PiecesKept, ResultsKept, DialogsKept
<1>5. \A s \in Tasks \ {t} : up'[s] = up[s] /\ state'[s] = state[s]
  BY <1>1 DEF BgInv, BgTypeOK
<1>6. \/ state'[t] = "args" /\ up'[t] = <<Header(t)>>
      \/ state'[t] = "wait" /\ up'[t] = <<Arguments(t)>>
      \/ state'[t] = "wait" /\ up'[t] = <<Header(t), Arguments(t)>>
  <2>1. Header(t) \in Pieces /\ Arguments(t) \in Pieces
    BY PieceTypes DEF BgInv
  <2>2. up'[t] = Append(up[t], piece) /\ state'[t] = (IF state[t] = "ask" THEN "args" ELSE "wait")
    BY <1>1 DEF BgInv, BgTypeOK
  <2> QED BY <1>1, <1>4, <2>1, <2>2, PieceFacts
<1>7. PiecesKept'
  BY <1>3, <1>5, <1>6 DEF BgInv, PiecesKept
<1>8. ResultsKept'
  BY <1>1, <1>4, <1>5 DEF BgInv, ResultsKept
<1>9. DialogsKept'
  BY <1>1, <1>4, <1>5 DEF BgInv, DialogsKept
<1> QED BY <1>2, <1>7, <1>8, <1>9 DEF BgInv

(* It reads the only result there is.                                       *)
LEMMA ResultRead == ASSUME BgInv, NEW t \in Tasks, result_read(t) PROVE BgInv'
<1>1. /\ state[t] = "wait" /\ down[t] # << >> /\ down' = [down EXCEPT ![t] = Tail(@)]
      /\ state' = [state EXCEPT ![t] = IF ending[t] THEN "gone" ELSE "work"]
      /\ UNCHANGED <<calls, ending, up, loops, registered>>
  BY DEF result_read
<1>2. BgTypeOK'
  BY <1>1 DEF BgInv, BgTypeOK
<1>3. \A s \in Tasks : Header(s)' = Header(s) /\ Arguments(s)' = Arguments(s)
  BY <1>1 DEF Header, Arguments
<1>4. /\ down[t] = <<<<t, calls[t]>>>> /\ up[t] = << >>
      /\ \A i \in 1..(Len(loops) - 1) : loops[i].task # t
  BY <1>1 DEF BgInv, ResultsKept, DialogsKept
<1>5. \A s \in Tasks \ {t} : down'[s] = down[s] /\ state'[s] = state[s]
  BY <1>1 DEF BgInv, BgTypeOK
<1>6. down'[t] = << >> /\ state'[t] \in {"gone", "work"}
  BY <1>1, <1>4 DEF BgInv, BgTypeOK
<1>7. PiecesKept'
  BY <1>1, <1>3, <1>4, <1>5, <1>6 DEF BgInv, PiecesKept
<1>8. ResultsKept'
  BY <1>1, <1>5, <1>6 DEF BgInv, ResultsKept
<1>9. DialogsKept'
  BY <1>1, <1>4, <1>5 DEF BgInv, DialogsKept
<1> QED BY <1>2, <1>7, <1>8, <1>9 DEF BgInv

(* A child that is gone leaves the pipes as they were.                      *)
LEMMA ChildGoes == ASSUME BgInv, NEW t \in Tasks, dies(t) \/ task_cb(t) PROVE BgInv'
<1>1. /\ state' = [state EXCEPT ![t] = "gone"] /\ UNCHANGED <<calls, ending, up, down, loops>>
      /\ registered' \subseteq registered
  BY DEF dies, task_cb
<1>2. BgTypeOK'
  BY <1>1 DEF BgInv, BgTypeOK
<1>3. \A s \in Tasks : /\ Header(s)' = Header(s) /\ Arguments(s)' = Arguments(s)
                       /\ state'[s] = state[s] \/ state'[s] = "gone"
  BY <1>1 DEF Header, Arguments, BgInv, BgTypeOK
<1>4. PiecesKept' /\ ResultsKept' /\ DialogsKept'
  BY <1>1, <1>3 DEF BgInv, PiecesKept, ResultsKept, DialogsKept
<1> QED BY <1>2, <1>4 DEF BgInv

(* There is an innermost event loop.                                        *)
LEMMA InnermostLoop ==
  ASSUME BgInv
  PROVE  Depth \in Nat \ {0} /\ Depth \in 1..Len(loops) /\ Innermost \in EventLoops
BY EmptySeq DEF BgInv, BgTypeOK, Depth, Innermost

(* A step that leaves everything but the innermost event loop as it was.    *)
LEMMA LoopsOnly ==
  ASSUME BgInv, NEW l \in EventLoops, loops' = [loops EXCEPT ![Depth] = l],
         UNCHANGED <<state, calls, ending, up, down, registered>>
  PROVE  BgInv'
<1>1. loops' \in Seq(EventLoops) /\ Len(loops') = Len(loops) /\ loops' # << >>
      /\ \A i \in 1..(Len(loops) - 1) : loops'[i] = loops[i]
  BY InnermostLoop DEF BgInv, BgTypeOK, Depth
<1>2. \A s \in Tasks : Header(s)' = Header(s) /\ Arguments(s)' = Arguments(s)
  BY DEF Header, Arguments
<1>3. BgTypeOK' /\ PiecesKept' /\ ResultsKept'
  BY <1>1, <1>2 DEF BgInv, BgTypeOK, PiecesKept, ResultsKept
<1>4. DialogsKept'
  BY SMTT(60), <1>1 DEF BgInv, DialogsKept
<1> QED BY <1>3, <1>4 DEF BgInv

(* select changes what the innermost loop knows, no more.                   *)
LEMMA LoopSelects == ASSUME BgInv, select PROVE BgInv'
<1>1. loops' = [loops EXCEPT ![Depth] = [Innermost EXCEPT !.ready = Readable]]
      /\ UNCHANGED <<state, calls, ending, up, down, registered>>
  BY InnermostLoop DEF select, Innermost, Depth, BgInv, BgTypeOK
<1>2. Readable \subseteq Tasks
  BY DEF Readable, BgInv, BgTypeOK
<1>3. [Innermost EXCEPT !.ready = Readable] \in EventLoops
  BY <1>2, InnermostLoop DEF EventLoops
<1> QED BY <1>1, <1>3, LoopsOnly

(* So does attending to a channel, emptied or not.                          *)
LEMMA LoopAttends == ASSUME BgInv, NEW t \in Tasks, check_selects(t) PROVE BgInv'
<1> DEFINE l == [Innermost EXCEPT !.ready = @ \ {t}, !.task = t]
<1>1. loops' = [loops EXCEPT ![Depth] = l] /\ UNCHANGED <<state, calls, ending, up, down, registered>>
  BY InnermostLoop DEF check_selects, Innermost, Depth, BgInv, BgTypeOK
<1>2. l \in EventLoops
  BY InnermostLoop DEF EventLoops
<1> QED BY <1>1, <1>2, LoopsOnly

(* The pieces left after one is read.                                       *)
LEMMA PieceRead ==
  ASSUME BgInv, NEW t \in Tasks, up[t] # << >>, up' = [up EXCEPT ![t] = Tail(@)],
         UNCHANGED <<state, calls, ending>>
  PROVE  /\ PiecesKept' /\ down[t] = << >>
         /\ \A i \in 1..(Len(loops) - 1) : loops[i].task # t
         /\ \A s \in Tasks \ {t} : up'[s] = up[s]
         /\ Head(up[t]).last => /\ Head(up[t]) = Arguments(t) /\ up'[t] = << >>
                                /\ state[t] \in {"wait", "gone"}
<1>1. \A s \in Tasks : Header(s)' = Header(s) /\ Arguments(s)' = Arguments(s)
  BY DEF Header, Arguments
<1>2. \A s \in Tasks \ {t} : up'[s] = up[s]
  BY DEF BgInv, BgTypeOK
<1>3. up'[t] = Tail(up[t])
  BY DEF BgInv, BgTypeOK
<1>4. /\ Header(t) \in Pieces /\ Arguments(t) \in Pieces
      /\ Header(t).last = FALSE /\ Arguments(t).last = TRUE
  BY PieceTypes DEF BgInv
<1>5. \/ up[t] = <<Header(t)>> /\ Head(up[t]) = Header(t) /\ up'[t] = << >>
      \/ /\ up[t] = <<Header(t), Arguments(t)>> /\ Head(up[t]) = Header(t) /\ up'[t] = <<Arguments(t)>>
      \/ up[t] = <<Arguments(t)>> /\ Head(up[t]) = Arguments(t) /\ up'[t] = << >>
  <2>1. \/ up[t] = <<Header(t)>> \/ up[t] = <<Header(t), Arguments(t)>> \/ up[t] = <<Arguments(t)>>
    BY DEF BgInv, PiecesKept
  <2> QED BY <1>3, <1>4, <2>1, PieceFacts
<1>6. <<Header(t), Arguments(t)>> # <<Header(t)>> /\ <<Arguments(t)>> # <<Header(t)>>
  <2>1. Arguments(t) # Header(t)
    BY <1>4
  <2> QED BY <2>1
<1>7. PiecesKept'
  BY <1>1, <1>2, <1>5, <1>6 DEF BgInv, PiecesKept
<1>8. down[t] = << >> /\ \A i \in 1..(Len(loops) - 1) : loops[i].task # t
  BY DEF BgInv, ResultsKept, DialogsKept
<1>9. Head(up[t]).last => up[t] = <<Arguments(t)>>
  BY <1>4, <1>5
<1>10. up[t] = <<Arguments(t)>> => state[t] \in {"wait", "gone"}
  BY <1>6 DEF BgInv, BgTypeOK, PiecesKept
<1> QED BY <1>2, <1>4, <1>5, <1>6, <1>7, <1>8, <1>9, <1>10

(* The parent reads a piece (background_attention): the last of a call is   *)
(* answered at once, or its child gets a dialog, the only one that is       *)
(* about it.                                                                *)
LEMMA PieceServed == ASSUME BgInv, NEW t \in Tasks, background_attention(t) PROVE BgInv'
<1> DEFINE piece == Head(up[t])
<1>1. /\ Innermost.task = t /\ up[t] # << >> /\ up' = [up EXCEPT ![t] = Tail(@)]
      /\ UNCHANGED <<state, calls, ending>>
  BY DEF background_attention
<1>2. /\ PiecesKept' /\ down[t] = << >>
      /\ \A i \in 1..(Len(loops) - 1) : loops[i].task # t
      /\ \A s \in Tasks \ {t} : up'[s] = up[s]
      /\ piece.last => /\ piece = Arguments(t) /\ up'[t] = << >>
                       /\ state[t] \in {"wait", "gone"}
  BY <1>1, PieceRead
<1>3. Arguments(t).call = calls[t]
  BY PieceTypes DEF BgInv
<1> HIDE DEF piece
<1>4. CASE ~piece.last /\ UNCHANGED <<registered, loops, down>>
  <2>1. BgTypeOK'
    BY <1>1, <1>4 DEF BgInv, BgTypeOK
  <2>2. ResultsKept'
    BY <1>1, <1>2, <1>4 DEF BgInv, ResultsKept
  <2>3. DialogsKept'
    BY <1>1, <1>2, <1>4 DEF BgInv, DialogsKept
  <2> QED BY <1>2, <2>1, <2>2, <2>3 DEF BgInv
<1>5. CASE piece.last /\ end_bg_process(t, piece.call)
  <2>1. /\ registered' = registered \ {t} /\ loops' = [loops EXCEPT ![Depth] = [Innermost EXCEPT !.task = NoTask]]
        /\ down' = [down EXCEPT ![t] = Append(@, <<t, calls[t]>>)]
    BY <1>2, <1>3, <1>5, InnermostLoop
       DEF end_bg_process, Reply, BgInv, BgTypeOK, Innermost, Depth
  <2>2. [Innermost EXCEPT !.task = NoTask] \in EventLoops
    BY InnermostLoop DEF EventLoops
  <2>3. /\ loops' \in Seq(EventLoops) /\ Len(loops') = Len(loops) /\ loops' # << >>
        /\ \A i \in 1..(Len(loops) - 1) : loops'[i] = loops[i]
    BY <2>1, <2>2, InnermostLoop DEF BgInv, BgTypeOK, Depth
  <2>4. BgTypeOK'
    BY <1>1, <2>1, <2>3 DEF BgInv, BgTypeOK
  <2>5. down'[t] = <<<<t, calls[t]>>>> /\ \A s \in Tasks \ {t} : down'[s] = down[s]
    BY <1>2, <2>1 DEF BgInv, BgTypeOK
  <2>6. ResultsKept'
    BY <1>1, <1>2, <1>5, <2>5 DEF BgInv, ResultsKept
  <2>7. DialogsKept'
    BY <1>1, <1>2, <2>3, <2>5 DEF BgInv, DialogsKept
  <2> QED BY <1>2, <2>4, <2>6, <2>7 DEF BgInv
<1>6. CASE /\ piece.last
           /\ loops' = Append([loops EXCEPT ![Depth].call = piece.call], EventLoop)
           /\ UNCHANGED <<registered, down>>
  <2> DEFINE l == [Innermost EXCEPT !.call = calls[t]]
  <2>1. loops' = Append([loops EXCEPT ![Depth] = l], EventLoop)
    BY <1>2, <1>3, <1>6, InnermostLoop DEF Innermost, Depth, BgInv, BgTypeOK
  <2>2. l \in EventLoops /\ l.task = t /\ l.call = calls[t] /\ EventLoop \in EventLoops
    BY <1>1, InnermostLoop DEF EventLoops, EventLoop, BgInv, BgTypeOK
  <2> HIDE DEF l
  <2>3. /\ loops' \in Seq(EventLoops) /\ Len(loops') = Len(loops) + 1 /\ loops' # << >>
        /\ loops'[Len(loops)] = l
        /\ \A i \in 1..(Len(loops) - 1) : loops'[i] = loops[i]
    BY <2>1, <2>2, InnermostLoop DEF BgInv, BgTypeOK, Depth
  <2>4. BgTypeOK'
    BY <1>1, <1>6, <2>3 DEF BgInv, BgTypeOK
  <2>5. ResultsKept'
    BY <1>1, <1>2, <1>6 DEF BgInv, ResultsKept
  <2>6. \A i \in 1..(Len(loops') - 1) : i \in 1..(Len(loops) - 1) \/ i = Len(loops)
    BY <2>3, InnermostLoop DEF Depth
  <2>7. DialogsKept'
    <3>1. ASSUME NEW i \in 1..(Len(loops') - 1)
          PROVE  LET u == loops'[i].task IN
                   /\ u \in Tasks /\ loops'[i].call = calls'[u] /\ state'[u] \in {"wait", "gone"}
                   /\ up'[u] = << >> /\ down'[u] = << >>
      <4>1. CASE i = Len(loops)
        BY <1>1, <1>2, <1>6, <2>2, <2>3, <4>1
      <4>2. CASE i \in 1..(Len(loops) - 1)
        <5> DEFINE u == loops[i].task
        <5>1. /\ u \in Tasks /\ loops[i].call = calls[u] /\ state[u] \in {"wait", "gone"}
              /\ up[u] = << >> /\ down[u] = << >>
          BY <4>2 DEF BgInv, DialogsKept
        <5>2. u # t /\ loops'[i] = loops[i]
          BY <1>2, <2>3, <4>2
        <5> HIDE DEF u
        <5>3. up'[u] = << >> /\ UNCHANGED <<calls, state, down>>
          BY <1>1, <1>2, <1>6, <5>1, <5>2
        <5> QED BY <5>1, <5>2, <5>3 DEF u
      <4> QED BY <2>6, <4>1, <4>2
    <3>2. ASSUME NEW i \in 1..(Len(loops') - 1), NEW j \in 1..(Len(loops') - 1), i # j
          PROVE  loops'[i].task # loops'[j].task
      <4>1. CASE i = Len(loops)
        BY <1>2, <2>2, <2>3, <2>6, <3>2, <4>1
      <4>2. CASE j = Len(loops)
        BY <1>2, <2>2, <2>3, <2>6, <3>2, <4>2
      <4>3. CASE i \in 1..(Len(loops) - 1) /\ j \in 1..(Len(loops) - 1)
        BY <2>3, <3>2, <4>3 DEF BgInv, DialogsKept
      <4> QED BY <2>6, <4>1, <4>2, <4>3
    <3> QED BY <3>1, <3>2 DEF DialogsKept
  <2> QED BY <1>2, <2>4, <2>5, <2>7 DEF BgInv
<1> QED BY <1>4, <1>5, <1>6 DEF background_attention, piece

(* The answer of the innermost dialog goes to the child it is about,        *)
(* which waits for it and for nothing else.                                 *)
LEMMA DialogAnswered == ASSUME BgInv, dialog_answered PROVE BgInv'
<1> DEFINE n == Len(loops) - 1
           t == loops[n].task
           l == [loops[n] EXCEPT !.task = NoTask, !.call = 0]
<1>1. /\ Len(loops) \in Nat /\ n \in Nat \ {0} /\ n \in 1..Len(loops) /\ loops[n] \in EventLoops
  <2>1. Len(loops) \in Nat /\ Len(loops) > 1
    BY InnermostLoop DEF dialog_answered, Depth
  <2>2. n \in Nat \ {0} /\ n \in 1..Len(loops)
    <3>1. \A k \in Nat : k > 1 => k - 1 \in Nat \ {0} /\ k - 1 \in 1..k
      OBVIOUS
    <3> QED BY <2>1, <3>1
  <2>3. loops[n] \in EventLoops
    BY <2>2, ElementOfSeq DEF BgInv, BgTypeOK
  <2> QED BY <2>1, <2>2, <2>3
<1>2. /\ t \in Tasks /\ loops[n].call = calls[t] /\ state[t] \in {"wait", "gone"}
      /\ up[t] = << >> /\ down[t] = << >>
      /\ \A i \in 1..n : i # n => loops[i].task # t
  <2>1. n \in 1..(Len(loops) - 1)
    BY <1>1
  <2>2. /\ t \in Tasks /\ loops[n].call = calls[t] /\ state[t] \in {"wait", "gone"}
        /\ up[t] = << >> /\ down[t] = << >>
    BY <2>1 DEF BgInv, DialogsKept
  <2>3. \A i \in 1..n : i # n => loops[i].task # t
    BY <2>1 DEF BgInv, DialogsKept
  <2> QED BY <2>2, <2>3
<1>3. /\ down' = [down EXCEPT ![t] = Append(@, <<t, calls[t]>>)]
      /\ UNCHANGED <<state, calls, ending, up, registered>>
      /\ loops' = [Inner EXCEPT ![n].task = NoTask, ![n].call = 0]
  BY <1>2 DEF dialog_answered, Reply, Depth
<1>4. l \in EventLoops
  BY <1>1 DEF EventLoops
<1>5. Inner \in Seq(EventLoops) /\ Len(Inner) = n /\ \A i \in 1..n : Inner[i] = loops[i]
  BY <1>1 DEF Inner, Depth, BgInv, BgTypeOK
<1>6. loops' = [Inner EXCEPT ![n] = l]
  <2> DEFINE s == [Inner EXCEPT ![n] = [Inner[n] EXCEPT !.task = NoTask]]
  <2>1. n \in DOMAIN Inner /\ Inner[n] = loops[n] /\ DOMAIN Inner = 1..n
    BY <1>1, <1>5
  <2>2. s[n] = [loops[n] EXCEPT !.task = NoTask] /\ DOMAIN s = 1..n
    BY <2>1
  <2>3. loops' = [s EXCEPT ![n] = [s[n] EXCEPT !.call = 0]]
    BY <1>3, <2>1, <2>2
  <2>4. [s[n] EXCEPT !.call = 0] = l
    BY <1>1, <2>2 DEF EventLoops
  <2> QED BY <2>1, <2>3, <2>4
<1> HIDE DEF l
<1>7. /\ loops' \in Seq(EventLoops) /\ Len(loops') = n /\ loops' # << >>
      /\ \A i \in 1..(n - 1) : loops'[i] = loops[i]
  BY <1>1, <1>4, <1>5, <1>6
<1>8. BgTypeOK'
  BY <1>3, <1>7 DEF BgInv, BgTypeOK
<1>9. down'[t] = <<<<t, calls[t]>>>> /\ \A s \in Tasks \ {t} : down'[s] = down[s]
  BY <1>2, <1>3 DEF BgInv, BgTypeOK
<1>10. \A s \in Tasks : Header(s)' = Header(s) /\ Arguments(s)' = Arguments(s)
  BY <1>3 DEF Header, Arguments
<1>11. PiecesKept'
  BY <1>3, <1>10 DEF BgInv, PiecesKept
<1>12. ResultsKept'
  BY <1>2, <1>3, <1>9 DEF BgInv, ResultsKept
<1>13. \A i \in 1..(Len(loops') - 1) : i \in 1..n /\ i # n /\ i \in 1..(Len(loops) - 1) /\ loops'[i] = loops[i]
  BY <1>1, <1>7
<1> HIDE DEF t
<1>14. DialogsKept'
  <2>1. ASSUME NEW i \in 1..(Len(loops') - 1)
        PROVE  LET u == loops'[i].task IN
                 /\ u \in Tasks /\ loops'[i].call = calls'[u] /\ state'[u] \in {"wait", "gone"}
                 /\ up'[u] = << >> /\ down'[u] = << >>
    <3>1. i \in 1..n /\ i # n /\ i \in 1..(Len(loops) - 1) /\ loops'[i] = loops[i]
      BY <1>13
    <3>2. loops[i].task # t
      BY <1>2, <3>1
    <3> QED BY <1>3, <1>9, <3>1, <3>2 DEF BgInv, DialogsKept
  <2>2. ASSUME NEW i \in 1..(Len(loops') - 1), NEW j \in 1..(Len(loops') - 1), i # j
        PROVE  loops'[i].task # loops'[j].task
    BY <1>13, <2>2 DEF BgInv, DialogsKept
  <2> QED BY <2>1, <2>2 DEF DialogsKept
<1> QED BY <1>8, <1>11, <1>12, <1>14 DEF BgInv

(* Every step keeps the invariant.                                          *)
LEMMA BgStep == ASSUME BgInv, [BgNext]_bg_vars PROVE BgInv'
<1>1. CASE BgNext
  <2>1. \A t \in Tasks : ChildStep(t) \/ parent_call(t, FALSE) => BgInv'
    BY CallBegins, PieceWritten, ResultRead DEF ChildStep
  <2>2. \A t \in Tasks : dies(t) \/ task_cb(t) => BgInv'
    BY ChildGoes
  <2>3. Parent => BgInv'
    BY LoopSelects, LoopAttends, PieceServed, DialogAnswered DEF Parent
  <2> QED BY <1>1, <2>1, <2>2, <2>3 DEF BgNext
<1>2. CASE UNCHANGED bg_vars
  <2>1. \A s \in Tasks : Header(s)' = Header(s) /\ Arguments(s)' = Arguments(s)
    BY <1>2 DEF Header, Arguments, bg_vars
  <2> QED BY <1>2, <2>1 DEF bg_vars, BgInv, BgTypeOK, PiecesKept, ResultsKept, DialogsKept
<1> QED BY <1>1, <1>2

(* However the dialogs of several children are nested, and whichever        *)
(* channels the event loops find readable: a result on its way to a child   *)
(* is that of the call the child waits in (background_attention and         *)
(* parent_call of src/task-background.c).                                   *)
THEOREM ResultsMatchCalls == BgSpec => []AnswersMatch
<1>1. BgInv => AnswersMatch
  <2> SUFFICES ASSUME BgInv, NEW t \in Tasks, NEW i \in DOMAIN down[t]
               PROVE  down[t][i] = <<t, calls[t]>> /\ state[t] \in {"wait", "gone"} /\ Len(down[t]) = 1
    BY DEF AnswersMatch
  <2>1. down[t] # << >>
    OBVIOUS
  <2>2. down[t] = <<<<t, calls[t]>>>> /\ state[t] \in {"wait", "gone"}
    BY <2>1 DEF BgInv, ResultsKept
  <2> QED BY <2>2
<1> QED BY <1>1, BgInitInv, BgStep, PTL DEF BgSpec

-----------------------------------------------------------------------------
(* The subshell.                                                            *)

(* What the subshell does, what waitpid tells of it and what is known of it *)
(* agree, whatever else is wrong.                                           *)
SignalsKept ==
  /\ DOMAIN shell = {"at", "line", "set"}
  /\ shell.at \in {"read", "run", "told", "stop", "dead"}
  /\ report \in {"none", "stop", "dead"}
  /\ report = "stop" => shell.at = "stop"
  /\ report = "dead" => shell.at = "dead"
  /\ subshell_stopped => shell.at \in {"stop", "dead"}
  /\ ~subshell_alive => shell.at = "dead"
  /\ subshell_state \in {"INACTIVE", "ACTIVE", "RUNNING_COMMAND"}
  /\ mc \in {"feed", "looked", "select", "sync"} => subshell_state # "INACTIVE"

(* A message is in the pipe from when it is written until synchronize waits *)
(* for the stop that follows it.                                            *)
MessagesKept ==
  /\ pipe # << >> => shell.at \in {"told", "stop"} /\ mc # "sync"
  /\ shell.at \in {"told", "stop"} /\ pipe = << >> => mc = "sync"
  /\ mc = "sync" => shell.at \in {"told", "stop", "dead"}

(* Nothing is under way when the subshell is inactive, nor when the user    *)
(* may leave it; a user who looks at it has sent one line at most.          *)
PromptKept ==
  /\ subshell_state = "INACTIVE" => AtPrompt
  /\ subshell_state = "ACTIVE" =>
       /\ input = << >> \/ (shell.at = "read" /\ Tail(input) = << >>)
       /\ subshell_ready => AtPrompt
  /\ /\ subshell_state = "RUNNING_COMMAND"
     /\ subshell_alive \/ mc \in {"looked", "select"}
     /\ visibly \/ mc \in {"panels", "next"}
     => ~subshell_ready

SubInv == SignalsKept /\ (~astray => MessagesKept /\ PromptKept)

(* A subshell at its first prompt.                                          *)
LEMMA SubInitInv == SubInit => SubInv
BY DEF SubInit, SubInv, SignalsKept, MessagesKept, PromptKept, AtPrompt

(* A line or a message in an empty queue is the only one.                   *)
LEMMA OneLine == \A x : Append(<< >>, x) = <<x>> /\ Tail(<<x>>) = << >> /\ <<x>> # << >>
OBVIOUS

(* The shell takes a line: none while it is inactive, the only one while    *)
(* the user looks at it.                                                    *)
LEMMA TakesLine == ASSUME SubInv, takes_line PROVE SubInv'
<1>1. /\ shell.at = "read" /\ input # << >> /\ input' = Tail(input)
      /\ shell' = [shell EXCEPT !.at = "run", !.line = Head(input), !.set = @ \/ Head(input).what = "precmd"]
      /\ UNCHANGED <<pipe, report, sigchld, kills, astray, live_vars, state_vars, mc_vars>>
  BY DEF takes_line
<1>2. DOMAIN shell' = {"at", "line", "set"} /\ shell'.at = "run"
  BY <1>1 DEF SubInv, SignalsKept
<1>3. SignalsKept'
  BY <1>1, <1>2 DEF SubInv, SignalsKept, live_vars, state_vars, mc_vars
<1>4. ~astray => MessagesKept' /\ PromptKept'
  BY <1>1, <1>2 DEF SubInv, MessagesKept, PromptKept, AtPrompt, live_vars, state_vars, mc_vars
<1> QED BY <1>1, <1>3, <1>4 DEF SubInv

(* The line ends, and the shell writes its directory and stops.             *)
LEMMA EndsLine == ASSUME SubInv, line_ends \/ kill_STOP PROVE SubInv'
<1>1. CASE line_ends
  <2>1. /\ shell.at = "run"
        /\ shell' = [shell EXCEPT !.at = IF shell.set THEN "told" ELSE "read"]
        /\ pipe' = IF shell.set THEN Append(pipe, shell.line.number) ELSE pipe
        /\ UNCHANGED <<input, report, sigchld, kills, astray, live_vars, state_vars, mc_vars>>
    BY <1>1 DEF line_ends
  <2>2. DOMAIN shell' = {"at", "line", "set"} /\ shell'.at = IF shell.set THEN "told" ELSE "read"
    BY <2>1 DEF SubInv, SignalsKept
  <2>3. SignalsKept'
    BY <2>1, <2>2 DEF SubInv, SignalsKept, live_vars, state_vars, mc_vars
  <2>4. ASSUME ~astray PROVE MessagesKept' /\ PromptKept'
    <3>1. pipe = << >> /\ mc # "sync"
      BY <2>1, <2>4 DEF SubInv, MessagesKept
    <3>2. pipe' = << >> <=> ~shell.set
      BY <2>1, <3>1, OneLine
    <3> QED BY <2>1, <2>2, <2>4, <3>1, <3>2
            DEF SubInv, MessagesKept, PromptKept, AtPrompt, live_vars, state_vars, mc_vars
  <2> QED BY <2>1, <2>3, <2>4 DEF SubInv
<1>2. CASE kill_STOP
  <2>1. /\ shell.at = "told" /\ shell' = [shell EXCEPT !.at = "stop"] /\ report' = "stop"
        /\ UNCHANGED <<input, pipe, kills, astray, live_vars, state_vars, mc_vars>>
    BY <1>2 DEF kill_STOP
  <2>2. DOMAIN shell' = {"at", "line", "set"} /\ shell'.at = "stop"
    BY <2>1 DEF SubInv, SignalsKept
  <2>3. SignalsKept'
    BY <2>1, <2>2 DEF SubInv, SignalsKept, live_vars, state_vars, mc_vars
  <2>4. ~astray => MessagesKept' /\ PromptKept'
    BY <2>1, <2>2 DEF SubInv, MessagesKept, PromptKept, AtPrompt, live_vars, state_vars, mc_vars
  <2> QED BY <2>1, <2>3, <2>4 DEF SubInv
<1> QED BY <1>1, <1>2

(* The shell dies, with nothing under way unless it is led astray.          *)
LEMMA ShellDies == ASSUME SubInv, exits \/ killed PROVE SubInv'
<1>1. /\ shell' = [shell EXCEPT !.at = "dead"] /\ report' = "dead"
      /\ astray' = (astray \/ input # << >> \/ pipe # << >>)
      /\ UNCHANGED <<input, pipe, live_vars, state_vars, mc_vars>>
  BY DEF exits, killed, Dies
<1>2. DOMAIN shell' = {"at", "line", "set"} /\ shell'.at = "dead"
  BY <1>1 DEF SubInv, SignalsKept
<1>3. SignalsKept'
  BY <1>1, <1>2 DEF SubInv, SignalsKept, live_vars, state_vars, mc_vars
<1>4. ~astray' => MessagesKept' /\ PromptKept'
  BY <1>1, <1>2 DEF SubInv, MessagesKept, PromptKept, AtPrompt, live_vars, state_vars, mc_vars
<1> QED BY <1>3, <1>4 DEF SubInv

(* SIGCHLD tells of a shell that has stopped or died.                       *)
LEMMA HandlesSigchld == ASSUME SubInv, sigchld_handler \/ sigsuspend PROVE SubInv'
<1>1. /\ report' = "none" /\ subshell_stopped' = (subshell_stopped \/ report = "stop")
      /\ subshell_alive' = (subshell_alive /\ report # "dead")
      /\ UNCHANGED <<shell, input, pipe, kills, astray, state_vars, visibly>>
      /\ mc' = mc \/ (mc = "select" /\ mc' = "feed")
  BY DEF sigchld_handler, sigsuspend, Handled
<1>2. SignalsKept'
  BY <1>1 DEF SubInv, SignalsKept, state_vars
<1>3. ~astray => MessagesKept' /\ PromptKept'
  BY <1>1 DEF SubInv, MessagesKept, PromptKept, AtPrompt, state_vars
<1> QED BY <1>1, <1>2, <1>3 DEF SubInv

(* A plan goes on, with a look at the shell or with a line for it.          *)
LEMMA SendsLine ==
  ASSUME SubInv, NEW p, Proceed(p), mc \in {"panels", "next"},
         UNCHANGED <<pipe, report, sigchld, kills, astray, live_vars, use_persistent_buffer>>
  PROVE  SubInv'
<1>1. /\ mc' = "feed" /\ visibly' = (Head(p) \in {"visit", "command"})
      /\ UNCHANGED <<pipe, report, astray, subshell_alive, subshell_stopped>>
  BY DEF Proceed, live_vars
<1>2. CASE Head(p) = "visit"
  <2>1. /\ subshell_state' = IF subshell_state = "INACTIVE" THEN "ACTIVE" ELSE subshell_state
        /\ UNCHANGED <<shell, input, subshell_ready>>
    BY <1>2 DEF Proceed
  <2>2. SignalsKept'
    BY <1>1, <2>1 DEF SubInv, SignalsKept
  <2>3. ~astray => MessagesKept'
    BY <1>1, <2>1 DEF SubInv, MessagesKept
  <2>4. ~astray => PromptKept'
    BY <1>1, <2>1 DEF SubInv, SignalsKept, PromptKept, AtPrompt
  <2> QED BY <1>1, <2>2, <2>3, <2>4 DEF SubInv
<1>3. CASE Head(p) # "visit"
  <2>1. /\ Written(Head(p)) /\ subshell_state' = "RUNNING_COMMAND"
        /\ subshell_ready' = (subshell_ready /\ Head(p) # "command")
    BY <1>3 DEF Proceed
  <2>2. /\ DOMAIN shell' = {"at", "line", "set"}
        /\ shell'.at = shell.at \/ (shell.at \in {"read", "run"} /\ shell'.at = "run")
    BY <2>1 DEF Written, SubInv, SignalsKept
  <2>3. SignalsKept'
    BY <1>1, <2>1, <2>2 DEF SubInv, SignalsKept
  <2>4. ~astray => MessagesKept'
    BY <1>1, <2>2 DEF SubInv, MessagesKept
  <2>5. PromptKept'
    BY <1>1, <1>3, <2>1 DEF PromptKept
  <2> QED BY <1>1, <2>3, <2>4, <2>5 DEF SubInv
<1> QED BY <1>2, <1>3

(* feed_subshell goes round its loop.                                       *)
LEMMA GoesRound == ASSUME SubInv, looks \/ selects PROVE SubInv'
<1>1. /\ (mc = "feed" /\ subshell_alive) \/ mc = "looked"
      /\ mc' \in {"looked", "select"}
      /\ UNCHANGED <<shell, input, pipe, report, astray, live_vars, state_vars, visibly>>
  BY DEF looks, selects, shell_vars
<1>2. SignalsKept'
  BY <1>1 DEF SubInv, SignalsKept, live_vars, state_vars
<1>3. ~astray => MessagesKept' /\ PromptKept'
  BY <1>1 DEF SubInv, MessagesKept, PromptKept, AtPrompt, live_vars, state_vars
<1> QED BY <1>1, <1>2, <1>3 DEF SubInv

(* feed_subshell reads the message.                                         *)
LEMMA ReadsCwd == ASSUME SubInv, reads_cwd PROVE SubInv'
<1>1. /\ mc = "select" /\ pipe # << >> /\ pipe' = << >> /\ mc' = "sync"
      /\ UNCHANGED <<shell, input, report, sigchld, kills, astray, live_vars, state_vars, visibly>>
  BY DEF reads_cwd
<1>2. SignalsKept'
  BY <1>1 DEF SubInv, SignalsKept, live_vars, state_vars
<1>3. ~astray => MessagesKept' /\ PromptKept'
  BY <1>1 DEF SubInv, MessagesKept, PromptKept, AtPrompt, live_vars, state_vars
<1> QED BY <1>1, <1>2, <1>3 DEF SubInv

(* synchronize goes on when the shell has stopped, or is dead, and leaves   *)
(* it at an empty prompt.                                                   *)
LEMMA Synchronizes == ASSUME SubInv, synchronize PROVE SubInv'
<1>1. /\ mc = "sync" /\ Stopped /\ input' = Flushed /\ subshell_stopped' = FALSE
      /\ shell' = IF shell.at = "stop" THEN [shell EXCEPT !.at = "read"] ELSE shell
      /\ report' = IF report = "stop" THEN "none" ELSE report
      /\ IF subshell_state = "RUNNING_COMMAND"
         THEN subshell_state' = "INACTIVE" /\ mc' = "next"
         ELSE mc' = "feed" /\ UNCHANGED subshell_state
      /\ UNCHANGED <<pipe, astray, subshell_alive, visibly>>
  BY DEF synchronize
<1>2. shell.at \in {"stop", "dead"}
  BY <1>1 DEF Stopped, SubInv, SignalsKept
<1>3. /\ DOMAIN shell' = {"at", "line", "set"}
      /\ shell'.at = IF shell.at = "stop" THEN "read" ELSE "dead"
  BY <1>1, <1>2 DEF SubInv, SignalsKept
<1>4. SignalsKept'
  BY <1>1, <1>2, <1>3 DEF SubInv, SignalsKept
<1>5. ASSUME ~astray PROVE MessagesKept' /\ PromptKept'
  <2>1. pipe = << >>
    BY <1>1, <1>5 DEF SubInv, MessagesKept
  <2>2. input' = << >>
    BY <1>1, <1>2, <1>5 DEF Flushed, SubInv, PromptKept
  <2> QED BY <1>1, <1>3, <1>5, <2>1, <2>2
             DEF SubInv, SignalsKept, MessagesKept, PromptKept, AtPrompt
<1> QED BY <1>1, <1>4, <1>5 DEF SubInv

(* The user types a line, with mc taking note of it or not.                 *)
LEMMA TypesLine == ASSUME SubInv, types_line PROVE SubInv'
<1>1. /\ mc = "select" /\ visibly /\ mc' = "feed"
      /\ UNCHANGED <<shell, pipe, report, sigchld, live_vars, subshell_state, visibly>>
  BY DEF types_line
<1>t. /\ input' = Append(input, Line("typed")) /\ (subshell_ready' => subshell_ready)
      /\ astray' = (astray \/ (subshell_state = "ACTIVE"
                                /\ (subshell_ready' \/ ~(shell.at = "read" /\ input = << >>))))
  BY DEF types_line, Typed
<1>2. SignalsKept'
  BY <1>1 DEF SubInv, SignalsKept, live_vars
<1>3. ~astray' => MessagesKept'
  BY <1>1, <1>t DEF SubInv, MessagesKept
<1>4. ASSUME ~astray' PROVE PromptKept'
  <2>1. subshell_state # "INACTIVE"
    BY <1>1 DEF SubInv, SignalsKept
  <2>2. subshell_state = "ACTIVE" => shell.at = "read" /\ Tail(input') = << >> /\ ~subshell_ready'
    BY <1>t, <1>4, OneLine
  <2>3. subshell_state = "RUNNING_COMMAND" => ~subshell_ready'
    BY <1>1, <1>t, <1>4 DEF SubInv, PromptKept
  <2> QED BY <1>1, <2>1, <2>2, <2>3 DEF PromptKept, live_vars
<1> QED BY <1>2, <1>3, <1>4 DEF SubInv

(* The user leaves the shell, behind a line or not, or finds it dead.       *)
LEMMA LeavesFeed == ASSUME SubInv, switch_key \/ feed_dead PROVE SubInv'
<1>1. CASE switch_key
  <2>1. /\ mc = "select" /\ visibly /\ mc' = "next"
        /\ subshell_state' = IF subshell_ready THEN "INACTIVE" ELSE subshell_state
        /\ UNCHANGED <<shell, pipe, report, live_vars, visibly>>
    BY <1>1 DEF switch_key
  <2>2. SignalsKept'
    BY <2>1 DEF SubInv, SignalsKept, live_vars
  <2>3. CASE UNCHANGED <<input, subshell_ready, astray>>
    <3>1. ~astray => MessagesKept' /\ PromptKept'
      BY <2>1, <2>3 DEF SubInv, SignalsKept, MessagesKept, PromptKept, AtPrompt, live_vars
    <3> QED BY <2>2, <2>3, <3>1 DEF SubInv
  <2>4. CASE Typed(FALSE)
    <3>1. /\ input' = Append(input, Line("typed")) /\ (subshell_ready' <=> subshell_ready)
          /\ astray' = (astray \/ (subshell_state = "ACTIVE"
                                    /\ (subshell_ready' \/ ~(shell.at = "read" /\ input = << >>))))
      BY <2>4 DEF Typed
    <3>2. ~astray' => MessagesKept'
      BY <2>1, <3>1 DEF SubInv, MessagesKept
    <3>3. ASSUME ~astray' PROVE PromptKept'
      <4>1. ~subshell_ready /\ subshell_state' = subshell_state /\ subshell_state # "INACTIVE"
        BY <2>1, <3>1, <3>3 DEF SubInv, SignalsKept, PromptKept
      <4>2. subshell_state = "ACTIVE" => shell.at = "read" /\ Tail(input') = << >>
        BY <3>1, <3>3, OneLine
      <4> QED BY <2>1, <3>1, <4>1, <4>2 DEF PromptKept
    <3> QED BY <2>2, <3>2, <3>3 DEF SubInv
  <2> QED BY <1>1, <2>3, <2>4 DEF switch_key
<1>2. CASE feed_dead
  <2>1. /\ mc = "feed" /\ ~subshell_alive /\ mc' = "next"
        /\ UNCHANGED <<shell, input, pipe, report, astray, subshell_alive, subshell_stopped,
                       state_vars, visibly>>
    BY <1>2 DEF feed_dead, shell_vars
  <2>2. SignalsKept'
    BY <2>1 DEF SubInv, SignalsKept, state_vars
  <2>3. ~astray => MessagesKept' /\ PromptKept'
    BY <2>1 DEF SubInv, SignalsKept, MessagesKept, PromptKept, AtPrompt, state_vars
  <2> QED BY <2>1, <2>2, <2>3 DEF SubInv
<1> QED BY <1>1, <1>2

(* The panels come back, or the program ends.                               *)
LEMMA ReturnsToPanels == ASSUME SubInv, returns \/ quits PROVE SubInv'
<1>1. /\ mc = "next" /\ mc' \in {"panels", "quit"} /\ (visibly' => visibly)
      /\ UNCHANGED <<shell, input, pipe, report, astray, live_vars, state_vars>>
  BY DEF returns, quits, shell_vars
<1>2. SignalsKept'
  BY <1>1 DEF SubInv, SignalsKept, live_vars, state_vars
<1>3. ~astray => MessagesKept' /\ PromptKept'
  BY <1>1 DEF SubInv, SignalsKept, MessagesKept, PromptKept, AtPrompt, live_vars, state_vars
<1> QED BY <1>1, <1>2, <1>3 DEF SubInv

(* A new shell is started, with nothing left by the old one in the pipe.    *)
LEMMA NewSubshell == ASSUME SubInv, init_subshell PROVE SubInv'
<1>1. /\ mc = "next" /\ ~subshell_alive /\ mc' = "feed" /\ visibly' = FALSE
      /\ shell' = [at |-> "read", line |-> Line("precmd"), set |-> FALSE]
      /\ report' = "none" /\ subshell_alive' = TRUE /\ subshell_stopped' = FALSE
      /\ subshell_state' = "RUNNING_COMMAND" /\ UNCHANGED <<pipe, astray>>
  BY DEF init_subshell
<1>2. SignalsKept'
  BY <1>1 DEF SignalsKept
<1>3. ~astray => pipe = << >>
  BY <1>1 DEF SubInv, SignalsKept, MessagesKept
<1>4. ~astray => MessagesKept' /\ PromptKept'
  BY <1>1, <1>3 DEF MessagesKept, PromptKept
<1> QED BY <1>1, <1>2, <1>4 DEF SubInv

(* Every step keeps the invariant.                                          *)
LEMMA SubStep == ASSUME SubInv, [SubNext]_sub_vars PROVE SubInv'
<1>1. CASE SubNext
  <2>1. do_subshell_chdir \/ invoke_subshell \/ goes_on => SubInv'
    BY SendsLine DEF do_subshell_chdir, invoke_subshell, Started, goes_on
  <2> QED BY <1>1, <2>1, TakesLine, EndsLine, ShellDies, HandlesSigchld, GoesRound, ReadsCwd, Synchronizes,
             TypesLine, LeavesFeed,
             ReturnsToPanels, NewSubshell DEF SubNext
<1>2. CASE UNCHANGED sub_vars
  BY <1>2 DEF sub_vars, SubInv, SignalsKept, MessagesKept, PromptKept, AtPrompt
<1> QED BY <1>1, <1>2

(* When the panels are back and the subshell is inactive, it stands at      *)
(* its prompt with nothing under way, unless a line was typed ahead or sent *)
(* with the switch key or other bytes behind it in one read, or a shell     *)
(* died and left some (feed_subshell and synchronize of                     *)
(* src/subshell/subshell-common.c).                                         *)
THEOREM InactiveIsAtPrompt == SubSpec => []InactiveAwaits
<1>1. SubInv => InactiveAwaits
  BY DEF SubInv, PromptKept, InactiveAwaits
<1> QED BY <1>1, SubInitInv, SubStep, PTL DEF SubSpec

-----------------------------------------------------------------------------
(* The saver of the console.                                                *)

(* What the two processes hold, while the saver lives.                      *)
Clients ==
  [at : {"init", "idle", "write", "flag", "clean", "echo", "begin", "end", "bytes", "lines", "last"},
   action : 0..4, begin : 0..ConsoleRows, end : 0..ConsoleRows, bytes : Nat, got : Seq(Nat)]
Savers ==
  [at : {"start", "loop", "save", "restore", "begin", "end", "send"},
   begin : 0..ConsoleRows, end : 0..ConsoleRows, last : 0..ConsoleRows]

ConsTypeOK ==
  /\ client \in Clients /\ saver \in Savers
  /\ requests \in Seq(Nat) /\ answers \in Seq(Nat)
  /\ client.begin <= client.end /\ cons_saver_pid = 1

(* The pipes hold `in' and `out', and the saver is at `at'.                 *)
Pipes(in, out, at) == requests = in /\ answers = out /\ saver.at = at

(* Of the lines asked for, those the saved screen has.                      *)
Lo == Least(client.begin, saver.last)
Hi == Least(client.end, saver.last)

(* The saver is past the number of lines; it has written those up to where  *)
(* it stands, and at the end the flag.                                      *)
Sending ==
  /\ requests = << >> /\ saver.at \in {"send", "loop"}
  /\ saver.end = Hi /\ Lo <= saver.begin /\ saver.begin <= Hi
  /\ saver.at = "loop" => saver.begin = Hi
(* What is under way to the screen, after the number of lines.              *)
Stream == IF client.at = "bytes" THEN Tail(answers) ELSE client.got \o answers
Sent ==
  /\ Len(Stream) = saver.begin - Lo + (IF saver.at = "loop" THEN 1 ELSE 0)
  /\ \A i \in 1..(saver.begin - Lo) : Stream[i] = Lo + i - 1

(* What has been shown is what was asked for.                               *)
Shown == client.got = [i \in 1..Len(client.got) |-> client.begin + i - 1]

(* Where the saver may be, and what is under way, at each step of the       *)
(* client.                                                                  *)
Beginning ==
  client.at = "init" =>
    client.action = 0 /\ (Pipes(<< >>, << >>, "start") \/ Pipes(<< >>, <<3>>, "loop"))

Between ==
  /\ client.at \in {"idle", "write"} => Pipes(<< >>, << >>, "loop")
  /\ client.at = "idle" /\ client.action = CONSOLE_CONTENTS => Shown
  /\ client.at = "write" => client.action \in 1..4

OfOneByte ==
  /\ client.at = "flag" =>
       \/ client.action \in {CONSOLE_SAVE, CONSOLE_RESTORE} /\ Pipes(<<client.action>>, << >>, "loop")
       \/ client.action = CONSOLE_SAVE /\ Pipes(<< >>, << >>, "save")
       \/ client.action = CONSOLE_RESTORE /\ Pipes(<< >>, << >>, "restore")
       \/ client.action \in {CONSOLE_SAVE, CONSOLE_RESTORE} /\ Pipes(<< >>, <<3>>, "loop")
  /\ client.at = "clean" => Pipes(<<CONSOLE_DONE>>, << >>, "loop")

OfLines ==
  client.at \in {"echo", "begin", "end", "bytes", "lines", "last"} =>
    client.action = CONSOLE_CONTENTS

Asking ==
  /\ client.at = "echo" => \/ Pipes(<<CONSOLE_CONTENTS>>, << >>, "loop")
                           \/ Pipes(<< >>, <<CONSOLE_CONTENTS>>, "begin")
  /\ client.at = "begin" => Pipes(<< >>, << >>, "begin")
  /\ client.at = "end" => \/ Pipes(<<client.begin>>, << >>, "begin")
                          \/ Pipes(<< >>, << >>, "end") /\ saver.begin = client.begin
  /\ client.at = "bytes" => \/ Pipes(<<client.begin, client.end>>, << >>, "begin")
                            \/ Pipes(<<client.end>>, << >>, "end") /\ saver.begin = client.begin
                            \/ Sending /\ answers # << >> /\ Head(answers) = Hi - Lo /\ Sent
  /\ client.at \in {"write", "echo", "begin", "end", "bytes"} => client.got = << >>

Answering ==
  client.at \in {"lines", "last"} =>
    /\ Sending /\ client.bytes = Hi - Lo /\ Sent
    /\ client.at = "lines" => Len(client.got) < client.bytes
    /\ client.at = "last" => Len(client.got) = client.bytes

Dialogue ==
  ConsTypeOK /\ Beginning /\ Between /\ OfOneByte /\ OfLines /\ Asking /\ Answering

ConsInv == death = "no" => Dialogue

(* Sequences of two numbers.                                                *)
LEMMA AppendOne == \A m, n \in Nat : Append(<<m>>, n) = <<m, n>>
<1> SUFFICES ASSUME NEW m \in Nat, NEW n \in Nat PROVE Append(<<m>>, n) = <<m, n>>
  OBVIOUS
<1>1. <<m>> \in Seq(Nat) /\ <<m, n>> \in Seq(Nat)
  OBVIOUS
<1>2. Append(<<m>>, n) \in Seq(Nat) /\ Len(Append(<<m>>, n)) = 2
  BY <1>1
<1>3. Append(<<m>>, n)[1] = m /\ Append(<<m>>, n)[2] = n
  BY <1>1
<1>4. \A i \in 1..2 : i = 1 \/ i = 2
  OBVIOUS
<1>5. <<m, n>>[1] = m /\ <<m, n>>[2] = n /\ Len(<<m, n>>) = 2
  OBVIOUS
<1> DEFINE s == Append(<<m>>, n)
           t == <<m, n>>
<1> HIDE DEF s, t
<1>6. /\ s \in Seq(Nat) /\ t \in Seq(Nat) /\ Len(s) = Len(t) /\ Len(s) = 2
      /\ s[1] = t[1] /\ s[2] = t[2]
  BY <1>1, <1>2, <1>3, <1>5 DEF s, t
<1>7. \A i \in 1..Len(s) : s[i] = t[i]
  BY <1>4, <1>6
<1>8. s = t
  BY <1>6, <1>7, SeqEqual
<1> QED BY <1>8 DEF s, t

(* What is left of two numbers.                                             *)
LEMMA TailOfTwo == \A m, n \in Nat : Tail(<<m, n>>) = <<n>>
<1> SUFFICES ASSUME NEW m \in Nat, NEW n \in Nat PROVE Tail(<<m, n>>) = <<n>>
  OBVIOUS
<1>1. <<n>> \in Seq(Nat) /\ <<m, n>> \in Seq(Nat) /\ <<m, n>> # << >>
  OBVIOUS
<1>2. Tail(<<m, n>>) \in Seq(Nat) /\ Len(Tail(<<m, n>>)) = 1 /\ Tail(<<m, n>>)[1] = n
  BY <1>1, HeadTailProperties
<1> QED BY <1>1, <1>2, SeqEqual

(* The sequences of bytes that a pipe may hold between two steps.           *)
LEMMA SequenceFacts ==
  /\ \A s \in Seq(Nat) : s \o << >> = s /\ << >> \o s = s
  /\ \A n \in Nat, s \in Seq(Nat) : Append(s, n) = s \o <<n>>
  /\ \A n \in Nat : /\ Append(<< >>, n) = <<n>> /\ Head(<<n>>) = n /\ Tail(<<n>>) = << >>
                    /\ <<n>> # << >> /\ << >> \o <<n>> = <<n>>
  /\ \A m, n \in Nat : /\ Append(<<m>>, n) = <<m, n>> /\ Head(<<m, n>>) = m
                       /\ Tail(<<m, n>>) = <<n>> /\ <<m, n>> # << >>
<1>1. \A s \in Seq(Nat) : s \o << >> = s /\ << >> \o s = s
  BY ConcatEmptySeq
<1>2. \A n \in Nat, s \in Seq(Nat) : Append(s, n) = s \o <<n>>
  BY AppendIsConcat
<1>3. \A n \in Nat : /\ Append(<< >>, n) = <<n>> /\ Head(<<n>>) = n /\ Tail(<<n>>) = << >>
                     /\ <<n>> # << >>
  OBVIOUS
<1>4. \A n \in Nat : <<n>> \in Seq(Nat)
  OBVIOUS
<1>5. \A m, n \in Nat : /\ Append(<<m>>, n) = <<m, n>> /\ Head(<<m, n>>) = m
                        /\ Tail(<<m, n>>) = <<n>> /\ <<m, n>> # << >>
  <2>1. \A m, n \in Nat : Head(<<m, n>>) = m /\ <<m, n>> # << >>
    OBVIOUS
  <2> QED BY <2>1, AppendOne, TailOfTwo
<1> QED BY <1>1, <1>2, <1>3, <1>4, <1>5

(* Both are about to start.                                                 *)
LEMMA ConsInitInv == ConsInit => ConsInv
BY RowsAssumption
   DEF ConsInit, ConsStart, ConsInv, Dialogue, ConsTypeOK, Beginning, Between, OfOneByte,
   OfLines, Asking, Answering, Pipes, Clients, Savers

(* What the saver's place says of the client's, and of the pipes.           *)
LEMMA Places ==
  ASSUME Dialogue
  PROVE  /\ saver.at = "start" => client.at = "init" /\ Pipes(<< >>, << >>, "start")
         /\ saver.at \in {"save", "restore"} =>
              /\ client.at = "flag" /\ Pipes(<< >>, << >>, saver.at)
              /\ client.action \in {CONSOLE_SAVE, CONSOLE_RESTORE}
         /\ saver.at = "loop" /\ requests # << >> =>
              /\ client.at \in {"flag", "clean", "echo"} /\ answers = << >>
              /\ client.at = "flag" => client.action \in {CONSOLE_SAVE, CONSOLE_RESTORE}
                                       /\ requests = <<client.action>>
              /\ client.at = "clean" => requests = <<CONSOLE_DONE>>
              /\ client.at = "echo" => requests = <<CONSOLE_CONTENTS>>
         /\ saver.at = "begin" /\ requests # << >> =>
              /\ client.at \in {"end", "bytes"} /\ answers = << >>
              /\ client.at = "end" => requests = <<client.begin>>
              /\ client.at = "bytes" => requests = <<client.begin, client.end>>
         /\ saver.at = "end" =>
              /\ client.at \in {"end", "bytes"} /\ answers = << >> /\ saver.begin = client.begin
              /\ client.at = "end" => requests = << >>
              /\ client.at = "bytes" => requests = <<client.end>>
         /\ saver.at = "send" => client.at \in {"bytes", "lines", "last"} /\ Sending
<1>1. client.at \in {"init", "idle", "write", "flag", "clean", "echo", "begin", "end",
                     "bytes", "lines", "last"}
  BY DEF Dialogue, ConsTypeOK, Clients
<1> QED
  BY <1>1 DEF Dialogue, Beginning, Between, OfOneByte, Asking, Answering, Pipes, Sending,
     CONSOLE_SAVE, CONSOLE_RESTORE

(* The saver is ready, or has restored the screen.                          *)
LEMMA SaverReady == ASSUME Dialogue, saver_ready PROVE Dialogue'
<1>1. /\ saver.at \in {"start", "restore"} /\ saver' = [saver EXCEPT !.at = "loop"]
      /\ answers' = answers \o <<3>> /\ UNCHANGED <<client, cons_saver_pid, requests>>
  BY DEF saver_ready, Saver
<1>2. /\ client.at \in {"init", "flag"} /\ answers = << >> /\ requests = << >>
      /\ client.at = "flag" => client.action \in {CONSOLE_SAVE, CONSOLE_RESTORE}
  BY <1>1, Places DEF Pipes
<1>3. answers' = <<3>>
  BY <1>1, <1>2, SequenceFacts
<1>4. saver' \in Savers /\ saver'.at = "loop"
  BY <1>1 DEF Dialogue, ConsTypeOK, Savers
<1>5. ConsTypeOK'
  BY <1>1, <1>3, <1>4 DEF Dialogue, ConsTypeOK
<1> QED
  BY <1>1, <1>2, <1>3, <1>4, <1>5
     DEF Dialogue, Beginning, Between, OfOneByte, OfLines, Asking, Answering, Pipes

(* The saver has read the screen.                                           *)
LEMMA SaverSaves == ASSUME Dialogue, saver_saves PROVE Dialogue'
<1>1. PICK l \in 0..ConsoleRows : Saver([saver EXCEPT !.at = "loop", !.last = l], <<3>>)
  BY DEF saver_saves
<1>2. /\ saver.at = "save" /\ saver' = [saver EXCEPT !.at = "loop", !.last = l]
      /\ answers' = answers \o <<3>> /\ UNCHANGED <<client, cons_saver_pid, requests>>
  BY <1>1 DEF saver_saves, Saver
<1>3. /\ client.at = "flag" /\ answers = << >> /\ requests = << >>
      /\ client.action \in {CONSOLE_SAVE, CONSOLE_RESTORE}
  BY <1>2, Places DEF Pipes
<1>4. answers' = <<3>>
  BY <1>2, <1>3, SequenceFacts
<1>5. saver' \in Savers /\ saver'.at = "loop"
  BY <1>2 DEF Dialogue, ConsTypeOK, Savers
<1>6. ConsTypeOK'
  BY <1>2, <1>4, <1>5 DEF Dialogue, ConsTypeOK
<1> QED
  BY <1>2, <1>3, <1>4, <1>5, <1>6
     DEF Dialogue, Beginning, Between, OfOneByte, OfLines, Asking, Answering, Pipes

(* The saver takes a request: the one the client has made.                  *)
LEMMA SaverReads == ASSUME Dialogue, saver_reads, death' = "no" PROVE Dialogue'
<1>1. /\ saver.at = "loop" /\ requests # << >> /\ requests' = Tail(requests)
      /\ Takes \in {CONSOLE_CONTENTS, CONSOLE_SAVE, CONSOLE_RESTORE}
      /\ saver' = [saver EXCEPT !.at = IF Takes = CONSOLE_CONTENTS THEN "begin"
                                       ELSE IF Takes = CONSOLE_SAVE THEN "save" ELSE "restore"]
      /\ answers' = (IF Takes = CONSOLE_CONTENTS THEN answers \o <<CONSOLE_CONTENTS>> ELSE answers \o << >>)
      /\ UNCHANGED <<client, cons_saver_pid>>
  <2>1. saver.at = "loop" /\ requests # << >> /\ requests' = Tail(requests)
    BY DEF saver_reads
  <2>2. Takes \in {CONSOLE_DONE, CONSOLE_CONTENTS, CONSOLE_SAVE, CONSOLE_RESTORE}
    BY <2>1, Places, SequenceFacts
       DEF Takes, CONSOLE_DONE, CONSOLE_CONTENTS, CONSOLE_SAVE, CONSOLE_RESTORE
  <2>3. CASE Takes = CONSOLE_DONE
    BY <2>3 DEF saver_reads, CONSOLE_DONE, CONSOLE_CONTENTS, CONSOLE_SAVE, CONSOLE_RESTORE
  <2>4. CASE Takes = CONSOLE_CONTENTS
    BY <2>1, <2>4
       DEF saver_reads, Saver, CONSOLE_DONE, CONSOLE_CONTENTS, CONSOLE_SAVE, CONSOLE_RESTORE
  <2>5. CASE Takes = CONSOLE_SAVE
    BY <2>1, <2>5
       DEF saver_reads, Saver, CONSOLE_DONE, CONSOLE_CONTENTS, CONSOLE_SAVE, CONSOLE_RESTORE
  <2>6. CASE Takes = CONSOLE_RESTORE
    BY <2>1, <2>6
       DEF saver_reads, Saver, CONSOLE_DONE, CONSOLE_CONTENTS, CONSOLE_SAVE, CONSOLE_RESTORE
  <2> QED BY <2>2, <2>3, <2>4, <2>5, <2>6
<1>2. /\ client.at \in {"flag", "clean", "echo"} /\ answers = << >>
      /\ client.at = "flag" => client.action \in {CONSOLE_SAVE, CONSOLE_RESTORE}
                               /\ requests = <<client.action>>
      /\ client.at = "clean" => requests = <<CONSOLE_DONE>>
      /\ client.at = "echo" => requests = <<CONSOLE_CONTENTS>>
  BY <1>1, Places
<1>3. /\ requests' = << >> /\ client.at # "clean"
      /\ client.at = "flag" => Takes = client.action
      /\ client.at = "echo" => Takes = CONSOLE_CONTENTS
  BY SMTT(60), <1>1, <1>2, SequenceFacts
     DEF Takes, CONSOLE_DONE, CONSOLE_CONTENTS, CONSOLE_SAVE, CONSOLE_RESTORE
<1>4. answers' = IF Takes = CONSOLE_CONTENTS THEN <<CONSOLE_CONTENTS>> ELSE << >>
  BY <1>1, <1>2, SequenceFacts DEF CONSOLE_CONTENTS
<1>5. /\ saver' \in Savers
      /\ saver'.at = IF Takes = CONSOLE_CONTENTS THEN "begin"
                     ELSE IF Takes = CONSOLE_SAVE THEN "save" ELSE "restore"
  BY <1>1 DEF Dialogue, ConsTypeOK, Savers
<1>6. ConsTypeOK'
  BY <1>1, <1>3, <1>4, <1>5 DEF Dialogue, ConsTypeOK, CONSOLE_CONTENTS
<1> QED
  BY <1>1, <1>2, <1>3, <1>4, <1>5, <1>6
     DEF Dialogue, Beginning, Between, OfOneByte, OfLines, Asking, Answering, Pipes,
     CONSOLE_CONTENTS, CONSOLE_SAVE, CONSOLE_RESTORE

(* The saver reads the first line asked for.                                *)
LEMMA ReadsBegin == ASSUME Dialogue, reads_begin PROVE Dialogue'
<1>1. /\ saver.at = "begin" /\ requests # << >> /\ requests' = Tail(requests)
      /\ saver' = [saver EXCEPT !.begin = Takes, !.at = "end"]
      /\ answers' = answers \o << >> /\ UNCHANGED <<client, cons_saver_pid>>
  BY DEF reads_begin, Saver
<1>2. /\ client.at \in {"end", "bytes"} /\ answers = << >>
      /\ client.at = "end" => requests = <<client.begin>>
      /\ client.at = "bytes" => requests = <<client.begin, client.end>>
      /\ client.begin \in 0..ConsoleRows /\ client.end \in 0..ConsoleRows
  BY <1>1, Places DEF Dialogue, ConsTypeOK, Clients
<1>3. /\ Takes = client.begin /\ answers' = << >>
      /\ client.at = "end" => requests' = << >>
      /\ client.at = "bytes" => requests' = <<client.end>>
  <2>1. answers' = << >> /\ client.begin \in Nat /\ client.end \in Nat
    BY <1>1, <1>2, SequenceFacts, RowsAssumption
  <2>2. CASE client.at = "end"
    BY <1>1, <1>2, <2>1, <2>2, SequenceFacts DEF Takes
  <2>3. CASE client.at = "bytes"
    <3>1. requests = <<client.begin, client.end>>
      BY <1>2, <2>3
    <3>2. /\ Head(<<client.begin, client.end>>) = client.begin
          /\ Tail(<<client.begin, client.end>>) = <<client.end>>
      BY <2>1, TailOfTwo
    <3> QED BY <1>1, <2>1, <2>3, <3>1, <3>2 DEF Takes
  <2> QED BY <1>2, <2>1, <2>2, <2>3
<1>4. saver' \in Savers /\ saver'.at = "end" /\ saver'.begin = client.begin
  BY <1>1, <1>2, <1>3 DEF Dialogue, ConsTypeOK, Savers
<1>5. ConsTypeOK'
  BY <1>1, <1>2, <1>3, <1>4, RowsAssumption DEF Dialogue, ConsTypeOK
<1> QED
  BY <1>1, <1>2, <1>3, <1>4, <1>5
     DEF Dialogue, Beginning, Between, OfOneByte, OfLines, Asking, Answering, Pipes

(* The saver reads the last line asked for, and answers with a number of    *)
(* lines that fits its type.                                                *)
LEMMA ReadsEnd == ASSUME Dialogue, reads_end PROVE Dialogue'
<1> DEFINE b == Clipped(saver.begin)
           e == Clipped(Takes)
<1>1. /\ saver.at = "end" /\ requests # << >> /\ requests' = Tail(requests)
      /\ saver' = [saver EXCEPT !.begin = b, !.end = e, !.at = "send"]
      /\ answers' = answers \o <<(e - b) % Bytes>> /\ UNCHANGED <<client, cons_saver_pid>>
  BY DEF reads_end, Saver, Begin
<1>2. /\ client.at = "bytes" /\ answers = << >> /\ saver.begin = client.begin
      /\ requests = <<client.end>>
      /\ client.begin \in 0..ConsoleRows /\ client.end \in 0..ConsoleRows
      /\ saver.last \in 0..ConsoleRows /\ client.begin <= client.end
  BY <1>1, Places DEF Dialogue, ConsTypeOK, Clients, Savers
<1>3. /\ Takes = client.end /\ requests' = << >> /\ b = Lo /\ e = Hi
  BY <1>1, <1>2, SequenceFacts, RowsAssumption DEF Takes, Clipped, Lo, Hi
<1>4. Lo \in 0..ConsoleRows /\ Hi \in 0..ConsoleRows /\ Lo <= Hi /\ Hi - Lo \in Nat
  BY <1>2, RowsAssumption DEF Lo, Hi, Least
<1> HIDE DEF b, e
<1>5. saver' \in Savers /\ saver'.begin = Lo /\ saver'.end = Hi /\ saver'.at = "send" /\ saver'.last = saver.last
  BY <1>1, <1>3, <1>4 DEF Dialogue, ConsTypeOK, Savers
<1>6. Lo' = Lo /\ Hi' = Hi
  BY <1>1, <1>5 DEF Lo, Hi
<1>7. (Hi - Lo) % Bytes = Hi - Lo
  BY <1>4, BytesAssumption, RowsAssumption
<1>8. answers' = <<Hi - Lo>>
  BY <1>1, <1>2, <1>3, <1>4, <1>7, SequenceFacts
<1>9. ConsTypeOK'
  BY <1>1, <1>3, <1>4, <1>5, <1>8 DEF Dialogue, ConsTypeOK
<1>10. Sending' /\ answers' # << >> /\ Head(answers') = Hi - Lo /\ Tail(answers') = << >>
  BY <1>3, <1>4, <1>5, <1>6, <1>8, SequenceFacts DEF Sending
<1>11. Sent'
  BY <1>1, <1>2, <1>4, <1>5, <1>6, <1>10 DEF Sent, Stream
<1> QED
  BY <1>1, <1>2, <1>5, <1>6, <1>9, <1>10, <1>11
  DEF Dialogue, Beginning, Between, OfOneByte, OfLines, Asking, Answering, Pipes

(* Concatenation is associative.                                            *)
LEMMA Associative == \A s, t, u \in Seq(Nat) : (s \o t) \o u = s \o (t \o u)
<1> SUFFICES ASSUME NEW s \in Seq(Nat), NEW t \in Seq(Nat), NEW u \in Seq(Nat)
             PROVE  (s \o t) \o u = s \o (t \o u)
  OBVIOUS
<1> QED BY SMTT(60), ConcatAssociative

(* A byte added at the end leaves the one at the head.                      *)
LEMMA TailOfConcat ==
  ASSUME NEW s \in Seq(Nat), NEW n \in Nat, s # << >>
  PROVE  /\ Head(s \o <<n>>) = Head(s) /\ Tail(s \o <<n>>) = Tail(s) \o <<n>>
         /\ s \o <<n>> # << >>
<1> DEFINE t == s \o <<n>>
<1>1. t \in Seq(Nat) /\ Len(t) = Len(s) + 1 /\ Len(s) \in Nat \ {0} /\ t # << >>
  BY EmptySeq
<1>2. \A i \in 1..Len(s) : t[i] = s[i]
  OBVIOUS
<1>3. t[Len(s) + 1] = n
  OBVIOUS
<1> HIDE DEF t
<1>4. Head(t) = t[1] /\ Head(s) = s[1]
  BY <1>1
<1> DEFINE u == Tail(s) \o <<n>>
<1>5. Tail(s) \in Seq(Nat) /\ Len(Tail(s)) = Len(s) - 1 /\ \A i \in 1..(Len(s) - 1) : Tail(s)[i] = s[i + 1]
  BY HeadTailProperties
<1>6. /\ u \in Seq(Nat) /\ Len(u) = Len(s) /\ u[Len(s)] = n
      /\ \A i \in 1..(Len(s) - 1) : u[i] = s[i + 1]
  BY <1>1, <1>5
<1>7. Tail(t) \in Seq(Nat) /\ Len(Tail(t)) = Len(s) /\ \A i \in 1..Len(s) : Tail(t)[i] = t[i + 1]
  BY <1>1, HeadTailProperties
<1> HIDE DEF u
<1>8. \A i \in 1..Len(s) : Tail(t)[i] = u[i]
  <2> TAKE i \in 1..Len(s)
  <2>1. CASE i = Len(s)
    BY <1>1, <1>3, <1>6, <1>7, <2>1
  <2>2. CASE i < Len(s)
    <3>1. i \in 1..(Len(s) - 1) /\ i + 1 \in 1..Len(s)
      BY <1>1, <2>2
    <3> QED BY <1>2, <1>6, <1>7, <3>1
  <2> QED BY <1>1, <2>1, <2>2
<1>9. Tail(t) = u
  BY <1>6, <1>7, <1>8, SeqEqual
<1> QED BY <1>1, <1>2, <1>4, <1>9 DEF t, u

(* The saver writes one more byte of its answer.                            *)
LEMMA StreamGrows ==
  ASSUME Dialogue, saver.at = "send", NEW n \in Nat, answers' = answers \o <<n>>,
         client' = client
  PROVE  /\ client.at \in {"bytes", "lines", "last"} /\ Sending /\ Sent
         /\ Stream \in Seq(Nat) /\ Stream' = Stream \o <<n>> /\ answers' \in Seq(Nat)
         /\ client.at = "bytes" => Head(answers') = Hi - Lo /\ answers' # << >>
<1>1. /\ client.at \in {"bytes", "lines", "last"} /\ Sending
      /\ answers \in Seq(Nat) /\ client.got \in Seq(Nat)
  BY Places DEF Dialogue, ConsTypeOK, Clients
<1>2. answers' \in Seq(Nat) /\ <<n>> \in Seq(Nat)
  BY <1>1
<1>3. CASE client.at = "bytes"
  <2>1. answers # << >> /\ Head(answers) = Hi - Lo /\ Sent
    BY <1>3 DEF Dialogue, Asking, Pipes
  <2>2. Head(answers') = Hi - Lo /\ Stream' = Stream \o <<n>> /\ Stream = Tail(answers) /\ answers' # << >>
    BY <1>1, <1>3, <2>1, TailOfConcat DEF Stream
  <2> QED BY <1>1, <1>2, <1>3, <2>1, <2>2, HeadTailProperties
<1>4. CASE client.at # "bytes"
  <2>1. Sent
    BY <1>1, <1>4 DEF Dialogue, Answering
  <2>2. Stream = client.got \o answers /\ Stream' = client.got \o (answers \o <<n>>)
    BY <1>4 DEF Stream
  <2>3. Stream' = Stream \o <<n>>
    <3>1. client.got \in Seq(Nat) /\ answers \in Seq(Nat) /\ <<n>> \in Seq(Nat)
      BY <1>1, <1>2
    <3>2. (client.got \o answers) \o <<n>> = client.got \o (answers \o <<n>>)
      BY <3>1, Associative
    <3> QED BY <2>2, <3>2
  <2>4. Stream \in Seq(Nat)
    BY <1>1, <2>2
  <2> QED BY <1>1, <1>2, <1>4, <2>1, <2>3, <2>4
<1> QED BY <1>3, <1>4

(* The saver sends a line, or after the last of them the flag.              *)
LEMMA SendsScreen == ASSUME Dialogue, sends_line \/ sends_flag PROVE Dialogue'
<1>1. saver.at = "send" /\ UNCHANGED <<client, cons_saver_pid, requests>>
  BY DEF sends_line, sends_flag, Saver
<1>2. /\ saver.begin \in 0..ConsoleRows /\ saver.last \in 0..ConsoleRows
      /\ client.begin \in 0..ConsoleRows /\ client.end \in 0..ConsoleRows /\ client.begin <= client.end
  BY DEF Dialogue, ConsTypeOK, Clients, Savers
<1>3. Lo \in 0..ConsoleRows /\ Hi \in 0..ConsoleRows /\ Lo <= Hi
  BY <1>2, RowsAssumption DEF Lo, Hi, Least
<1>4. PICK n \in Nat : /\ answers' = answers \o <<n>>
                       /\ \/ /\ saver.begin < saver.end /\ n = saver.begin
                             /\ saver' = [saver EXCEPT !.begin = @ + 1]
                          \/ /\ saver.begin >= saver.end
                             /\ saver' = [saver EXCEPT !.at = "loop"]
  <2>1. CASE sends_line
    BY <1>2, <2>1, RowsAssumption DEF sends_line, Saver
  <2>2. CASE sends_flag
    BY <2>2 DEF sends_flag, Saver
  <2> QED BY <2>1, <2>2
<1>5. /\ client.at \in {"bytes", "lines", "last"} /\ Sending /\ Sent
      /\ Stream \in Seq(Nat) /\ Stream' = Stream \o <<n>> /\ answers' \in Seq(Nat)
      /\ client.at = "bytes" => Head(answers') = Hi - Lo /\ answers' # << >>
  BY <1>1, <1>4, StreamGrows
<1>6. requests = << >> /\ saver.end = Hi /\ Lo <= saver.begin /\ saver.begin <= Hi
  BY <1>5 DEF Sending
<1>7. /\ Len(Stream) = saver.begin - Lo
      /\ \A i \in 1..(saver.begin - Lo) : Stream[i] = Lo + i - 1
  BY <1>1, <1>2, <1>3, <1>5 DEF Sent
<1>8. /\ Len(Stream') = saver.begin - Lo + 1 /\ Stream'[saver.begin - Lo + 1] = n
      /\ \A i \in 1..(saver.begin - Lo) : Stream'[i] = Lo + i - 1
  <2> DEFINE s == Stream
             k == saver.begin - Lo
  <2>1. k \in Nat
    BY <1>2, <1>3, <1>6
  <2> HIDE DEF s, k
  <2>2. s \in Seq(Nat) /\ Len(s) = k /\ <<n>> \in Seq(Nat)
    BY <1>5, <1>7 DEF s, k
  <2>3. Len(s \o <<n>>) = k + 1 /\ (s \o <<n>>)[k + 1] = n /\ \A i \in 1..k : (s \o <<n>>)[i] = s[i]
    BY <2>1, <2>2
  <2> QED BY <1>5, <1>7, <2>3 DEF s, k
<1>9. /\ saver' \in Savers /\ saver'.last = saver.last
      /\ \/ saver'.at = "send" /\ saver'.begin = saver.begin + 1 /\ saver.begin < Hi /\ n = saver.begin
         \/ saver'.at = "loop" /\ saver'.begin = saver.begin /\ saver.begin = Hi
      /\ saver'.end = saver.end
  <2>1. CASE saver.begin < Hi /\ n = saver.begin /\ saver' = [saver EXCEPT !.begin = @ + 1]
    <3>1. saver.begin + 1 \in 0..ConsoleRows
      BY <1>2, <1>3, <2>1, RowsAssumption
    <3> QED BY <1>1, <2>1, <3>1 DEF Dialogue, ConsTypeOK, Savers
  <2>2. CASE saver.begin >= Hi /\ saver' = [saver EXCEPT !.at = "loop"]
    <3>1. saver.begin = Hi
      BY <1>2, <1>3, <1>6, <2>2
    <3> QED BY <2>2, <3>1 DEF Dialogue, ConsTypeOK, Savers
  <2> QED BY <1>3, <1>4, <1>6, <2>1, <2>2
<1>10. Lo' = Lo /\ Hi' = Hi
  BY <1>1, <1>9 DEF Lo, Hi
<1>11. ConsTypeOK'
  BY <1>1, <1>5, <1>9 DEF Dialogue, ConsTypeOK
<1>12. Sending'
  BY <1>1, <1>2, <1>3, <1>6, <1>9, <1>10 DEF Sending
<1>13. Sent'
  <2>1. CASE saver'.at = "loop"
    BY <1>8, <1>9, <1>10, <2>1 DEF Sent
  <2>2. CASE saver'.at = "send"
    <3>1. saver'.begin = saver.begin + 1 /\ n = saver.begin
      BY <1>9, <2>2
    <3>2. ASSUME NEW i \in 1..(saver.begin + 1 - Lo) PROVE Stream'[i] = Lo + i - 1
      <4>1. CASE i = saver.begin - Lo + 1
        BY SMTT(60), <1>2, <1>3, <1>8, <3>1, <4>1
      <4>2. CASE i # saver.begin - Lo + 1
        <5>1. i \in 1..(saver.begin - Lo)
          BY <1>2, <1>3, <1>6, <4>2
        <5> QED BY <1>8, <5>1
      <4> QED BY <4>1, <4>2
    <3>3. Len(Stream') = saver.begin + 1 - Lo
      BY SMTT(60), <1>2, <1>3, <1>8
    <3>4. /\ saver'.begin - Lo' = saver.begin + 1 - Lo /\ Lo' = Lo
          /\ saver.begin + 1 - Lo + 0 = saver.begin + 1 - Lo
      BY <1>2, <1>3, <1>10, <3>1
    <3> QED BY <2>2, <3>2, <3>3, <3>4 DEF Sent
  <2> QED BY <1>9, <2>1, <2>2
<1> QED
  BY <1>1, <1>5, <1>10, <1>11, <1>12, <1>13
  DEF Dialogue, Beginning, Between, OfOneByte, OfLines, Asking, Answering, Pipes

(* The client begins a request.                                             *)
LEMMA RequestBegins ==
  ASSUME Dialogue, NEW action \in 1..4, NEW b \in 0..ConsoleRows, NEW e \in 0..ConsoleRows, b <= e,
         handle_console(action, b, e), death = "no"
  PROVE  Dialogue'
<1>1. /\ client.at = "idle" /\ UNCHANGED <<cons_saver_pid, saver, requests, answers>>
      /\ client' = [client EXCEPT !.at = "write", !.action = action, !.begin = b,
                                  !.end = e, !.bytes = 0, !.got = << >>]
  BY DEF handle_console, Dialogue, ConsTypeOK
<1>2. /\ client' \in Clients /\ client'.at = "write" /\ client'.action = action /\ client'.got = << >>
      /\ client'.begin = b /\ client'.end = e
  <2>1. << >> \in Seq(Nat) /\ action \in 0..4
    OBVIOUS
  <2> QED BY <1>1, <2>1 DEF Dialogue, ConsTypeOK, Clients
<1>3. ConsTypeOK'
  BY <1>1, <1>2 DEF Dialogue, ConsTypeOK
<1> QED
  BY <1>1, <1>2, <1>3
     DEF Dialogue, Beginning, Between, OfOneByte, OfLines, Asking, Answering, Pipes

(* While the saver lives, a write arrives.                                  *)
LEMMA WriteArrives ==
  ASSUME Dialogue, NEW byte \in Nat, NEW next \in Clients, Writes(byte, next)
  PROVE  /\ client' = next /\ requests' = Append(requests, byte)
         /\ UNCHANGED <<cons_saver_pid, saver, answers>>
         /\ next.begin <= next.end => ConsTypeOK'
<1>1. /\ client' = next /\ requests' = Append(requests, byte)
      /\ UNCHANGED <<cons_saver_pid, saver, answers>>
  BY DEF Writes, Dialogue, ConsTypeOK, Savers
<1> QED BY <1>1 DEF Dialogue, ConsTypeOK

(* The client writes what it wants.                                         *)
LEMMA WritesAction == ASSUME Dialogue, writes_action PROVE Dialogue'
<1> DEFINE at == CASE client.action = CONSOLE_CONTENTS -> "echo"
                   [] client.action = CONSOLE_DONE -> "clean"
                   [] OTHER -> "flag"
           next == [client EXCEPT !.at = at]
<1>1. /\ client.at = "write" /\ Pipes(<< >>, << >>, "loop") /\ client.got = << >>
      /\ client.action \in 1..4 /\ Writes(client.action, next)
  BY DEF writes_action, Dialogue, Between, Asking
<1>2. /\ client.action = CONSOLE_CONTENTS => at = "echo"
      /\ client.action = CONSOLE_DONE => at = "clean"
      /\ client.action \in {CONSOLE_SAVE, CONSOLE_RESTORE} => at = "flag"
      /\ client.action \in {CONSOLE_CONTENTS, CONSOLE_DONE, CONSOLE_SAVE, CONSOLE_RESTORE}
  BY <1>1 DEF CONSOLE_CONTENTS, CONSOLE_DONE, CONSOLE_SAVE, CONSOLE_RESTORE
<1> HIDE DEF at
<1>3. /\ next \in Clients /\ next.at = at /\ next.begin = client.begin /\ next.end = client.end
      /\ next.action = client.action /\ next.got = << >>
  BY <1>1, <1>2 DEF Dialogue, ConsTypeOK, Clients
<1>4. next.begin <= next.end
  BY <1>3 DEF Dialogue, ConsTypeOK
<1> HIDE DEF next
<1>5. /\ client' = next /\ requests' = Append(requests, client.action)
      /\ UNCHANGED <<cons_saver_pid, saver, answers>> /\ ConsTypeOK'
  <2>1. client.action \in Nat
    BY <1>1
  <2> QED BY <1>1, <1>3, <1>4, <2>1, WriteArrives
<1>6. requests' = <<client.action>> /\ answers' = << >> /\ saver'.at = "loop"
  BY <1>1, <1>5, SequenceFacts DEF Pipes
<1> QED
  BY <1>1, <1>2, <1>3, <1>5, <1>6
     DEF Dialogue, Beginning, Between, OfOneByte, OfLines, Asking, Answering, Pipes

(* The client writes the lines it wants.                                    *)
LEMMA WritesBounds == ASSUME Dialogue, writes_begin \/ writes_end PROVE Dialogue'
<1> DEFINE at == IF client.at = "begin" THEN "end" ELSE "bytes"
           byte == IF client.at = "begin" THEN client.begin ELSE client.end
           next == [client EXCEPT !.at = at]
<1>1. /\ client.at \in {"begin", "end"} /\ Writes(byte, next)
      /\ client.at = "begin" => Pipes(<< >>, << >>, "begin")
      /\ client.at = "end" => \/ Pipes(<<client.begin>>, << >>, "begin")
                              \/ Pipes(<< >>, << >>, "end") /\ saver.begin = client.begin
      /\ client.got = << >> /\ client.action = CONSOLE_CONTENTS
  BY DEF writes_begin, writes_end, Dialogue, Asking, OfLines
<1>2. byte \in Nat /\ client.begin \in Nat /\ client.end \in Nat
  BY RowsAssumption DEF Dialogue, ConsTypeOK, Clients
<1>3. /\ next \in Clients /\ next.at = at /\ next.begin = client.begin /\ next.end = client.end
      /\ next.action = client.action /\ next.got = client.got
  BY <1>1 DEF Dialogue, ConsTypeOK, Clients
<1>4. next.begin <= next.end
  BY <1>3 DEF Dialogue, ConsTypeOK
<1> HIDE DEF next
<1>5. /\ client' = next /\ requests' = Append(requests, byte)
      /\ UNCHANGED <<cons_saver_pid, saver, answers>> /\ ConsTypeOK'
  BY <1>1, <1>2, <1>3, <1>4, WriteArrives
<1>6. CASE client.at = "begin"
  <2>1. Pipes(<<client.begin>>, << >>, "begin")'
    BY <1>1, <1>2, <1>3, <1>5, <1>6, SequenceFacts DEF Pipes
  <2>2. client'.at = "end"
    BY <1>3, <1>5, <1>6
  <2> QED
    BY <1>1, <1>3, <1>5, <2>1, <2>2
       DEF Dialogue, Beginning, Between, OfOneByte, OfLines, Asking, Answering
<1>7. CASE client.at = "end"
  <2>1. \/ Pipes(<<client.begin, client.end>>, << >>, "begin")'
        \/ Pipes(<<client.end>>, << >>, "end")' /\ saver'.begin = client'.begin
    <3>1. byte = client.end /\ client'.begin = client.begin /\ client'.end = client.end
      BY <1>3, <1>5, <1>7
    <3>2. CASE Pipes(<<client.begin>>, << >>, "begin")
      BY ZenonT(60), <1>2, <1>5, <3>1, <3>2, SequenceFacts DEF Pipes
    <3>3. CASE Pipes(<< >>, << >>, "end") /\ saver.begin = client.begin
      BY <1>2, <1>5, <3>1, <3>3, SequenceFacts DEF Pipes
    <3> QED BY <1>1, <1>7, <3>2, <3>3
  <2>2. client'.at = "bytes"
    BY <1>3, <1>5, <1>7
  <2> QED
    BY <1>1, <1>3, <1>5, <2>1, <2>2
       DEF Dialogue, Beginning, Between, OfOneByte, OfLines, Asking, Answering
<1> QED BY <1>1, <1>6, <1>7

(* While the saver lives, a read takes a byte that is there.                *)
LEMMA ReadTakes ==
  ASSUME Dialogue, NEW next \in Clients, Read(next)
  PROVE  /\ answers # << >> /\ client' = next /\ answers' = Tail(answers)
         /\ UNCHANGED <<cons_saver_pid, saver, requests>>
         /\ Head(answers) \in Nat /\ Tail(answers) \in Seq(Nat)
         /\ Len(answers) \in Nat /\ Len(Tail(answers)) = Len(answers) - 1
         /\ next.begin <= next.end => ConsTypeOK'
<1>1. answers # << >> /\ client' = next /\ UNCHANGED <<cons_saver_pid, saver, requests>>
  BY DEF Read, CanRead, Dialogue, ConsTypeOK, Savers
<1>2. answers' = Tail(answers)
  BY <1>1 DEF Read
<1>3. Head(answers) \in Nat /\ Tail(answers) \in Seq(Nat) /\ Len(answers) \in Nat
      /\ Len(Tail(answers)) = Len(answers) - 1
  BY <1>1, HeadTailProperties, LenProperties DEF Dialogue, ConsTypeOK
<1> QED BY <1>1, <1>2, <1>3 DEF Dialogue, ConsTypeOK

(* The client reads its request back.                                       *)
LEMMA ReadsEcho == ASSUME Dialogue, reads_echo PROVE Dialogue'
<1> DEFINE at == IF ReadValue(CONSOLE_CONTENTS) = CONSOLE_CONTENTS THEN "begin" ELSE "idle"
           next == [client EXCEPT !.at = at]
<1>1. /\ client.at = "echo" /\ Read(next) /\ client.action = CONSOLE_CONTENTS /\ client.got = << >>
      /\ \/ Pipes(<<CONSOLE_CONTENTS>>, << >>, "loop")
         \/ Pipes(<< >>, <<CONSOLE_CONTENTS>>, "begin")
  BY DEF reads_echo, Dialogue, Asking, OfLines
<1>2. /\ next \in Clients /\ next.at = at /\ next.begin = client.begin /\ next.end = client.end
      /\ next.action = CONSOLE_CONTENTS /\ next.got = << >> /\ next.begin <= next.end
  BY <1>1 DEF Dialogue, ConsTypeOK, Clients
<1> HIDE DEF next, at
<1>3. /\ answers # << >> /\ client' = next /\ answers' = Tail(answers) /\ ConsTypeOK'
      /\ UNCHANGED <<cons_saver_pid, saver, requests>>
  BY <1>1, <1>2, ReadTakes
<1>4. requests = << >> /\ answers = <<CONSOLE_CONTENTS>> /\ saver.at = "begin"
  BY <1>1, <1>3 DEF Pipes
<1>5. answers' = << >> /\ at = "begin"
  BY <1>3, <1>4, SequenceFacts DEF at, ReadValue, CONSOLE_CONTENTS
<1> QED
  BY <1>2, <1>3, <1>4, <1>5
     DEF Dialogue, Beginning, Between, OfOneByte, OfLines, Asking, Answering, Pipes

(* The client reads the flag, which is not zero while the saver lives.      *)
LEMMA ReadsFlag == ASSUME Dialogue, reads_flag PROVE Dialogue'
<1> DEFINE f == ReadValue(console_flag)
           next == [client EXCEPT !.at = IF f = 0 THEN "clean" ELSE "idle"]
<1>1. client.at \in {"init", "flag"} /\ Read(next)
  BY DEF reads_flag
<1>2. next \in Clients /\ next.begin <= next.end
  BY <1>1 DEF Dialogue, ConsTypeOK, Clients
<1>3. /\ answers # << >> /\ client' = next /\ answers' = Tail(answers) /\ ConsTypeOK'
      /\ UNCHANGED <<cons_saver_pid, saver, requests>>
  BY <1>1, <1>2, ReadTakes
<1>4. /\ Pipes(<< >>, <<3>>, "loop")
      /\ client.at = "flag" => client.action \in {CONSOLE_SAVE, CONSOLE_RESTORE}
  BY <1>1, <1>3 DEF Dialogue, Beginning, OfOneByte, Pipes
<1>5. f # 0
  BY <1>3, <1>4, SequenceFacts DEF ReadValue, Pipes
<1>6. client'.at = "idle" /\ client'.action = client.action
  BY <1>3, <1>5 DEF Dialogue, ConsTypeOK, Clients
<1>7. Pipes(<< >>, << >>, "loop")'
  BY <1>3, <1>4, SequenceFacts DEF Pipes
<1>8. client.at = "init" => client.action # CONSOLE_CONTENTS
  BY DEF Dialogue, Beginning, CONSOLE_CONTENTS
<1> QED
  BY <1>1, <1>3, <1>4, <1>6, <1>7, <1>8
  DEF Dialogue, Beginning, Between, OfOneByte, OfLines, Asking, Answering, CONSOLE_SAVE, CONSOLE_RESTORE, CONSOLE_CONTENTS

(* The client reads the number of lines.                                    *)
LEMMA ReadsBytes == ASSUME Dialogue, reads_bytes PROVE Dialogue'
<1> DEFINE n == ReadValue(0)
           next == [client EXCEPT !.bytes = n, !.at = IF n = 0 THEN "last" ELSE "lines"]
<1>1. client.at = "bytes" /\ Read(next) /\ client.got = << >> /\ client.action = CONSOLE_CONTENTS
  BY DEF reads_bytes, Dialogue, Asking, OfLines
<1>2. n \in Nat
  BY HeadTailProperties DEF ReadValue, Dialogue, ConsTypeOK
<1>3. /\ next \in Clients /\ next.bytes = n /\ next.at = (IF n = 0 THEN "last" ELSE "lines")
      /\ next.begin = client.begin /\ next.end = client.end /\ next.got = << >>
      /\ next.action = CONSOLE_CONTENTS /\ next.begin <= next.end
  BY <1>1, <1>2 DEF Dialogue, ConsTypeOK, Clients
<1> HIDE DEF next
<1>4. /\ answers # << >> /\ client' = next /\ answers' = Tail(answers) /\ ConsTypeOK'
      /\ UNCHANGED <<cons_saver_pid, saver, requests>> /\ Tail(answers) \in Seq(Nat)
  BY <1>1, <1>3, ReadTakes
<1>5. Sending /\ n = Hi - Lo /\ Sent
  BY <1>1, <1>4 DEF Dialogue, Asking, Pipes, ReadValue
<1>6. Lo' = Lo /\ Hi' = Hi /\ client'.bytes = n /\ client'.got = << >>
  BY <1>3, <1>4 DEF Lo, Hi
<1>7. Stream' = Stream
  BY <1>1, <1>3, <1>4, <1>6, SequenceFacts DEF Stream
<1>8. Sending' /\ Sent'
  BY <1>4, <1>5, <1>6, <1>7 DEF Sending, Sent
<1>9. /\ client'.at = "lines" => Len(client'.got) < client'.bytes
      /\ client'.at = "last" => Len(client'.got) = client'.bytes
      /\ client'.at \in {"lines", "last"} /\ client'.action = CONSOLE_CONTENTS
  BY <1>2, <1>3, <1>4
<1> QED
  BY <1>4, <1>5, <1>6, <1>8, <1>9
  DEF Dialogue, Beginning, Between, OfOneByte, OfLines, Asking, Answering

(* The client reads a line.                                                 *)
LEMMA ReadsLine == ASSUME Dialogue, reads_line PROVE Dialogue'
<1> DEFINE line == ReadValue(0)
           next == [client EXCEPT !.got = Append(@, line),
                                  !.at = IF Len(client.got) + 1 = client.bytes THEN "last" ELSE "lines"]
<1>1. client.at = "lines" /\ Read(next) /\ client.action = CONSOLE_CONTENTS
  BY DEF reads_line, Dialogue, OfLines
<1>2. line \in Nat /\ client.got \in Seq(Nat) /\ client.bytes \in Nat /\ answers \in Seq(Nat)
  BY HeadTailProperties DEF ReadValue, Dialogue, ConsTypeOK, Clients
<1>3. Append(client.got, line) \in Seq(Nat) /\ Len(Append(client.got, line)) = Len(client.got) + 1
      /\ Len(client.got) \in Nat
  BY <1>2
<1> HIDE DEF line
<1>4. /\ next \in Clients /\ next.bytes = client.bytes /\ next.got = Append(client.got, line)
      /\ next.at = (IF Len(client.got) + 1 = client.bytes THEN "last" ELSE "lines")
      /\ next.begin = client.begin /\ next.end = client.end
      /\ next.action = CONSOLE_CONTENTS /\ next.begin <= next.end
  BY <1>1, <1>3 DEF Dialogue, ConsTypeOK, Clients
<1> HIDE DEF next
<1>5. /\ answers # << >> /\ client' = next /\ answers' = Tail(answers) /\ ConsTypeOK'
      /\ UNCHANGED <<cons_saver_pid, saver, requests>> /\ Tail(answers) \in Seq(Nat)
  BY <1>1, <1>4, ReadTakes
<1>6. Sending /\ client.bytes = Hi - Lo /\ Sent /\ Len(client.got) < client.bytes
  BY <1>1 DEF Dialogue, Answering
<1>7. Lo' = Lo /\ Hi' = Hi
  BY <1>4, <1>5 DEF Lo, Hi
<1>8. Stream' = Stream
  <2>1. line = Head(answers) /\ answers = <<line>> \o Tail(answers)
    BY <1>2, <1>5 DEF line, ReadValue
  <2>2. Stream' = (client.got \o <<line>>) \o Tail(answers) /\ Stream = client.got \o answers
    BY <1>1, <1>2, <1>4, <1>5, SequenceFacts DEF Stream
  <2>3. <<line>> \in Seq(Nat)
    BY <1>2
  <2>4. (client.got \o <<line>>) \o Tail(answers) = client.got \o (<<line>> \o Tail(answers))
    BY ZenonT(60), <1>2, <1>5, <2>3, Associative
  <2> QED BY <2>1, <2>2, <2>4
<1>9. Sending' /\ Sent'
  BY <1>5, <1>6, <1>7, <1>8 DEF Sending, Sent
<1>10. /\ client'.at = "lines" => Len(client'.got) < client'.bytes
       /\ client'.at = "last" => Len(client'.got) = client'.bytes
       /\ client'.at \in {"lines", "last"} /\ client'.action = CONSOLE_CONTENTS /\ client'.bytes = client.bytes
  BY SMTT(60), <1>2, <1>3, <1>4, <1>5, <1>6
<1> QED
  BY <1>5, <1>6, <1>7, <1>9, <1>10
  DEF Dialogue, Beginning, Between, OfOneByte, OfLines, Asking, Answering

(* The client reads the flag that ends the lines, and leaves the pipes      *)
(* empty.                                                                   *)
LEMMA ReadsLast == ASSUME Dialogue, reads_last PROVE Dialogue'
<1> DEFINE next == [client EXCEPT !.at = "idle"]
<1>1. client.at = "last" /\ Read(next)
  BY DEF reads_last
<1>2. /\ next \in Clients /\ next.at = "idle" /\ next.got = client.got /\ next.action = client.action
      /\ next.begin = client.begin /\ next.end = client.end /\ next.begin <= next.end
  BY DEF Dialogue, ConsTypeOK, Clients
<1> HIDE DEF next
<1>3. /\ answers # << >> /\ client' = next /\ answers' = Tail(answers) /\ ConsTypeOK'
      /\ UNCHANGED <<cons_saver_pid, saver, requests>> /\ Tail(answers) \in Seq(Nat)
      /\ Len(answers) \in Nat /\ Len(Tail(answers)) = Len(answers) - 1
  BY <1>1, <1>2, ReadTakes
<1>4. /\ Sending /\ client.bytes = Hi - Lo /\ Sent /\ Len(client.got) = Hi - Lo
      /\ client.got \in Seq(Nat) /\ answers \in Seq(Nat)
  BY <1>1 DEF Dialogue, Answering, ConsTypeOK, Clients
<1>5. /\ saver.begin \in 0..ConsoleRows /\ saver.last \in 0..ConsoleRows
      /\ client.begin \in 0..ConsoleRows /\ client.end \in 0..ConsoleRows /\ client.begin <= client.end
  BY DEF Dialogue, ConsTypeOK, Clients, Savers
<1>6. Lo \in 0..ConsoleRows /\ Hi \in 0..ConsoleRows /\ Lo <= Hi /\ (Lo < Hi => Lo = client.begin)
  BY <1>5, RowsAssumption DEF Lo, Hi, Least
<1>7. /\ Len(client.got) + Len(answers) = saver.begin - Lo + (IF saver.at = "loop" THEN 1 ELSE 0)
      /\ \A i \in 1..Len(client.got) : Stream[i] = client.got[i]
      /\ \A i \in 1..(saver.begin - Lo) : Stream[i] = Lo + i - 1
  <2>1. /\ Len(client.got \o answers) = Len(client.got) + Len(answers)
        /\ \A i \in 1..Len(client.got) : (client.got \o answers)[i] = client.got[i]
    BY <1>4
  <2>2. Stream = client.got \o answers
    BY <1>1 DEF Stream
  <2> QED BY <1>4, <2>1, <2>2 DEF Sent
<1>8. Len(answers) # 0
  BY <1>3, <1>4, EmptySeq
<1>9. saver.at = "loop" /\ saver.begin = Hi /\ Len(answers) = 1 /\ requests = << >>
  BY SMTT(60), <1>3, <1>4, <1>5, <1>6, <1>7, <1>8 DEF Sending
<1>10. answers' = << >>
  BY <1>3, <1>9, EmptySeq
<1>11. \A i \in 1..Len(client.got) : client.got[i] = client.begin + i - 1
  <2> TAKE i \in 1..Len(client.got)
  <2>1. i \in 1..(Hi - Lo) /\ Lo < Hi
    BY <1>4, <1>6
  <2>2. i \in 1..(saver.begin - Lo)
    BY <1>9, <2>1
  <2>3. client.got[i] = Lo + i - 1
    BY <1>7, <2>2
  <2> QED BY <1>6, <2>1, <2>3
<1>12. Shown
  <2>1. client.got = [i \in 1..Len(client.got) |-> client.got[i]]
    BY <1>4, LenProperties
  <2> QED BY <1>11, <2>1, Zenon DEF Shown
<1> QED
  BY <1>2, <1>3, <1>9, <1>10, <1>12
  DEF Dialogue, Beginning, Between, OfOneByte, OfLines, Asking, Answering, Pipes, Shown

(* Every step keeps the invariant.                                          *)
LEMMA ConsStep == ASSUME ConsInv, [ConsNext]_cons_vars PROVE ConsInv'
<1> SUFFICES ASSUME death' = "no" PROVE Dialogue'
  BY DEF ConsInv
<1>1. death = "no" => Dialogue
  BY DEF ConsInv
<1>2. CASE die \/ saver_killed \/ subshell_handle_cons_saver
  BY <1>2 DEF die, saver_killed, subshell_handle_cons_saver
<1>3. CASE Steps
  <2>1. death = "no"
    BY <1>3
       DEF Steps, saver_ready, saver_saves, saver_reads, reads_begin, reads_end, sends_line,
           sends_flag, Saver
  <2> QED BY <1>1, <1>3, <2>1, SaverReady, SaverSaves, SaverReads, ReadsBegin, ReadsEnd,
             SendsScreen
             DEF Steps
<1>4. CASE Turns
  <2>1. death = "no"
    BY <1>4
       DEF Turns, writes_action, reads_echo, writes_begin, writes_end, reads_bytes, reads_line,
           reads_last,
       reads_flag, cleans_up, Writes, Read
  <2>2. ~cleans_up
    BY <1>1, <2>1 DEF cleans_up, Dialogue, ConsTypeOK
  <2> QED BY <1>1, <1>4, <2>1, <2>2, WritesAction, WritesBounds, ReadsEcho, ReadsFlag,
             ReadsBytes, ReadsLine,
             ReadsLast DEF Turns
<1>5. ASSUME NEW action \in {CONSOLE_SAVE, CONSOLE_RESTORE, CONSOLE_DONE}, handle_console(action, 0, 0)
      PROVE  Dialogue'
  <2>1. death = "no" /\ action \in 1..4 /\ 0 \in 0..ConsoleRows /\ 0 <= 0
    BY <1>5, RowsAssumption DEF handle_console, CONSOLE_SAVE, CONSOLE_RESTORE, CONSOLE_DONE
  <2> QED BY <1>1, <1>5, <2>1, RequestBegins
<1>6. ASSUME NEW b \in 0..ConsoleRows, NEW e \in 0..ConsoleRows, b <= e, handle_console(CONSOLE_CONTENTS, b, e)
      PROVE  Dialogue'
  <2>1. death = "no" /\ CONSOLE_CONTENTS \in 1..4
    BY <1>6 DEF handle_console, CONSOLE_CONTENTS
  <2> QED BY <1>1, <1>6, <2>1, RequestBegins
<1>7. CASE UNCHANGED cons_vars
  BY ZenonT(60), <1>1, <1>7
     DEF cons_vars, Dialogue, ConsTypeOK, Beginning, Between, OfOneByte, OfLines, Asking,
         Answering,
     Pipes, Sending, Sent, Stream, Shown, Lo, Hi
<1> QED BY <1>2, <1>3, <1>4, <1>5, <1>6, <1>7 DEF ConsNext

(* While the saver lives, a request finds the pipes empty and leaves them   *)
(* so, and the lines shown are those asked for that the saved screen has    *)
(* (handle_console of src/cons.handler.c, and src/consaver/cons.saver.c).   *)
THEOREM SaverTurnsMatch == ConsSpec => []TurnsMatch
<1>1. ConsInv => TurnsMatch
  BY DEF ConsInv, Dialogue, Between, Pipes, Shown, TurnsMatch
<1> QED BY <1>1, ConsInitInv, ConsStep, PTL DEF ConsSpec
=============================================================================
