--------------------------- MODULE TaskBackground ---------------------------
(***************************************************************************)
(* Background operations (src/task-background.c, with the channels of      *)
(* lib/tty/key.c): each is a child process that calls functions of its     *)
(* parent.  It writes a message, piece by piece, to one pipe and blocks in *)
(* a read of another until the parent has written the result.              *)
(*                                                                         *)
(* The parent reads a message in background_attention, which the event     *)
(* loop calls for each readable channel.  What it then calls may show a    *)
(* dialog, with an event loop of its own in which other children may be    *)
(* served before the first one gets its result.  The set of readable       *)
(* channels is a local variable of each event loop; reads block.           *)
(*                                                                         *)
(* No pipe is ever read to its end: the parent keeps the writing end of    *)
(* every pipe it reads.  So a child that has died is not noticed.          *)
(***************************************************************************)
EXTENDS Integers, Sequences

CONSTANTS
  Tasks,     \* the children
  NoTask,
  MaxQuestions,   \* bound: questions of each child
  MaxDeaths  \* bound: children killed

ASSUME NoTaskAssumption == NoTask \notin Tasks
ASSUME AsksAssumption == MaxQuestions \in Nat /\ MaxDeaths \in Nat

VARIABLES
  state,       \* of each child: "work", "ask", "wait", "gone"
  calls,       \* calls it has begun
  ending,      \* it calls end_bg_process, its last call
  up, down,    \* the two pipes of each child
  registered,  \* children on task_list and select_list
  loops,       \* the event loops of the parent, the outermost first
  deaths

bg_vars == <<state, calls, ending, up, down, registered, loops, deaths>>

(* A message is the header and the arguments; the result names the call.    *)
Header(t) == [call |-> calls[t], last |-> FALSE, ends |-> ending[t]]
Arguments(t) == [Header(t) EXCEPT !.last = TRUE]

(* An event loop: the channels select found readable, and the child being   *)
(* attended to, with the call whose result it waits for.                    *)
EventLoop == [ready |-> {}, task |-> NoTask, call |-> 0]

Depth == Len(loops)
Innermost == loops[Depth]
Inner == SubSeq(loops, 1, Depth - 1)

-----------------------------------------------------------------------------
(* The child: parent_call, for a question and at the very end.              *)

parent_call(t, last) ==
  /\ state[t] = "work" /\ (last \/ calls[t] < MaxQuestions)
  /\ state' = [state EXCEPT ![t] = "ask"]
  /\ calls' = [calls EXCEPT ![t] = @ + 1]
  /\ ending' = [ending EXCEPT ![t] = last]
  /\ UNCHANGED <<up, down, registered, loops, deaths>>

parent_call_header(t) ==
  /\ state[t] = "ask"
  /\ up' = [up EXCEPT ![t] = Append(@, Header(t))]
  /\ state' = [state EXCEPT ![t] = "args"]
  /\ UNCHANGED <<calls, ending, down, registered, loops, deaths>>

parent_va_call(t) ==
  /\ state[t] = "args"
  /\ up' = [up EXCEPT ![t] = Append(@, Arguments(t))]
  /\ state' = [state EXCEPT ![t] = "wait"]
  /\ UNCHANGED <<calls, ending, down, registered, loops, deaths>>

(* The result is read; the child goes on, or exits after its last call.     *)
result_read(t) ==
  /\ state[t] = "wait" /\ down[t] # << >>
  /\ down' = [down EXCEPT ![t] = Tail(@)]
  /\ state' = [state EXCEPT ![t] = IF ending[t] THEN "gone" ELSE "work"]
  /\ UNCHANGED <<calls, ending, up, registered, loops, deaths>>

dies(t) ==
  /\ state[t] # "gone" /\ deaths < MaxDeaths
  /\ state' = [state EXCEPT ![t] = "gone"]
  /\ deaths' = deaths + 1
  /\ UNCHANGED <<calls, ending, up, down, registered, loops>>

-----------------------------------------------------------------------------
(* The parent.                                                              *)

Readable == {t \in registered : up[t] # << >>}

select ==
  /\ Innermost.task = NoTask /\ Innermost.ready \intersect registered = {} /\ Readable # {}
  /\ loops' = [loops EXCEPT ![Depth].ready = Readable]
  /\ UNCHANGED <<state, calls, ending, up, down, registered, deaths>>

(* A channel found readable is attended to, if it is still on the list,     *)
(* whether or not it has been emptied since.                                *)
check_selects(t) ==
  /\ Innermost.task = NoTask /\ t \in Innermost.ready \intersect registered
  /\ loops' = [loops EXCEPT ![Depth].ready = @ \ {t}, ![Depth].task = t]
  /\ UNCHANGED <<state, calls, ending, up, down, registered, deaths>>

\* Mutant: the result goes to the child that was registered last.
Reply_first(t, call) ==
  LET s == CHOOSE s \in registered : TRUE
  IN  down' = [down EXCEPT ![s] = Append(@, <<t, call>>)]

(* The result is written to the pipe noted in the list of tasks.            *)
Reply(t, call) == down' = [down EXCEPT ![t] = Append(@, <<t, call>>)]

\* Mutant: the parent forgets the child without answering its last call.
end_bg_process_silent(t, call) ==
  /\ registered' = registered \ {t}
  /\ loops' = [loops EXCEPT ![Depth].task = NoTask]
  /\ UNCHANGED down

end_bg_process(t, call) ==
  /\ registered' = registered \ {t}
  /\ loops' = [loops EXCEPT ![Depth].task = NoTask]
  /\ Reply(t, call)

(* background_attention reads the next piece; with the last one it makes    *)
(* the call: end_bg_process, or a dialog with an event loop of its own.     *)
background_attention(t) ==
  /\ Innermost.task = t /\ up[t] # << >>
  /\ up' = [up EXCEPT ![t] = Tail(@)]
  /\ LET piece == Head(up[t]) IN
       \/ ~piece.last /\ UNCHANGED <<registered, loops, down>>
       \/ piece.last /\ piece.ends /\ end_bg_process(t, piece.call)
       \/ /\ piece.last /\ ~piece.ends
          /\ loops' = Append([loops EXCEPT ![Depth].call = piece.call], EventLoop)
          /\ UNCHANGED <<registered, down>>
  /\ UNCHANGED <<state, calls, ending, deaths>>

(* The user answers the innermost dialog.                                   *)
dialog_answered ==
  /\ Depth > 1 /\ Innermost.task = NoTask /\ Innermost.ready \intersect registered = {}
  /\ LET outer == loops[Depth - 1] IN
       /\ Reply(outer.task, outer.call)
       /\ loops' = [Inner EXCEPT ![Depth - 1].task = NoTask, ![Depth - 1].call = 0]
  /\ UNCHANGED <<state, calls, ending, up, registered, deaths>>

(* The user kills a child from the list of background jobs (task_cb).       *)
task_cb(t) ==
  /\ Depth = 1 /\ Innermost.task = NoTask /\ Innermost.ready \intersect registered = {}
  /\ t \in registered
  /\ registered' = registered \ {t}
  /\ state' = [state EXCEPT ![t] = "gone"]
  /\ UNCHANGED <<calls, ending, up, down, loops, deaths>>

-----------------------------------------------------------------------------
BgInit ==
  /\ state = [t \in Tasks |-> "work"]
  /\ calls = [t \in Tasks |-> 0] /\ ending = [t \in Tasks |-> FALSE]
  /\ up = [t \in Tasks |-> << >>] /\ down = [t \in Tasks |-> << >>]
  /\ registered = Tasks                     \* do_background
  /\ loops = <<EventLoop>>
  /\ deaths = 0

ChildStep(t) ==
  \/ parent_call(t, TRUE)
  \/ parent_call_header(t) \/ parent_va_call(t) \/ result_read(t)

Parent ==
  \/ select \/ dialog_answered
  \/ \E t \in Tasks : check_selects(t) \/ background_attention(t)

BgNext ==
  \/ \E t \in Tasks : ChildStep(t) \/ parent_call(t, FALSE) \/ dies(t) \/ task_cb(t)
  \/ Parent

(* Children get on with their work and end, the parent serves its channels, *)
(* and the user answers the dialogs.                                        *)
BgFairness ==
  /\ WF_bg_vars(Parent)
  /\ \A t \in Tasks : WF_bg_vars(ChildStep(t))

BgSpec == BgInit /\ [][BgNext]_bg_vars /\ BgFairness

-----------------------------------------------------------------------------
(* A result on its way to a child is that of the call the child waits in,   *)
(* however the dialogs of several children are nested.                      *)
AnswersMatch ==
  \A t \in Tasks : \A i \in DOMAIN down[t] :
    down[t][i] = <<t, calls[t]>> /\ state[t] \in {"wait", "gone"} /\ Len(down[t]) = 1

(* The parent blocks in a read for a child that has died.                   *)
Hung == Innermost.task # NoTask /\ up[Innermost.task] = << >> /\ state[Innermost.task] = "gone"

(* A child that waits gets its result, even where the parent reads from a   *)
(* channel that a nested event loop has emptied, unless it hangs in a read  *)
(* from a child that is no more.                                            *)
EveryCallReturns ==
  \A t \in Tasks : (state[t] = "wait") ~> (state[t] # "wait" \/ Hung)
=============================================================================
