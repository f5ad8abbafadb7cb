----------------------------- MODULE MCProgress -----------------------------
(***************************************************************************)
(* What must come to an end, one of it in each behaviour: Undo and Redo of *)
(* a group of key presses, and the requests to the programs mc talks to,   *)
(* which are the background operations it has forked, the subshell, and    *)
(* the console saver.                                                      *)
(***************************************************************************)
EXTENDS MCEditUndo, TaskBackground, Subshell, ConsSaver

VARIABLE part

all == <<part, vars, bg_vars, sub_vars, cons_vars>>

(* Only one of the parts takes steps.  A console that is not looked at is   *)
(* between two requests.                                                    *)
ProgressInit ==
  /\ part \in {"undo", "tasks", "subshell", "console"}
  /\ UndoInit /\ BgInit /\ SubInit
  /\ part # "subshell" => ~use_persistent_buffer
  /\ IF part = "console" THEN ConsInit ELSE ConsStart("idle", "loop")

ProgressNext ==
  \/ part = "undo" /\ KeysNext /\ UNCHANGED <<part, bg_vars, sub_vars, cons_vars>>
  \/ part = "tasks" /\ BgNext /\ UNCHANGED <<part, vars, sub_vars, cons_vars>>
  \/ part = "subshell" /\ SubNext /\ UNCHANGED <<part, vars, bg_vars, cons_vars>>
  \/ part = "console" /\ ConsNext /\ UNCHANGED <<part, vars, bg_vars, sub_vars>>

(* The fairness of the four, for the one that runs.                         *)
ProgressFairness ==
  /\ WF_vars(part = "undo" /\ (UndoStep \/ RedoStep))
  /\ WF_bg_vars(part = "tasks" /\ Parent)
  /\ \A t \in Tasks : WF_bg_vars(part = "tasks" /\ ChildStep(t))
  /\ WF_sub_vars(part = "subshell" /\ (takes_line \/ line_ends \/ kill_STOP))
  /\ WF_sub_vars(part = "subshell" /\ (sigchld_handler \/ sigsuspend))
  /\ WF_sub_vars(part = "subshell" /\ Feeding)
  /\ WF_sub_vars(part = "subshell" /\ (synchronize \/ goes_on \/ returns \/ init_subshell))
  /\ WF_cons_vars(part = "console" /\ Steps)
  /\ WF_cons_vars(part = "console" /\ Turns)
  /\ WF_cons_vars(part = "console" /\ subshell_handle_cons_saver)

ProgressSpec == ProgressInit /\ [][ProgressNext]_all /\ ProgressFairness
=============================================================================
