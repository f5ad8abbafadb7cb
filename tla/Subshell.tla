------------------------------ MODULE Subshell ------------------------------
(***************************************************************************)
(* The subshell (src/subshell/subshell-common.c): a shell on a             *)
(* pseudo-terminal, kept running behind the panels.  Before each prompt it *)
(* writes its directory to a pipe and stops itself (`pwd>&8;kill -STOP     *)
(* $$').  Midnight Commander waits for the message in feed_subshell, then  *)
(* for the stop, of which SIGCHLD tells, in synchronize, and only then     *)
(* lets the shell go on.                                                   *)
(*                                                                         *)
(* Lines sent are numbered; the message of a prompt carries the number of  *)
(* the line before it.  Directory names, the prompt, the output and the    *)
(* text of the command line are left out.                                  *)
(***************************************************************************)
EXTENDS Integers, Sequences

CONSTANTS
  MaxLines,   \* bound: lines sent to the shell
  MaxKills    \* bound: shells killed

ASSUME LinesAssumption == MaxLines \in Nat /\ MaxKills \in Nat

VARIABLES
  shell,      \* [at, line, set]: what the shell does, the last line it took,
              \* and whether it has been told what to do before a prompt
  input,      \* lines in the pseudo-terminal it has not taken
  pipe,       \* messages in subshell_pipe
  report,     \* what waitpid has to tell: "none", "stop", "dead"
  sigchld,    \* SIGCHLD is pending
  subshell_alive, subshell_stopped, subshell_ready, subshell_state,
  should_clear,          \* subshell_should_clear_command_line
  use_persistent_buffer,
  mc,         \* "panels"; in feed_subshell, "feed", "looked" when it has found
              \* the shell alive, "select", "sync"; "next" when it returns; "quit"
  visibly,    \* the user's keys go to the shell
  plan,       \* what is to be sent next
  invoked,    \* by invoke_subshell, which restarts a dead shell
  sent, kills,
  astray,     \* history: a line was typed ahead of a prompt, or not taken note
              \* of, or a shell died and left a message or a line behind
  missed      \* SIGCHLD told of a death when "looked", and select was called

sub_vars == <<shell, input, pipe, report, sigchld, subshell_alive, subshell_stopped,
              subshell_ready, subshell_state, should_clear, use_persistent_buffer,
              mc, visibly, plan, invoked, sent, kills, astray, missed>>
shell_vars == <<shell, input, pipe, report, sigchld, kills, astray>>
live_vars == <<subshell_alive, subshell_stopped, missed>>
state_vars == <<subshell_ready, subshell_state, should_clear>>
mc_vars == <<mc, visibly, plan, invoked, use_persistent_buffer, sent>>

SubInit ==
  /\ shell = [at |-> "read", line |-> [number |-> 0, what |-> "precmd"], set |-> TRUE]
  /\ input = << >> /\ pipe = << >> /\ report = "none" /\ sigchld = FALSE
  /\ subshell_alive = TRUE /\ subshell_stopped = FALSE
  /\ subshell_ready = TRUE /\ subshell_state = "INACTIVE" /\ should_clear = FALSE
  /\ use_persistent_buffer \in BOOLEAN
  /\ mc = "panels" /\ visibly = FALSE /\ plan = << >> /\ invoked = FALSE
  /\ sent = 0 /\ kills = 0 /\ astray = FALSE /\ missed = FALSE

Line(what) == [number |-> sent + 1, what |-> what]

-----------------------------------------------------------------------------
(* The shell, and the signals it gives rise to.                             *)

takes_line ==
  /\ shell.at = "read" /\ input # << >>
  /\ shell' = [shell EXCEPT !.at = "run", !.line = Head(input),
                            !.set = @ \/ Head(input).what = "precmd"]
  /\ input' = Tail(input)
  /\ UNCHANGED <<pipe, report, sigchld, kills, astray, live_vars, state_vars, mc_vars>>

(* `pwd>&8', once it has been told so.                                      *)
line_ends ==
  /\ shell.at = "run"
  /\ shell' = [shell EXCEPT !.at = IF shell.set THEN "told" ELSE "read"]
  /\ pipe' = IF shell.set THEN Append(pipe, shell.line.number) ELSE pipe
  /\ UNCHANGED <<input, report, sigchld, kills, astray, live_vars, state_vars, mc_vars>>

kill_STOP ==
  /\ shell.at = "told"
  /\ shell' = [shell EXCEPT !.at = "stop"]
  /\ report' = "stop" /\ sigchld' = TRUE
  /\ UNCHANGED <<input, pipe, kills, astray, live_vars, state_vars, mc_vars>>

Dies ==
  /\ shell' = [shell EXCEPT !.at = "dead"]
  /\ report' = "dead" /\ sigchld' = TRUE
  /\ astray' = (astray \/ input # << >> \/ pipe # << >>)
  /\ UNCHANGED <<input, pipe, live_vars, state_vars, mc_vars>>

(* By a line of the user's, or by someone else.                             *)
exits ==
  /\ shell.at = "run" /\ shell.line.what \in {"command", "typed"}
  /\ Dies /\ UNCHANGED kills
killed == shell.at # "dead" /\ kills < MaxKills /\ Dies /\ kills' = kills + 1

(* waitpid tells of the last change only.                                   *)
Handled ==
  /\ sigchld /\ sigchld' = FALSE /\ report' = "none"
  /\ subshell_stopped' = (subshell_stopped \/ report = "stop")
  /\ subshell_alive' = (subshell_alive /\ report # "dead")
  /\ UNCHANGED <<shell, input, pipe, kills, astray, state_vars,
                 visibly, plan, invoked, use_persistent_buffer, sent>>

(* A select under way is interrupted, and feed_subshell looks again.  One   *)
(* that is about to begin is not.                                           *)
sigchld_handler ==
  /\ mc \in {"panels", "feed", "looked", "select", "next"} /\ Handled
  /\ mc' = IF mc = "select" THEN "feed" ELSE mc
  /\ missed' = (missed \/ (mc = "looked" /\ report = "dead"))

(* In synchronize, SIGCHLD is blocked but for the time of sigsuspend.       *)
sigsuspend ==
  mc = "sync" /\ subshell_alive /\ ~subshell_stopped /\ Handled /\ UNCHANGED <<mc, missed>>

-----------------------------------------------------------------------------
(* What is sent to the shell.                                               *)

(* Control-C empties the pseudo-terminal, and the shell prompts again.      *)
Written(what) ==
  IF what # "intr"
  THEN input' = Append(input, Line(what)) /\ UNCHANGED shell
  ELSE IF shell.at \in {"read", "run"}
  THEN input' = << >> /\ shell' = [shell EXCEPT !.at = "run", !.line = Line(what)]
  ELSE input' = <<Line(what)>> /\ UNCHANGED shell

(* The head of the plan p: a look at the shell, or a line for it and then   *)
(* feed_subshell.                                                           *)
Proceed(p) ==
  /\ plan' = Tail(p) /\ mc' = "feed" /\ should_clear' = FALSE
  /\ visibly' = (Head(p) \in {"visit", "command"})
  /\ IF Head(p) = "visit"
     THEN /\ subshell_state' = IF subshell_state = "INACTIVE" THEN "ACTIVE" ELSE subshell_state
          /\ UNCHANGED <<shell, input, subshell_ready, sent>>
     ELSE /\ sent' = sent + 1 /\ Written(Head(p))
          /\ subshell_state' = "RUNNING_COMMAND"
          /\ subshell_ready' = (subshell_ready /\ Head(p) # "command")

Clear == IF ~use_persistent_buffer \/ should_clear THEN <<"intr">> ELSE << >>

(* do_subshell_chdir, for a panel that has moved.                           *)
Chdir == IF subshell_state = "INACTIVE" THEN Clear \o <<"cd">> ELSE << >>

Started(p, by_invoke) ==
  /\ mc = "panels" /\ p # << >> /\ sent + Len(p) <= MaxLines
  /\ Proceed(p) /\ invoked' = by_invoke
  /\ UNCHANGED <<pipe, report, sigchld, kills, astray, live_vars, use_persistent_buffer>>

do_subshell_chdir == Started(Chdir, FALSE)

(* toggle_subshell, and shell_execute, which refuses if a command is        *)
(* running.  The panel has moved or not.                                    *)
invoke_subshell ==
  \E cd \in {<< >>, Chdir} :
    LET clear == IF cd = << >> \/ ~use_persistent_buffer THEN Clear ELSE << >>
    IN \/ Started(cd \o <<"visit">>, TRUE)
       \/ /\ subshell_state = "INACTIVE"
          /\ Started(cd \o clear \o <<"command">>, TRUE)

-----------------------------------------------------------------------------
(* feed_subshell.                                                           *)

looks ==
  /\ mc = "feed" /\ subshell_alive /\ mc' = "looked"
  /\ UNCHANGED <<shell_vars, live_vars, state_vars, visibly, plan, invoked,
                 use_persistent_buffer, sent>>

selects ==
  /\ mc = "looked" /\ mc' = "select"
  /\ UNCHANGED <<shell_vars, live_vars, state_vars, visibly, plan, invoked,
                 use_persistent_buffer, sent>>

reads_cwd ==
  /\ mc = "select" /\ pipe # << >>
  /\ pipe' = << >> /\ mc' = "sync"
  /\ UNCHANGED <<shell, input, report, sigchld, kills, astray, live_vars, state_vars,
                 visibly, plan, invoked, use_persistent_buffer, sent>>

\* Mutant: the shell is not waited for.
Stopped_anyhow == TRUE

Stopped == ~subshell_alive \/ subshell_stopped

\* Mutant: what was typed ahead is left to the shell.
Flushed_never == input

(* What was typed while a command ran was not meant for the shell.          *)
Flushed == IF subshell_state # "ACTIVE" THEN << >> ELSE input

(* The wait is over: tcflush, SIGCONT.                                      *)
synchronize ==
  /\ mc = "sync" /\ Stopped
  /\ input' = Flushed
  /\ subshell_stopped' = FALSE /\ subshell_ready' = TRUE
  /\ shell' = IF shell.at = "stop" THEN [shell EXCEPT !.at = "read"] ELSE shell
  /\ report' = IF report = "stop" THEN "none" ELSE report
  /\ IF subshell_state = "RUNNING_COMMAND"
     THEN subshell_state' = "INACTIVE" /\ mc' = "next"
     ELSE mc' = "feed" /\ UNCHANGED subshell_state
  /\ UNCHANGED <<pipe, sigchld, kills, astray, missed, subshell_alive, should_clear,
                 visibly, plan, invoked, use_persistent_buffer, sent>>

feed_dead ==
  /\ mc = "feed" /\ ~subshell_alive /\ mc' = "next" /\ missed' = FALSE
  /\ UNCHANGED <<shell_vars, subshell_alive, subshell_stopped, state_vars, visibly, plan,
                 invoked, use_persistent_buffer, sent>>

(* A line of what was read goes to the shell, or to the command it runs.    *)
(* Whether the shell is at its prompt is noted anew only if the read ends   *)
(* with the line.                                                           *)
Typed(last) ==
  /\ sent < MaxLines /\ sent' = sent + 1 /\ input' = Append(input, Line("typed"))
  /\ subshell_ready' = (subshell_ready /\ ~last)
  /\ astray' = (astray \/ (subshell_state = "ACTIVE"
                           /\ (subshell_ready' \/ ~(shell.at = "read" /\ input = << >>))))

types_line ==
  /\ mc = "select" /\ visibly /\ mc' = "feed"
  /\ \E last \in BOOLEAN : Typed(last)
  /\ UNCHANGED <<shell, pipe, report, sigchld, kills, live_vars, subshell_state, should_clear,
                 visibly, plan, invoked, use_persistent_buffer>>

(* The switch key, behind a line or not.  read_command_line_buffer, which   *)
(* asks the shell for its line, may fail.                                   *)
switch_key ==
  /\ mc = "select" /\ visibly /\ mc' = "next"
  /\ Typed(FALSE) \/ UNCHANGED <<sent, input, subshell_ready, astray>>
  /\ IF subshell_ready
     THEN /\ subshell_state' = "INACTIVE"
          /\ should_clear' \in {use_persistent_buffer, FALSE}
     ELSE UNCHANGED <<subshell_state, should_clear>>
  /\ UNCHANGED <<shell, pipe, report, sigchld, kills, live_vars, visibly, plan, invoked,
                 use_persistent_buffer>>

-----------------------------------------------------------------------------
(* feed_subshell has returned.                                              *)

goes_on ==
  /\ mc = "next" /\ plan # << >>
  /\ Proceed(plan)
  /\ UNCHANGED <<pipe, report, sigchld, kills, astray, live_vars, invoked,
                 use_persistent_buffer>>

returns ==
  /\ mc = "next" /\ plan = << >> /\ (subshell_alive \/ ~invoked)
  /\ mc' = "panels" /\ visibly' = FALSE
  /\ UNCHANGED <<shell_vars, live_vars, state_vars, plan, invoked, use_persistent_buffer, sent>>

init_subshell ==
  /\ mc = "next" /\ plan = << >> /\ ~subshell_alive /\ invoked /\ sent < MaxLines
  /\ shell' = [at |-> "read", line |-> Line("precmd"), set |-> FALSE]
  /\ report' = "none" /\ subshell_alive' = TRUE /\ subshell_stopped' = FALSE /\ missed' = FALSE
  /\ input' = Append(input, Line("precmd")) /\ sent' = sent + 1
  /\ subshell_state' = "RUNNING_COMMAND" /\ should_clear' = FALSE
  /\ mc' = "feed" /\ visibly' = FALSE
  /\ UNCHANGED <<pipe, sigchld, kills, astray, subshell_ready, plan, invoked,
                 use_persistent_buffer>>

(* The user has left the shell, and agrees to leave altogether.             *)
quits ==
  /\ mc = "next" /\ plan = << >> /\ ~subshell_alive /\ invoked
  /\ shell.line.what \in {"command", "typed"}
  /\ mc' = "quit"
  /\ UNCHANGED <<shell_vars, live_vars, state_vars, visibly, plan, invoked,
                 use_persistent_buffer, sent>>

SubNext ==
  \/ takes_line \/ line_ends \/ kill_STOP \/ exits \/ killed
  \/ sigchld_handler \/ sigsuspend
  \/ do_subshell_chdir \/ invoke_subshell
  \/ looks \/ selects \/ reads_cwd \/ synchronize \/ feed_dead \/ types_line \/ switch_key
  \/ goes_on \/ returns \/ init_subshell \/ quits

(* The shell goes on while it may, lines end, signals are delivered, and    *)
(* feed_subshell goes round its loop, but waits in select for a message.    *)
Feeding == looks \/ selects \/ reads_cwd \/ feed_dead

SubFairness ==
  /\ WF_sub_vars(takes_line \/ line_ends \/ kill_STOP)
  /\ WF_sub_vars(sigchld_handler \/ sigsuspend)
  /\ WF_sub_vars(Feeding)
  /\ WF_sub_vars(synchronize \/ goes_on \/ returns \/ init_subshell)

SubSpec == SubInit /\ [][SubNext]_sub_vars /\ SubFairness

-----------------------------------------------------------------------------
(* "INACTIVE: the default state; awaiting a command": when the panels are   *)
(* back and the shell is held to be inactive, it has done all it was told,  *)
(* stands at its prompt, and no message of an earlier line waits to be      *)
(* taken for the answer to the next.  Not so, and exempt, after a line      *)
(* typed ahead of a prompt, one of which feed_subshell takes no note since  *)
(* the switch key or other bytes follow it in the same read, and the death  *)
(* of a shell that had lines left.                                          *)
AtPrompt == /\ shell.at \in {"read", "dead"} /\ input = << >> /\ pipe = << >>

InactiveAwaits ==
  (mc = "panels" /\ subshell_state = "INACTIVE" /\ ~astray) => AtPrompt

(* The same, whatever the user typed and when.                              *)
InactiveAwaitsAlways ==
  (mc = "panels" /\ subshell_state = "INACTIVE" /\ kills = 0) => AtPrompt

(* A line Midnight Commander sends is answered, or the shell is dead: no    *)
(* stop is slept through, and none is taken for that of a later prompt.     *)
(* Not so, and exempt, when what InactiveAwaits exempts has happened; and   *)
(* a death is slept through if it is told of after feed_subshell has found  *)
(* the shell alive and before it waits in select.                           *)
CommandReturns ==
  (mc \in {"feed", "looked", "select", "sync"} /\ subshell_state = "RUNNING_COMMAND")
    ~> (mc \in {"panels", "quit", "next"} \/ astray \/ missed)
=============================================================================
