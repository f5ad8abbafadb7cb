----------------------------- MODULE ConsSaver -----------------------------
(***************************************************************************)
(* The saver of the Linux console (src/consaver/cons.saver.c) and its      *)
(* client (src/cons.handler.c): two processes that take turns on two       *)
(* pipes.  A request is one byte; each is answered with a flag, and a      *)
(* request for lines of the saved screen has a dialogue of its own before  *)
(* that.  The saver may die at any time; SIGCHLD then runs                 *)
(* handle_console (CONSOLE_DONE) between any two steps of the client,      *)
(* which may be in handle_console itself.                                  *)
(*                                                                         *)
(* A screen line stands for its columns; an `unsigned char' counts lines.  *)
(***************************************************************************)
EXTENDS Integers, Sequences

CONSTANTS
  ConsoleRows,  \* lines of the console
  Bytes,        \* values of an unsigned short, 65536 in the code
  MaxRequests   \* bound: requests

ASSUME RowsAssumption == ConsoleRows \in Nat \ {0} /\ MaxRequests \in Nat
ASSUME BytesAssumption == Bytes \in Nat /\ Bytes > ConsoleRows

VARIABLES
  client,     \* [at, action, begin, end, bytes, got]
  console_flag,
  cons_saver_pid,   \* 1 stands for the number of the process
  saver,      \* [at, begin, end, last]; last: the last saved line that is not blank
  requests, answers,              \* the pipes
  death,      \* "no", "dead", "reaped"
  asks

cons_vars == <<client, console_flag, cons_saver_pid, saver, requests, answers, death, asks>>

ConsStart(client_at, saver_at) ==
  /\ client = [at |-> client_at, action |-> 0, begin |-> 0, end |-> 0, bytes |-> 0, got |-> << >>]
  /\ console_flag = 0 /\ cons_saver_pid = 1
  /\ saver = [at |-> saver_at, begin |-> 0, end |-> 0, last |-> 0]
  /\ requests = << >> /\ answers = << >> /\ death = "no" /\ asks = 0

ConsInit == ConsStart("init", "start")

(* console_action_t, counted from CONSOLE_INIT.                              *)
CONSOLE_DONE == 1
CONSOLE_SAVE == 2
CONSOLE_RESTORE == 3
CONSOLE_CONTENTS == 4

Least(a, b) == IF a < b THEN a ELSE b

-----------------------------------------------------------------------------
(* The saver.                                                               *)

(* Control goes to `at', with `out' written.                                *)
Saver(new, out) ==
  /\ saver' = new /\ answers' = answers \o out
  /\ UNCHANGED <<client, console_flag, cons_saver_pid, death, asks>>

Takes == Head(requests)

(* die: a zero, whatever is expected.                                       *)
die ==
  /\ saver.at \in {"start", "save", "restore"}
  /\ answers' = Append(answers, 0) /\ saver' = [saver EXCEPT !.at = "gone"]
  /\ death' = "dead"
  /\ UNCHANGED <<client, console_flag, cons_saver_pid, requests, asks>>

(* "fstat (console_fd, &st) < 0 || st.st_uid != uid" and whatever else may  *)
(* stop it.                                                                 *)
saver_killed ==
  /\ saver.at # "gone" /\ death = "no"
  /\ saver' = [saver EXCEPT !.at = "gone"] /\ death' = "dead"
  /\ UNCHANGED <<client, console_flag, cons_saver_pid, requests, answers, asks>>

saver_ready ==
  /\ saver.at \in {"start", "restore"}
  /\ Saver([saver EXCEPT !.at = "loop"], <<3>>) /\ UNCHANGED requests

(* The screen is read; a part of it may be blank, all of it if it could not *)
(* be read.                                                                 *)
saver_saves ==
  /\ saver.at = "save"
  /\ \E l \in 0..ConsoleRows : Saver([saver EXCEPT !.at = "loop", !.last = l], <<3>>)
  /\ UNCHANGED requests

saver_reads ==
  /\ saver.at = "loop" /\ requests # << >> /\ requests' = Tail(requests)
  /\ CASE Takes = CONSOLE_DONE -> /\ saver' = [saver EXCEPT !.at = "gone"] /\ death' = "dead"
                            /\ UNCHANGED <<client, console_flag, cons_saver_pid, answers, asks>>
       [] Takes = CONSOLE_CONTENTS -> Saver([saver EXCEPT !.at = "begin"], <<CONSOLE_CONTENTS>>)
       [] Takes = CONSOLE_SAVE -> Saver([saver EXCEPT !.at = "save"], << >>)
       [] Takes = CONSOLE_RESTORE -> Saver([saver EXCEPT !.at = "restore"], << >>)
       [] OTHER -> Saver(saver, << >>)

(* send_contents.                                                           *)
reads_begin ==
  /\ saver.at = "begin" /\ requests # << >> /\ requests' = Tail(requests)
  /\ Saver([saver EXCEPT !.begin = Takes, !.at = "end"], << >>)

Clipped(line) == Least(line, saver.last)

\* Mutant: the first line may lie behind the last.
BeginUnclipped == saver.begin

Begin == Clipped(saver.begin)

reads_end ==
  /\ saver.at = "end" /\ requests # << >> /\ requests' = Tail(requests)
  /\ LET e == Clipped(Takes)
     IN Saver([saver EXCEPT !.begin = Begin, !.end = e, !.at = "send"], <<(e - Begin) % Bytes>>)

sends_line ==
  /\ saver.at = "send" /\ saver.begin < saver.end
  /\ Saver([saver EXCEPT !.begin = @ + 1], <<saver.begin>>) /\ UNCHANGED requests

sends_flag ==
  /\ saver.at = "send" /\ saver.begin >= saver.end
  /\ Saver([saver EXCEPT !.at = "loop"], <<3>>) /\ UNCHANGED requests

-----------------------------------------------------------------------------
(* The client.                                                              *)

(* A write to a pipe whose reader is gone: SIGPIPE ends the program.        *)
Writes(byte, next) ==
  /\ IF saver.at = "gone" THEN client' = [client EXCEPT !.at = "killed"] /\ UNCHANGED requests
     ELSE client' = next /\ requests' = Append(requests, byte)
  /\ UNCHANGED <<console_flag, cons_saver_pid, saver, answers, death, asks>>

(* read (pipefd2[0], ...) would return: `default' stays at the end of file. *)
CanRead == answers # << >> \/ saver.at = "gone"
ReadValue(default) == IF answers # << >> THEN Head(answers) ELSE default
Read(next) ==
  /\ CanRead /\ client' = next
  /\ answers' = IF answers = << >> THEN answers ELSE Tail(answers)
  /\ UNCHANGED <<cons_saver_pid, saver, requests, death, asks>>

(* The parts of main, execute and ext that save and restore, and show lines *)
(* of the output.  "Paranoid: is the cons.saver still running?"             *)
handle_console(action, b, e) ==
  /\ client.at = "idle" /\ console_flag # 0 /\ asks < MaxRequests /\ asks' = asks + 1
  /\ IF death = "reaped" \/ cons_saver_pid = 0
     THEN console_flag' = 0 /\ cons_saver_pid' = 0 /\ UNCHANGED client
     ELSE /\ client' = [client EXCEPT !.at = "write", !.action = action, !.begin = b,
                                      !.end = e, !.bytes = 0, !.got = << >>]
          /\ UNCHANGED <<console_flag, cons_saver_pid>>
  /\ UNCHANGED <<saver, requests, answers, death>>

writes_action ==
  /\ client.at = "write"
  /\ Writes(client.action,
            [client EXCEPT !.at = CASE client.action = CONSOLE_CONTENTS -> "echo"
                                    [] client.action = CONSOLE_DONE -> "clean"
                                    [] OTHER -> "flag"])

reads_echo ==
  /\ client.at = "echo"
  /\ Read([client EXCEPT !.at = IF ReadValue(CONSOLE_CONTENTS) = CONSOLE_CONTENTS THEN "begin" ELSE "idle"])
  /\ UNCHANGED console_flag

writes_begin ==
  /\ client.at = "begin"
  /\ Writes(client.begin, [client EXCEPT !.at = "end"])

writes_end ==
  /\ client.at = "end"
  /\ Writes(client.end, [client EXCEPT !.at = "bytes"])

reads_bytes ==
  /\ client.at = "bytes"
  /\ LET n == ReadValue(0)
     IN Read([client EXCEPT !.bytes = n, !.at = IF n = 0 THEN "last" ELSE "lines"])
  /\ UNCHANGED console_flag

reads_line ==
  /\ client.at = "lines"
  /\ LET line == ReadValue(0)
     IN Read([client EXCEPT !.got = Append(@, line),
                            !.at = IF Len(client.got) + 1 = client.bytes THEN "last" ELSE "lines"])
  /\ UNCHANGED console_flag

\* Mutant: the last byte of the answer is not read.
reads_last_not ==
  /\ client.at = "last" /\ client' = [client EXCEPT !.at = "idle"]
  /\ UNCHANGED <<console_flag, cons_saver_pid, saver, requests, answers, death, asks>>

(* The flag after the lines is thrown away, ...                             *)
reads_last == client.at = "last" /\ Read([client EXCEPT !.at = "idle"]) /\ UNCHANGED console_flag

(* ... that of CONSOLE_INIT, _SAVE and _RESTORE is kept.                    *)
reads_flag ==
  /\ client.at \in {"init", "flag"}
  /\ LET f == ReadValue(console_flag)
     IN /\ console_flag' = f
        /\ Read([client EXCEPT !.at = IF f = 0 THEN "clean" ELSE "idle"])

(* waitpid: for the saver, or, when the signal handler has put 0 in         *)
(* cons_saver_pid, for any child there is, until it ends.                   *)
cleans_up ==
  /\ client.at = "clean" /\ (death # "no" \/ cons_saver_pid = 0)
  /\ console_flag' = 0 /\ client' = [client EXCEPT !.at = "idle"]
  /\ death' = IF cons_saver_pid # 0 THEN "reaped" ELSE death
  /\ UNCHANGED <<cons_saver_pid, saver, requests, answers, asks>>

(* The SIGCHLD handler reaps the saver; handle_console (CONSOLE_DONE) finds *)
(* it gone.  Not before CONSOLE_INIT is done.                               *)
subshell_handle_cons_saver ==
  /\ death = "dead" /\ client.at \notin {"init", "killed"}
  /\ death' = "reaped" /\ console_flag' = 0
  /\ cons_saver_pid' = IF console_flag # 0 THEN 0 ELSE cons_saver_pid
  /\ UNCHANGED <<client, saver, requests, answers, asks>>

Steps ==
  \/ saver_ready \/ saver_saves \/ saver_reads \/ reads_begin \/ reads_end
  \/ sends_line \/ sends_flag
Turns ==
  \/ writes_action \/ reads_echo \/ writes_begin \/ writes_end \/ reads_bytes
  \/ reads_line \/ reads_last \/ reads_flag \/ cleans_up

ConsNext ==
  \/ die \/ saver_killed \/ Steps \/ Turns \/ subshell_handle_cons_saver
  \/ \E action \in {CONSOLE_SAVE, CONSOLE_RESTORE, CONSOLE_DONE} : handle_console(action, 0, 0)
  \/ \E b \in 0..ConsoleRows, e \in 0..ConsoleRows : b <= e /\ handle_console(CONSOLE_CONTENTS, b, e)

(* Neither process stops for ever.                                          *)
ConsFairness ==
  /\ WF_cons_vars(Steps) /\ WF_cons_vars(Turns)
  /\ WF_cons_vars(subshell_handle_cons_saver)

ConsSpec == ConsInit /\ [][ConsNext]_cons_vars /\ ConsFairness

-----------------------------------------------------------------------------
(* Between requests, while the saver lives, nothing is left in the pipes to *)
(* be taken for the answer to the next, and the lines shown last were those *)
(* asked for, as far as the saved screen has any.                           *)
TurnsMatch ==
  (client.at = "idle" /\ death = "no") =>
    /\ requests = << >> /\ answers = << >> /\ saver.at = "loop"
    /\ client.action = CONSOLE_CONTENTS =>
         client.got = [i \in 1..Len(client.got) |-> client.begin + i - 1]

(* Every request comes to an end, of the program in the worst case: the     *)
(* client does not wait for bytes that nobody will send.                    *)
RequestEnds == (client.at # "idle") ~> (client.at \in {"idle", "killed"})
=============================================================================
