------------------------------ MODULE UndoRing ------------------------------
(***************************************************************************)
(* The undo stack of src/editor/edit.c as it is stored: an array of        *)
(* numbers used as a ring, the cells from undo_stack_bottom up to          *)
(* undo_stack_pointer being in use.  Indices are masked to the size of the *)
(* array.  Cells given up keep their old numbers, and the cells added by   *)
(* g_realloc hold anything; no step may depend on them.                    *)
(*                                                                         *)
(* The redo stack is stored and handled the same way, line for line.       *)
(***************************************************************************)
EXTENDS Integers, Sequences, FiniteSetsExt

CONSTANTS
  START_STACK_SIZE,  \* cells of a new stack
  MaxUndo,           \* option_max_undo
  Margin,            \* free cells at the end below which the array is doubled
  MAX_RUN,           \* a code is counted up to so many times
  Codes,             \* codes pushed
  MaxPushes          \* bound: pushes in a behaviour

(* Counts are made by the stack itself, and the bottom is no code: neither  *)
(* is pushed.                                                               *)
ASSUME RingAssumption ==
  /\ START_STACK_SIZE \in Nat /\ MaxUndo \in Nat /\ Margin \in Nat /\ MAX_RUN \in Nat
  /\ 5 <= Margin /\ Margin <= START_STACK_SIZE
  /\ \A c \in Codes : c.op \notin {"COUNT", "STACK_BOTTOM"}

VARIABLES
  undo_stack,          \* the array
  undo_stack_size,
  undo_stack_pointer,
  undo_stack_bottom,
  lost,                \* for the properties: codes have been forgotten
  pushes               \* pushes so far

ring_vars ==
  <<undo_stack, undo_stack_size, undo_stack_pointer, undo_stack_bottom, lost, pushes>>

(* What UndoStack says of a stack without looking at how it is stored.      *)
AsStack ==
  [cells |-> [k \in 1 .. (undo_stack_pointer - undo_stack_bottom) % undo_stack_size |->
                [code |-> undo_stack[(undo_stack_bottom + k - 1) % undo_stack_size],
                 seen |-> << >>]],
   size |-> undo_stack_size,
   lost |-> lost]

Stack == INSTANCE UndoStackSpec WITH a_stack <- AsStack

KEY == Stack!KEY_PRESS(0)
Garbage == {Stack!Code("INSERT", 0), KEY}

-----------------------------------------------------------------------------
(* edit_push_undo_action.                                                   *)

(* The array with the cells it has after g_realloc, if it needs it.         *)
Enlarge ==
  undo_stack_pointer > undo_stack_size - Margin /\ undo_stack_size < MaxUndo

Enlarged(array, n) ==
  IF ~Enlarge /\ n = undo_stack_size THEN {array}
  ELSE {[i \in 0 .. n - 1 |-> IF i < undo_stack_size THEN array[i] ELSE g] : g \in Garbage}

NewSize == IF Enlarge THEN 2 * undo_stack_size ELSE undo_stack_size

(* Where the do-while loop that moves the bottom forward stops.             *)
NextBottom(array, n, sp) ==
  LET at(k) == (undo_stack_bottom + k) % n
      stop(k) == Stack!IsKey(array[at(k)]) \/ at(k) = sp
  IN  at(Min({k \in 1 .. n : stop(k)}))

\* Mutant: the second look ahead is missing.
CheckBottomLate(array, n, sp) ==
  LET wraps == (sp + 2) % n = undo_stack_bottom
      bottom == IF wraps THEN NextBottom(array, n, sp) ELSE undo_stack_bottom
      broken == sp # bottom /\ ~Stack!IsKey(array[bottom])
  IN  /\ undo_stack_bottom' = IF broken THEN 0 ELSE bottom
      /\ undo_stack_pointer' = IF broken THEN 0 ELSE sp
      /\ lost' = (lost \/ wraps \/ broken)

(* check_bottom, for the array, its size and the pointer after the push.    *)
CheckBottom(array, n, sp) ==
  LET c == (sp + 2) % n
      wraps == c = undo_stack_bottom \/ (c + 1) % n = undo_stack_bottom
      bottom == IF wraps THEN NextBottom(array, n, sp) ELSE undo_stack_bottom
      broken == sp # bottom /\ ~Stack!IsKey(array[bottom])
  IN  /\ undo_stack_bottom' = IF broken THEN 0 ELSE bottom
      /\ undo_stack_pointer' = IF broken THEN 0 ELSE sp
      /\ lost' = (lost \/ wraps \/ broken)

edit_push_undo_action(c) ==
  /\ pushes < MaxPushes /\ pushes' = pushes + 1
  /\ undo_stack_size' = NewSize
  /\ \E array \in Enlarged(undo_stack, NewSize) :
       LET n == NewSize
           sp == undo_stack_pointer
           spm1 == (sp - 1) % n
           spm2 == (sp - 2) % n
           deep == undo_stack_bottom \notin {sp, spm1, spm2}
           counted == array[spm1].op = "COUNT"
           again == /\ deep /\ c = array[IF counted THEN spm2 ELSE spm1]
                    /\ counted => array[spm1].arg > -MAX_RUN
           store(code) == /\ undo_stack' = [array EXCEPT ![sp] = code]
                          /\ CheckBottom(undo_stack', n, (sp + 1) % n)
       IN  \/ /\ again /\ Stack!IsKey(c)
              /\ undo_stack' = array
              /\ UNCHANGED <<undo_stack_pointer, undo_stack_bottom, lost>>
           \/ /\ again /\ counted /\ ~Stack!IsKey(c)
              /\ undo_stack' = [array EXCEPT ![spm1].arg = @ - 1]
              /\ UNCHANGED <<undo_stack_pointer, undo_stack_bottom, lost>>
           \/ again /\ ~counted /\ ~Stack!IsKey(c) /\ store(Stack!COUNT(-2))
           \/ ~again /\ store(c)

(* edit_pop_undo_action, its early returns of STACK_BOTTOM left out: they   *)
(* change nothing.                                                          *)
edit_pop_undo_action ==
  LET sp == (undo_stack_pointer - 1) % undo_stack_size
      counted == undo_stack[sp].op = "COUNT"
  IN  /\ undo_stack_pointer # undo_stack_bottom
      /\ counted => sp # undo_stack_bottom
      /\ IF counted /\ undo_stack[sp].arg # -2
         THEN undo_stack' = [undo_stack EXCEPT ![sp].arg = @ + 1] /\ UNCHANGED undo_stack_pointer
         ELSE undo_stack_pointer' = sp /\ UNCHANGED undo_stack
      /\ UNCHANGED <<undo_stack_size, undo_stack_bottom, lost, pushes>>

(* The reset of the redo stack when something is recorded after a command.  *)
redo_reset ==
  /\ undo_stack_bottom' = 0 /\ undo_stack_pointer' = 0
  /\ UNCHANGED <<undo_stack, undo_stack_size, lost, pushes>>

-----------------------------------------------------------------------------
RingInit ==
  /\ undo_stack = [i \in 0 .. START_STACK_SIZE - 1 |-> Stack!Code("INSERT", 0)]
  /\ undo_stack_size = START_STACK_SIZE
  /\ undo_stack_pointer = 0 /\ undo_stack_bottom = 0
  /\ lost = FALSE /\ pushes = 0

RingNext ==
  \/ \E c \in Codes : edit_push_undo_action(c)
  \/ edit_pop_undo_action
  \/ redo_reset

RingSpec == RingInit /\ [][RingNext]_ring_vars

-----------------------------------------------------------------------------
(* The ring is a stack that forgets its oldest key presses: neither the     *)
(* masks, nor the stale cells, nor a doubling show through.                 *)
RingIsStack == Stack!StackSpec
=============================================================================
