------------------------------ MODULE MCFileOp ------------------------------
(* Two files of two chunks, in the operations that differ in their steps.   *)
EXTENDS FileOp

Op(op, dir, bg, linked, exdev, pre) ==
  [operation |-> op, dir |-> dir, background |-> bg, linked |-> linked,
   exdev |-> exdev, preallocate |-> pre]

Several ==
  { Op("copy", FALSE, FALSE, FALSE, TRUE, TRUE),
    Op("move", FALSE, FALSE, TRUE, FALSE, FALSE),
    Op("move", TRUE, FALSE, TRUE, TRUE, FALSE),
    Op("move", TRUE, TRUE, FALSE, TRUE, FALSE) }
=============================================================================
