--------------------------- MODULE MCEditorViewer ---------------------------
(***************************************************************************)
(* Parts of the editor and of the viewer that work by themselves, one of   *)
(* them in each behaviour.                                                 *)
(*                                                                         *)
(* The text buffer has blocks of two bytes and up to five bytes: each side *)
(* grows to three blocks and shrinks back, and a partial first chunk meets *)
(* a full last one.  The undo stack gets a key press and another code: the *)
(* ring is doubled from eight cells to sixteen, and then wraps round.      *)
(***************************************************************************)
EXTENDS EditBuffer, UndoRing, LineBreaks, Bookmarks, CoordCache, HexEdit

VARIABLE part

C == INSTANCE UndoStack

KeyAndCode == {C!KEY_PRESS(0), C!Code("INSERT", 7)}

editor_vars == <<vars, ring_vars, lb_vars, bm_vars>>
viewer_vars == <<cc_vars, hex_vars>>
all == <<part, editor_vars, viewer_vars>>

(* The parts not looked at start in one state.                              *)
PartsInit ==
  /\ part \in {"buffer", "ring", "breaks", "marks", "coordinates", "hex"}
  /\ LbInit /\ (part # "breaks" => lb = "LB_ASIS" /\ lb_text = << >>)
  /\ CcInit /\ (part # "coordinates" => bytes = << >> /\ ~nroff)
  /\ HexInit
  /\ part # "hex" => ~remote /\ stored = [o \in Offsets |-> CHOOSE v \in Values : TRUE]
  /\ Init /\ RingInit /\ BmInit

PartsNext ==
  \/ part = "buffer" /\ Next /\ UNCHANGED <<part, ring_vars, lb_vars, bm_vars, viewer_vars>>
  \/ part = "ring" /\ RingNext /\ UNCHANGED <<part, vars, lb_vars, bm_vars, viewer_vars>>
  \/ part = "breaks" /\ LbNext /\ UNCHANGED <<part, vars, ring_vars, bm_vars, viewer_vars>>
  \/ part = "marks" /\ BmNext /\ UNCHANGED <<part, vars, ring_vars, lb_vars, viewer_vars>>
  \/ part = "coordinates" /\ CcNext /\ UNCHANGED <<part, editor_vars, hex_vars>>
  \/ part = "hex" /\ HexNext /\ UNCHANGED <<part, editor_vars, cc_vars>>

(* Bound: nothing is claimed of the coordinates once the cache is stale.    *)
CacheFresh == ~rewritten

PartsSpec == PartsInit /\ [][PartsNext]_all
=============================================================================
