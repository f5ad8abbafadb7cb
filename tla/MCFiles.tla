------------------------------ MODULE MCFiles -------------------------------
(***************************************************************************)
(* What deals with files, one of it in each behaviour: the locks of two    *)
(* editors, an operation on files, the file systems that panels and open   *)
(* files keep, and a panel.                                                *)
(***************************************************************************)
EXTENDS MCFileLock, MCFileOp, VfsStamps, Panel

VARIABLE part

all == <<part, vars, op_vars, vs_vars, panel_vars>>

(* An archive in another one, and one by itself.                            *)
OneInside == [f \in Archives |-> IF f = "inner" THEN "outer" ELSE Local]

(* The parts not looked at start in one state.                              *)
FilesInit ==
  /\ part \in {"locks", "operation", "stamps", "panel"}
  /\ Init /\ VsInit
  /\ OpInit
  /\ part # "operation" =>
       setup = (CHOOSE s \in Setups : TRUE) /\ \A f \in Sources : dst[f] = Gone
  /\ PanelInit
  /\ part # "panel" =>
       p.items = (CHOOSE h \in Heights : TRUE) /\ \A d \in Dirs : disk[d] = {}

FilesNext ==
  \/ part = "locks" /\ Next /\ UNCHANGED <<part, op_vars, vs_vars, panel_vars>>
  \/ part = "operation" /\ OpNext /\ UNCHANGED <<part, vars, vs_vars, panel_vars>>
  \/ part = "stamps" /\ VsNext /\ UNCHANGED <<part, vars, op_vars, panel_vars>>
  \/ part = "panel" /\ PanelNext /\ UNCHANGED <<part, vars, op_vars, vs_vars>>

FilesSpec == FilesInit /\ [][FilesNext]_all
=============================================================================
