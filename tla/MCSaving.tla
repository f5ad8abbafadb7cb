------------------------------ MODULE MCSaving ------------------------------
(***************************************************************************)
(* What writes over files of the user, one of the two in each behaviour: a *)
(* save of the editor, and the diff viewer that merges two files.          *)
(***************************************************************************)
EXTENDS MCEditSave, DiffView

VARIABLE part

all == <<part, vars, dv_vars>>

(* The part not looked at starts in one state.                              *)
SavingInit ==
  /\ part \in {"save", "merge"}
  /\ DvInit /\ (part # "merge" => \A s \in Sides : compared[s] = << >>)
  /\ Init
  /\ part # "save" => option_save_mode = "quick" /\ \A n \in Names : ~Exists(n)

SavingNext ==
  \/ part = "save" /\ Next /\ UNCHANGED <<part, dv_vars>>
  \/ part = "merge" /\ DvNext /\ UNCHANGED <<part, vars>>

SavingSpec == SavingInit /\ [][SavingNext]_all
=============================================================================
