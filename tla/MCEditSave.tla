----------------------------- MODULE MCEditSave -----------------------------
(* Texts are alike, and so are the names of files.                          *)
EXTENDS EditSave, TLC

Alike == Permutations(Texts) \cup Permutations(Files)
=============================================================================
