----------------------------- MODULE MCFileLock -----------------------------
(* Processes of one host, with one window each.                             *)
EXTENDS FileLock, TLC

CONSTANTS p1, p2, p3, w1, w2, w3

OwnerTwo == w1 :> p1 @@ w2 :> p2
OwnerThree == OwnerTwo @@ w3 :> p3

PidsDiffer == [p \in Processes |-> p]
OneMachine == [p \in Processes |-> "here"]

(* Processes are alike, together with their one window.                     *)
Alike ==
  {[x \in Windows \cup Processes |->
      IF x \in Processes THEN pi[x] ELSE CHOOSE w \in Windows : Owner[w] = pi[Owner[x]]] :
    pi \in Permutations(Processes)}
=============================================================================
