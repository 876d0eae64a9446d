------------------------------ MODULE MCManager -----------------------------
(***************************************************************************)
(* Sticks for model checking Manager: the model of each path.              *)
(***************************************************************************)
EXTENDS Manager, TLC

CONSTANTS p1, p2

TwoStorages == (p1 :> "STORAGE") @@ (p2 :> "STORAGE")
OneStorage == p1 :> "STORAGE"
ProAndStorage == (p1 :> "PRO") @@ (p2 :> "STORAGE")

\* Device objects and threads have no identity of their own.
Symmetry == Permutations(Objs) \cup Permutations(Threads)

=============================================================================
