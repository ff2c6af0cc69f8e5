------------------------- MODULE MCDecisionHistory -------------------------
(* Interchangeable replicas.                                               *)
EXTENDS DecisionHistory, TLC

Symmetry == Permutations(Processes)

============================================================================
