------------------------------ MODULE MCBudget ------------------------------
(* A company account with two divisions under it.  The two divisions are   *)
(* interchangeable, and so are the tasks.                                  *)
EXTENDS Budget, TLC
CONSTANTS company, divisionA, divisionB
MCParent == [a \in Accounts |-> IF a = company THEN NoAccount ELSE company]
MCChain == [a \in Accounts |-> {a, company}]
MCSymmetry == Permutations(Tasks) \cup Permutations({divisionA, divisionB})
=============================================================================
