----------------------------- MODULE MCTaskTree -----------------------------
(* A root with three sub-tasks and a successor; the first has one as well.  *)
EXTENDS TaskTree
CONSTANTS r, k1, k2, k3, s0, s1

UnderTheRoot == [t \in Tasks |-> CASE t = r -> NoTask [] t = s1 -> k1 [] OTHER -> r]
UpToTheRoot == [t \in Tasks |-> {t, r} \cup (IF t = s1 THEN {k1} ELSE {})]
=============================================================================
