----------------------------- MODULE MCInFlight -----------------------------
(* Two workers, the first with two runs at a time, and two tasks with one   *)
(* call each.                                                               *)
EXTENDS InFlight, TLC

CONSTANTS w1, w2, r1, r2, r3, a, b, ka, kb

MCWorkerOf == r1 :> w1 @@ r2 :> w1 @@ r3 :> w2
MCTaskOf == ka :> a @@ kb :> b
=============================================================================
