---------------------------- MODULE MCApprovals ----------------------------
(* Two proposals of one capability, and one of another.                     *)
EXTENDS Approvals, TLC

CONSTANTS letter, reply, invoice, mail, pay

MCCapabilityOf == (letter :> mail) @@ (reply :> mail) @@ (invoice :> pay)
=============================================================================
