----------------------------- MODULE TaskStatus -----------------------------
(***************************************************************************)
(* The task state machine of domain/task.ts, and nothing else: what any    *)
(* step of the engine, the owner or a sweep may do to the status of a      *)
(* task.  checkout.ts and owner-control.ts write statuses with their own   *)
(* SQL, past assertTransition; the modules that model them are shown to    *)
(* implement this one.                                                     *)
(***************************************************************************)
CONSTANT Tasks
VARIABLE status

\* TASK_STATUSES, and "new" for a task that is not in the table yet.
Status == {"new", "pending", "checked_out", "running", "completed",
           "waiting_approval", "waiting_review", "waiting_window",
           "failed", "halted", "cancelled"}

\* TERMINAL_STATUSES.
Terminal == {"completed", "failed", "halted", "cancelled"}

\* TRANSITIONS: the statuses a status leads to.
Transitions ==
    [from \in Status |->
        CASE from = "new" -> {"pending"}
          [] from = "pending" -> {"checked_out", "running", "halted", "cancelled"}
          [] from = "checked_out" -> {"running", "pending", "halted", "cancelled"}
          [] from = "running" -> {"completed", "waiting_approval", "waiting_review",
                                  "waiting_window", "pending", "failed", "halted", "cancelled"}
          [] from = "waiting_approval" -> {"running", "cancelled"}
          [] from = "waiting_review" -> {"running", "failed", "cancelled"}
          [] from = "waiting_window" -> {"checked_out", "running", "cancelled", "halted"}
          [] OTHER -> {}]

Init == status = [t \in Tasks |-> "new"]

\* Some tasks move, each along one edge: a cancellation moves a whole tree.
Next ==
    /\ status' \in [Tasks -> Status]
    /\ \A t \in Tasks : status'[t] # status[t] => status'[t] \in Transitions[status[t]]

Spec == Init /\ [][Next]_status
=============================================================================
