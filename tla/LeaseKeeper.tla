---------------------------- MODULE LeaseKeeper -----------------------------
(***************************************************************************)
(* One run and the keeper of its lease: engine/lease-keeper.ts, with what  *)
(* Engine.runTask does around it (a step's two confirms, giving up, giving *)
(* back) and what becomes of the row meanwhile.                            *)
(*                                                                         *)
(* A renewal is a request that is asked, written by the database at some   *)
(* later time, and answered at some later time still; the keeper's timer   *)
(* and a step's confirm can each have one under way.  Nothing in the       *)
(* process happens at a given time: a timer may be late.                   *)
(***************************************************************************)
EXTENDS Integers

CONSTANTS
    LeaseMs,    \* leaseMs, in units of time
    Every,      \* the keeper's timer, leaseMs / 3
    ChildWait,  \* how far past now a driven child's deadline is
    Forever,    \* coverUntil of a task with a deadline of its own
    DelayMax    \* the longest a request waits to be written

ASSUME KeeperAssumption ==
    /\ LeaseMs \in Nat /\ Every \in 1 .. LeaseMs /\ DelayMax \in 0 .. LeaseMs - 1
    /\ ChildWait \in Nat /\ Forever \in Nat /\ Forever > ChildWait /\ Forever > LeaseMs

VARIABLES
    heldBy,     \* "this" run, this worker "again", an "other", "none", task "gone"
    leaseAge,   \* since the request that last set this worker's lease_expires_at was asked
    taken,      \* a sweep took the task from the run: "no", its lease "lapsed", or its
                \* worker "judged" silent
    awayFor,    \* for how long it has been taken
    renewal,    \* the timer's and the step's renewal: where it is, and its age
    age,        \* now - #renewedAt
    cover,      \* #coverUntil - now
    due,        \* time to the timer's next tick
    leaseLost, silent,
    handler,    \* it is "working", "confirming", "acting", "committing", "over"
    settled     \* runTask is past its finally: #stopped

leaseRow == <<heldBy, leaseAge, taken, awayFor>>
keeper == <<age, cover, due, leaseLost, silent>>
keeperVars == <<leaseRow, renewal, keeper, handler, settled>>

Askers == {"tick", "step"}
Idle == [at |-> "none", since |-> 0]

KeeperInit ==
    /\ heldBy = "this" /\ leaseAge = 0 /\ taken = "no" /\ awayFor = 0
    /\ renewal = [k \in Askers |-> Idle]
    /\ age = 0 /\ cover \in {LeaseMs, Forever} /\ due = Every
    /\ leaseLost = FALSE /\ silent = FALSE
    /\ handler = "working" /\ settled = FALSE

AtMost(m, n) == IF m < n THEN m ELSE n

Covered(until) == IF cover > until THEN cover ELSE until

\* Ages count up to a lease, past which nothing tells them apart.
Pass ==
    /\ leaseAge' = AtMost(leaseAge + 1, LeaseMs)
    /\ awayFor' = IF taken = "no" THEN 0 ELSE AtMost(awayFor + 1, LeaseMs)
    /\ age' = AtMost(age + 1, LeaseMs)
    /\ cover' = IF cover \in {0, Forever} THEN cover ELSE cover - 1
    /\ due' = IF due = 0 THEN 0 ELSE due - 1
    /\ renewal' = [k \in Askers |-> IF renewal[k].at = "none" THEN Idle
                     ELSE [renewal[k] EXCEPT !.since = AtMost(@ + 1, LeaseMs)]]
    /\ UNCHANGED <<heldBy, taken, leaseLost, silent, handler, settled>>

-----------------------------------------------------------------------------
(* The keeper.                                                             *)

\* #checkDeadline finds a whole lease without a renewal.
DeadlinePassed == ~settled /\ ~leaseLost /\ ~silent /\ age >= LeaseMs

Ask(k) == renewal' = [renewal EXCEPT ![k] = [at |-> "asked", since |-> 0]]

\* Mutated: a renewal in flight is looked for before the time is.
TickBehindRenewal ==
    /\ due = 0 /\ ~settled /\ ~leaseLost
    /\ due' = Every
    /\ IF renewal["tick"].at # "none" THEN UNCHANGED <<leaseLost, silent, renewal>>
       ELSE IF DeadlinePassed THEN leaseLost' = TRUE /\ UNCHANGED <<silent, renewal>>
       ELSE IF cover = 0 THEN silent' = TRUE /\ UNCHANGED <<leaseLost, renewal>>
       ELSE Ask("tick") /\ UNCHANGED <<leaseLost, silent>>
    /\ UNCHANGED <<leaseRow, age, cover, handler, settled>>

\* #tick: the deadline, a renewal under way, the cover, and only then a renewal.
KeeperTick ==
    /\ due = 0 /\ ~settled /\ ~leaseLost
    /\ due' = Every
    /\ IF DeadlinePassed THEN leaseLost' = TRUE /\ UNCHANGED <<silent, renewal>>
       ELSE IF renewal["tick"].at # "none" THEN UNCHANGED <<leaseLost, silent, renewal>>
       ELSE IF cover = 0 THEN silent' = TRUE /\ UNCHANGED <<leaseLost, renewal>>
       ELSE Ask("tick") /\ UNCHANGED <<leaseLost, silent>>
    /\ UNCHANGED <<leaseRow, age, cover, handler, settled>>

\* The database writes a renewal: the lease runs from when it was asked, and
\* the row is only looked at for its holder's name and its status.
Write(k) ==
    /\ renewal[k].at = "asked" /\ renewal[k].since <= DelayMax
    /\ IF heldBy \in {"this", "again"}
       THEN /\ leaseAge' = renewal[k].since
            /\ renewal' = [renewal EXCEPT ![k].at = "written"]
       ELSE /\ renewal' = [renewal EXCEPT ![k].at = "refused"]
            /\ UNCHANGED leaseAge
    /\ UNCHANGED <<heldBy, taken, awayFor, keeper, handler, settled>>

\* A step that fails: the handler makes something of it, or ends.
StepFails == handler' \in {"working", "over"}

\* After its confirm a step acts, a child's for as long as the child may take;
\* after the second it is committed, and the run has moved.
StepGoesOn ==
    \/ /\ handler = "confirming" /\ handler' = "acting"
       /\ cover' \in {cover, Covered(ChildWait)}
    \/ /\ handler = "committing" /\ handler' = "working"
       /\ cover' = Covered(LeaseMs)

\* Mutated: the lease is taken to run from when the answer came.
AnswerIsNow(k) ==
    /\ renewal[k].at = "written"
    /\ renewal' = [renewal EXCEPT ![k] = Idle]
    /\ age' = 0
    /\ IF k = "step" THEN StepGoesOn ELSE UNCHANGED <<handler, cover>>
    /\ UNCHANGED <<leaseRow, due, leaseLost, silent, settled>>

Answer(k) ==
    /\ renewal[k].at = "written"
    /\ renewal' = [renewal EXCEPT ![k] = Idle]
    /\ age' = AtMost(age, renewal[k].since)
    /\ IF k = "step" THEN StepGoesOn ELSE UNCHANGED <<handler, cover>>
    /\ UNCHANGED <<leaseRow, due, leaseLost, silent, settled>>

\* The lease is not this worker's: #markLost, unless the run is over already.
Refused(k) ==
    /\ renewal[k].at = "refused"
    /\ renewal' = [renewal EXCEPT ![k] = Idle]
    /\ leaseLost' = (leaseLost \/ ~settled)
    /\ IF k = "step" THEN StepFails ELSE UNCHANGED handler
    /\ UNCHANGED <<leaseRow, age, cover, due, silent, settled>>

\* A connection dropped, a pool exhausted, the answer lost.
Drop(k) ==
    /\ renewal[k].at \in {"asked", "written"}
    /\ renewal' = [renewal EXCEPT ![k] = Idle]
    /\ IF k = "step" THEN StepFails ELSE UNCHANGED handler
    /\ UNCHANGED <<leaseRow, keeper, settled>>

-----------------------------------------------------------------------------
(* The run.                                                                *)

\* confirm: before a step's side effect and before its commit.
Confirm ==
    /\ handler \in {"working", "acting"}
    /\ leaseLost' = (leaseLost \/ DeadlinePassed)
    /\ IF leaseLost' THEN StepFails /\ UNCHANGED renewal
       ELSE /\ handler' = IF handler = "working" THEN "confirming" ELSE "committing"
            /\ Ask("step")
    /\ UNCHANGED <<leaseRow, age, cover, due, silent, settled>>

\* A model's answer is progress.
ReportUsage ==
    /\ handler = "working"
    /\ cover' = Covered(LeaseMs)
    /\ UNCHANGED <<leaseRow, renewal, age, due, leaseLost, silent, handler, settled>>

\* The handler returns or throws between steps.
RunOver ==
    /\ handler = "working"
    /\ handler' = "over"
    /\ UNCHANGED <<leaseRow, renewal, keeper, settled>>

\* runTask stops waiting for the handler, which may go on: at a lost lease it
\* touches nothing, a quiet run it gives back, any other has its end written.
Settle ==
    /\ ~settled /\ (leaseLost \/ silent \/ handler = "over")
    /\ settled' = TRUE
    /\ heldBy' = IF leaseLost \/ heldBy # "this" THEN heldBy
                 ELSE IF silent THEN "none" ELSE "gone"
    /\ UNCHANGED <<leaseAge, taken, awayFor, renewal, keeper, handler>>

-----------------------------------------------------------------------------
(* The row, in other hands.                                                *)

\* reclaimExpiredLeases of any worker: of a lease that has run out, or of a
\* worker found silent when the tick began (silentHolders), however long its
\* lease.  When that is, is left open: beats go their own way to the database,
\* and may stop while renewals succeed.
ReclaimExpired ==
    /\ heldBy \in {"this", "again"}
    /\ heldBy' = "none" /\ awayFor' = 0
    /\ taken' = IF leaseAge >= LeaseMs THEN "lapsed" ELSE "judged"
    /\ UNCHANGED <<leaseAge, renewal, keeper, handler, settled>>

\* claimTask, by another worker or, its run settled, by this one.
Reclaim ==
    /\ heldBy = "none"
    /\ \/ heldBy' = "other" /\ UNCHANGED <<leaseAge, taken, awayFor>>
       \/ settled /\ heldBy' = "again" /\ leaseAge' = 0 /\ taken' = "no" /\ awayFor' = 0
    /\ UNCHANGED <<renewal, keeper, handler, settled>>

\* The owner cancels the task, or something parks it.
TaskGoes ==
    /\ heldBy = "this"
    /\ heldBy' = "gone"
    /\ UNCHANGED <<leaseAge, taken, awayFor, renewal, keeper, handler, settled>>

-----------------------------------------------------------------------------
KeeperNext ==
    \/ Pass \/ KeeperTick
    \/ \E k \in Askers : Write(k) \/ Answer(k) \/ Refused(k) \/ Drop(k)
    \/ Confirm \/ ReportUsage \/ RunOver \/ Settle
    \/ ReclaimExpired \/ Reclaim \/ TaskGoes

KeeperSpec == KeeperInit /\ [][KeeperNext]_keeperVars

\* Time passes, a timer that is due fires in the end, and a promise that was
\* rejected is acted on.  Nothing says a request is ever answered.
KeeperFairSpec == KeeperSpec /\ WF_keeperVars(Pass) /\ WF_keeperVars(KeeperTick) /\ WF_keeperVars(Settle)

-----------------------------------------------------------------------------
(* Properties.                                                             *)

Runs == {"working", "confirming", "acting", "committing", "over"}

KeeperTypeOK ==
    /\ heldBy \in {"this", "again", "other", "none", "gone"}
    /\ {leaseAge, awayFor} \subseteq 0 .. LeaseMs /\ taken \in {"no", "lapsed", "judged"}
    /\ renewal \in [Askers -> [at : {"none", "asked", "written", "refused"}, since : 0 .. LeaseMs]]
    /\ age \in 0 .. LeaseMs /\ cover \in 0 .. Forever /\ due \in 0 .. Every
    /\ leaseLost \in BOOLEAN /\ silent \in BOOLEAN /\ settled \in BOOLEAN
    /\ handler \in Runs

\* The keeper at work, with d of its lease left as it counts.
Trusts(d) == ~settled /\ ~leaseLost /\ age + d < LeaseMs

\* The keeper's count of the lease may be wrong by the longest a request can be
\* held up and by no more: up to that, no sweep has found the lease run out.  A
\* sweep that holds the worker for silent takes the task from under a lease that
\* both count as running, and then the keeper is wrong for less than a lease.
LeaseOutlastsTrust ==
    /\ Trusts(DelayMax) => taken # "lapsed" /\ leaseAge < LeaseMs
    /\ Trusts(0) => awayFor < LeaseMs

\* A run whose step hangs is given up: for its silence when it is renewed, for
\* its deadline when renewals fail or hang.
StuckRunIsGivenUp == (handler = "acting" /\ cover # Forever) ~> (handler # "acting" \/ settled)
=============================================================================
