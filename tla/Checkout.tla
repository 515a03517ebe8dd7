------------------------------ MODULE Checkout ------------------------------
(***************************************************************************)
(* How tasks are claimed, run, parked and gone on with: the claim of       *)
(* engine/checkout.ts, the course of Engine.runTask and of the child it    *)
(* drives, and the decisions that move a parked task.                      *)
(*                                                                         *)
(* Several tasks, divisions, lanes, accounts and parents; no failures:     *)
(* every worker here renews its lease in time, so a lease is free or held. *)
(* A deadline has passed or has not; what an account has left changes as   *)
(* it likes (the module Budget says how).                                  *)
(* What happens when a worker stalls or dies is the module Leases.         *)
(***************************************************************************)
EXTENDS Integers, FiniteSets, Functions

CONSTANTS
    Tasks, Workers,
    NoWorker,        \* lease_holder IS NULL
    Parent, NoTask,  \* parent_task_id
    Division,        \* division_id
    MaxConcurrency,  \* divisions.max_concurrency
    Lane, NoLane,    \* lane_key
    Timed,           \* tasks with a deadline_at
    Account,         \* budget_account_id
    Reserve,         \* tasks.tokens_reserved
    Rooms,           \* what tokens_max - tokens_spent may be
    AttemptMax       \* attempt_max

ASSUME TaskAssumption ==
    /\ NoWorker \notin Workers /\ NoTask \notin Tasks
    /\ Parent \in [Tasks -> Tasks \cup {NoTask}]
    /\ IsFiniteSet(Tasks)
    /\ \A t \in Tasks : Division[t] \in DOMAIN MaxConcurrency
    /\ \A d \in DOMAIN MaxConcurrency : MaxConcurrency[d] \in Nat
    \* No caller that makes a child gives it a lane.
    /\ \A t \in Tasks : Parent[t] # NoTask => Lane[t] = NoLane
    /\ Timed \subseteq Tasks
    /\ Reserve \in [Tasks -> Nat] /\ Rooms \subseteq Nat
    /\ AttemptMax \in Nat \ {0}

VARIABLES
    status,     \* tasks.status
    holder,     \* tasks.lease_holder
    wake,       \* wait_until: "none" (NULL), "later" or "now" (past)
    attempt,    \* tasks.attempt
    late,       \* the tasks whose deadline_at has passed
    room,       \* tokens_max - tokens_spent of an account
    phase       \* how far a worker's runTask on a task has come

rows == <<status, holder, wake, attempt, late>>
vars == <<rows, room, phase>>

\* The state machine of domain/task.ts, which every change of a status obeys.
TS == INSTANCE TaskStatus WITH Tasks <- Tasks, status <- status

\* "claimed" from the queue or "looked" at as a child to drive; "adopted" with
\* its lease, "ready" once running; "running" its agent; "leaving" a parked
\* task; "none" otherwise.
Phases == {"none", "claimed", "looked", "adopted", "ready", "running", "leaving"}
InHandPhases == {"claimed", "adopted", "ready", "running"}
Busy == {"checked_out", "running"}
Waiting == {"waiting_approval", "waiting_review", "waiting_window"}

Accounts == {Account[t] : t \in Tasks}

Ended(t) == status[t] \in TS!Terminal
Live(t) == status[t] \notin TS!Terminal \cup {"new"}

Init ==
    /\ status = [t \in Tasks |-> "new"]
    /\ holder = [t \in Tasks |-> NoWorker]
    /\ wake = [t \in Tasks |-> "none"]
    /\ attempt = [t \in Tasks |-> 0]
    /\ late = {}
    /\ room \in [Accounts -> Rooms]
    /\ phase = [w \in Workers |-> [t \in Tasks |-> "none"]]

-----------------------------------------------------------------------------
(* transitionWithin: the row moves if the table lets it.  A terminal status *)
(* clears the lease, running clears the time to wake at.  A deadline is     *)
(* moved by the time a person took, or a park is going to take.             *)
Extended(t, to, until) ==
    \/ to = "running" /\ status[t] \in {"waiting_approval", "waiting_review"}
    \/ to = "waiting_window" /\ until = "later"

\* Nothing reads the wait and the deadline of a task that has ended: they are
\* forgotten here.
Forget(ended) ==
    /\ wake' = [u \in Tasks |-> IF u \in ended THEN "none" ELSE wake[u]]
    /\ late' = late \ ended

Move(t, to, until) ==
    /\ to \in TS!Transitions[status[t]]
    /\ status' = [status EXCEPT ![t] = to]
    /\ holder' = IF to \in TS!Terminal THEN [holder EXCEPT ![t] = NoWorker] ELSE holder
    /\ IF to \in TS!Terminal THEN Forget({t})
       ELSE /\ wake' = IF until # "none" THEN [wake EXCEPT ![t] = until]
                       ELSE IF to = "running" THEN [wake EXCEPT ![t] = "none"] ELSE wake
            /\ \/ UNCHANGED late
               \/ Extended(t, to, until) /\ late' = late \ {t}

Enter(w, t, p) == phase' = [phase EXCEPT ![w][t] = p]

\* createRootTask, and createSubTask called from a parent's run (awaitChild).
Create(t) ==
    /\ status[t] = "new"
    /\ Parent[t] # NoTask => \E w \in Workers : phase[w][Parent[t]] = "running"
    /\ status' = [status EXCEPT ![t] = "pending"]
    /\ UNCHANGED <<holder, wake, attempt, late, room, phase>>

-----------------------------------------------------------------------------
(* The claim.                                                              *)

\* Mutated: only running tasks count against a lane and a division.
OthersRunning(t) == {u \in Tasks \ {t} : status[u] = "running"}

\* The tasks beside t that hold a place.
OthersBusy(t) == {u \in Tasks \ {t} : status[u] \in Busy}

LaneFree(t) == Lane[t] # NoLane => \A u \in OthersBusy(t) : Lane[u] # Lane[t]

\* The division has a place, or the claim is by id, of a child its own
\* running parent drives.
PlaceFree(w, t, byId) ==
    \/ Cardinality({u \in OthersBusy(t) : Division[u] = Division[t]})
         < MaxConcurrency[Division[t]]
    \/ /\ byId
       /\ Parent[t] # NoTask
       /\ holder[Parent[t]] = w
       /\ status[Parent[t]] \in Busy

\* Mutated: as the claim was, it does not look for a running task nobody holds.
QueuedButNotApproved(t) ==
    \/ (status[t] = "pending" /\ wake[t] # "later")
    \/ (status[t] = "waiting_window" /\ wake[t] = "now")

\* pending; parked for a time that came; running and held by nobody.
Queued(t) ==
    \/ (status[t] = "pending" /\ wake[t] # "later")
    \/ (status[t] = "waiting_window" /\ wake[t] = "now")
    \/ (status[t] = "running" /\ holder[t] = NoWorker /\ wake[t] # "later")

\* The account has room for what t holds beside what the tasks in hand hold:
\* nobody is exempt, a driven child neither.
Funded(t) ==
    room[Account[t]] >= Reserve[t]
        + SumFunctionOnSet(Reserve, {u \in OthersBusy(t) : Account[u] = Account[t]})

CanClaim(w, t, byId) ==
    Queued(t) /\ t \notin late /\ LaneFree(t) /\ PlaceFree(w, t, byId) /\ Funded(t)

TakeLease(w, t) ==
    /\ status' = [status EXCEPT ![t] = IF @ = "running" THEN @ ELSE "checked_out"]
    /\ holder' = [holder EXCEPT ![t] = w]
    /\ UNCHANGED <<wake, attempt, late, room>>

\* A place of the worker claims whatever the queue offers (claimTask).
Claim(w, t) ==
    /\ phase[w][t] = "none"
    /\ CanClaim(w, t, FALSE)
    /\ TakeLease(w, t)
    /\ Enter(w, t, "claimed")

\* #driveChild looks at the child before it runs it.
LookAtChild(w, t) ==
    /\ Parent[t] # NoTask
    /\ phase[w][Parent[t]] = "running"
    /\ phase[w][t] = "none"
    /\ Live(t) /\ status[t] \notin {"waiting_approval", "waiting_review"}
    /\ Enter(w, t, "looked")
    /\ UNCHANGED <<rows, room>>

\* The lease of a name left behind runs out, since nobody renews it.
MayHaveLapsed(t) == holder[t] # NoWorker /\ phase[holder[t]][t] = "none"

\* Mutated: the lease is adopted whatever has become of the task.
AdoptAnyStatus(w, t) ==
    /\ phase[w][t] \in {"claimed", "looked"}
    /\ holder[t] \in {NoWorker, w}
    /\ holder' = [holder EXCEPT ![t] = w]
    /\ Enter(w, t, "adopted")
    /\ UNCHANGED <<status, wake, attempt, late, room>>

\* runTask reads the task again and takes its lease: a pending one by a claim
\* of its own, any other by adoptLease, which looks at the lease alone.
Adopt(w, t) ==
    /\ phase[w][t] \in {"claimed", "looked"}
    /\ \/ /\ status[t] = "pending" /\ CanClaim(w, t, TRUE)
          /\ TakeLease(w, t)
          /\ Enter(w, t, "adopted")
       \/ /\ status[t] \in Busy \cup Waiting
          /\ holder[t] \in {NoWorker, w} \/ MayHaveLapsed(t)
          /\ holder' = [holder EXCEPT ![t] = w]
          /\ Enter(w, t, IF status[t] = "running" THEN "ready" ELSE "adopted")
          /\ UNCHANGED <<status, wake, attempt, late, room>>

\* Somebody else holds the task, it cannot be claimed now, or it has ended.
NotClaimed(w, t) ==
    /\ phase[w][t] \in {"claimed", "looked"}
    /\ \/ status[t] = "pending" /\ ~CanClaim(w, t, TRUE)
       \/ status[t] \in Busy \cup Waiting /\ holder[t] \notin {NoWorker, w}
       \/ Ended(t)
    /\ Enter(w, t, "none")
    /\ UNCHANGED <<rows, room>>

-----------------------------------------------------------------------------
(* The run.                                                                *)

\* The transition to running of a task that was not.
Start(w, t) ==
    /\ phase[w][t] = "adopted"
    /\ Move(t, "running", "none")
    /\ Enter(w, t, "ready")
    /\ UNCHANGED <<attempt, room>>

\* Before the agent starts: parked for cheap hours, a paused role or a
\* capability that is down, and the lease stays with this worker.
ParkBeforeRun(w, t) ==
    /\ phase[w][t] = "ready"
    /\ Move(t, "waiting_window", "later")
    /\ Enter(w, t, "none")
    /\ UNCHANGED <<attempt, room>>

\* The runtime is down: back to the queue, the lease dropped just after.
Unhealthy(w, t) ==
    /\ phase[w][t] = "ready"
    /\ Move(t, "pending", "none")
    /\ Enter(w, t, "leaving")
    /\ UNCHANGED <<attempt, room>>

BeginRun(w, t) ==
    /\ phase[w][t] = "ready"
    /\ status[t] = "running"
    /\ Enter(w, t, "running")
    /\ UNCHANGED <<rows, room>>

\* The parent's agent waits for the child this worker drives.
Driving(w, t) == \E c \in Tasks : Parent[c] = t /\ phase[w][c] # "none"

\* The run's answer, or a halt: also of a task not begun (contract, preflight,
\* no such runtime).
Finish(w, t, to) ==
    /\ \/ phase[w][t] = "running" /\ ~Driving(w, t)
       \/ phase[w][t] = "ready" /\ to = "halted"
    /\ Move(t, to, "none")
    /\ Enter(w, t, "none")
    /\ UNCHANGED <<attempt, room>>

\* requestApproval, review.required, window.closed, a rate limit, a model down.
Park(w, t, to, until) ==
    /\ phase[w][t] = "running" /\ ~Driving(w, t)
    /\ Move(t, to, until)
    /\ Enter(w, t, "leaving")
    /\ UNCHANGED <<attempt, room>>

\* An attempt that failed: parked to be tried again, or failed for good.  Its
\* time limit gives it up even while it waits on a child.
FailAttempt(w, t) ==
    /\ phase[w][t] = "running"
    /\ attempt[t] < AttemptMax
    /\ attempt' = [attempt EXCEPT ![t] = @ + 1]
    /\ IF attempt[t] + 1 >= AttemptMax
       THEN Move(t, "failed", "none") /\ Enter(w, t, "none")
       ELSE Move(t, "waiting_window", "later") /\ Enter(w, t, "leaving")
    /\ UNCHANGED room

\* clearLease, only of a lease that is this worker's.
Leave(w, t) ==
    /\ phase[w][t] = "leaving"
    /\ holder' = IF holder[t] = w THEN [holder EXCEPT ![t] = NoWorker] ELSE holder
    /\ Enter(w, t, "none")
    /\ UNCHANGED <<status, wake, attempt, late, room>>

\* A renewal comes between the parking and the leaving, finds the task no
\* longer running and takes that for a lost lease: nothing is cleared.
TakenForLost(w, t) ==
    /\ phase[w][t] = "leaving"
    /\ status[t] # "pending"
    /\ status[t] \notin Busy \/ holder[t] # w
    /\ Enter(w, t, "none")
    /\ UNCHANGED <<rows, room>>

\* Whatever a run does next, it finds its task ended, or its lease gone; or an
\* answer moved the task to running before its start did, which is refused and
\* leaves this worker's name on it.
Displaced(w, t) ==
    /\ phase[w][t] \in {"adopted", "ready", "running"}
    /\ \/ Ended(t) \/ holder[t] # w
       \/ phase[w][t] = "adopted" /\ status[t] = "running"
    /\ Enter(w, t, "none")
    /\ UNCHANGED <<rows, room>>

\* The worker is told to stop (handBack).
HandBack(w, t) ==
    /\ phase[w][t] = "running"
    /\ holder[t] = w /\ status[t] \in Busy
    /\ status' = [status EXCEPT ![t] = "pending"]
    /\ holder' = [holder EXCEPT ![t] = NoWorker]
    /\ Enter(w, t, "none")
    /\ UNCHANGED <<wake, attempt, late, room>>

\* drainWakes claimed more than the tick went on to run (releaseTask).
Release(w, t) ==
    /\ phase[w][t] = "claimed"
    /\ IF holder[t] = w /\ status[t] = "checked_out"
       THEN /\ status' = [status EXCEPT ![t] = "pending"]
            /\ holder' = [holder EXCEPT ![t] = NoWorker]
       ELSE UNCHANGED <<status, holder>>
    /\ Enter(w, t, "none")
    /\ UNCHANGED <<wake, attempt, late, room>>

-----------------------------------------------------------------------------
(* What moves a task from outside a run.                                   *)

TimePasses(t) ==
    /\ wake[t] = "later"
    /\ wake' = [wake EXCEPT ![t] = "now"]
    /\ UNCHANGED <<status, holder, attempt, late, room, phase>>

DeadlinePasses(t) ==
    /\ t \in Timed \ late /\ Live(t)
    /\ late' = late \cup {t}
    /\ UNCHANGED <<status, holder, wake, attempt, room, phase>>

\* What is left of an account: runs and refunds, ceilings and months.
AccountChanges ==
    /\ \E a \in Accounts, n \in Rooms : room' = [room EXCEPT ![a] = n]
    /\ UNCHANGED <<rows, phase>>

\* What haltPastDeadlines lists.
Overdue(t) ==
    /\ t \in late
    /\ \/ status[t] \in {"pending", "waiting_window"}
       \/ status[t] \in Busy /\ holder[t] = NoWorker

\* It halts what it listed, whatever has been done with it meanwhile; a parent
\* that awaits a child nobody holds halts it too (task.await).
HaltPastDeadline(t) ==
    /\ t \in late /\ Live(t)
    /\ Move(t, "halted", "none")
    /\ UNCHANGED <<attempt, room, phase>>

\* settleTask: the owner's answer to any card of the task moves it on from
\* whatever it was waiting for.
Decide(t) ==
    /\ status[t] \in Waiting
    /\ Move(t, "running", "none")
    /\ UNCHANGED <<attempt, room, phase>>

\* A review sent back past its rounds.
ReviewFails(t) ==
    /\ status[t] = "waiting_review"
    /\ Move(t, "failed", "none")
    /\ UNCHANGED <<attempt, room, phase>>

\* cancelTask: the task and every task under it that has not ended.
CancelTree(t) ==
    LET tree == {u \in Tasks : Live(u) /\ (u = t \/ Parent[u] = t)} IN
    /\ Live(t)
    /\ status' = [u \in Tasks |-> IF u \in tree THEN "cancelled" ELSE status[u]]
    /\ holder' = [u \in Tasks |-> IF u \in tree THEN NoWorker ELSE holder[u]]
    /\ Forget(tree)
    /\ UNCHANGED <<attempt, room, phase>>

\* Mutated: any lapsed lease is taken back, a parked task's too.
LapseOfAnyStatus(t) ==
    /\ MayHaveLapsed(t)
    /\ \E to \in {"pending", "halted"} :
          /\ status' = [status EXCEPT ![t] = to]
          /\ Forget(IF to = "halted" THEN {t} ELSE {})
    /\ holder' = [holder EXCEPT ![t] = NoWorker]
    /\ UNCHANGED <<attempt, room, phase>>

\* A name left on a task nobody runs: its lease runs out and the sweep puts the
\* task back, or halts it the third time (reclaimExpiredLeases).
Lapse(t) ==
    /\ status[t] \in Busy /\ MayHaveLapsed(t)
    /\ \E to \in {"pending", "halted"} :
          /\ status' = [status EXCEPT ![t] = to]
          /\ Forget(IF to = "halted" THEN {t} ELSE {})
    /\ holder' = [holder EXCEPT ![t] = NoWorker]
    /\ UNCHANGED <<attempt, room, phase>>

-----------------------------------------------------------------------------
\* A run that has begun, or was about to, comes to an end of one kind or another.
RunEnds(w, t) ==
    \/ \E to \in {"completed", "failed", "halted"} : Finish(w, t, to)
    \/ Park(w, t, "waiting_approval", "none") \/ Park(w, t, "waiting_review", "none")
    \/ \E until \in {"none", "later"} : Park(w, t, "waiting_window", until)
    \/ FailAttempt(w, t)

RunNext(w, t) ==
    \/ Claim(w, t) \/ LookAtChild(w, t) \/ Adopt(w, t) \/ NotClaimed(w, t) \/ Start(w, t)
    \/ ParkBeforeRun(w, t) \/ Unhealthy(w, t) \/ BeginRun(w, t) \/ RunEnds(w, t)
    \/ Leave(w, t) \/ TakenForLost(w, t)
    \/ Displaced(w, t) \/ HandBack(w, t) \/ Release(w, t)

OutsideNext(t) ==
    \/ Create(t) \/ TimePasses(t) \/ Decide(t) \/ ReviewFails(t) \/ CancelTree(t) \/ Lapse(t)
    \/ DeadlinePasses(t) \/ HaltPastDeadline(t)

Next ==
    \/ AccountChanges
    \/ \E t \in Tasks : OutsideNext(t) \/ \E w \in Workers : RunNext(w, t)

Spec == Init /\ [][Next]_vars

\* Every worker's tick claims what the queue offers again and again and runs
\* the sweeps, a worker goes on with what it claimed, and a run has a time limit.
Fairness ==
    \A t \in Tasks :
       /\ SF_vars(\E w \in Workers : Claim(w, t)) /\ WF_vars(Lapse(t))
       /\ WF_vars(Overdue(t) /\ HaltPastDeadline(t))
       /\ \A w \in Workers : /\ WF_vars(Adopt(w, t)) /\ WF_vars(NotClaimed(w, t))
                             /\ WF_vars(Start(w, t)) /\ WF_vars(BeginRun(w, t))
                             /\ WF_vars(RunEnds(w, t)) /\ WF_vars(Leave(w, t))
                             /\ WF_vars(Displaced(w, t))

FairSpec == Spec /\ Fairness

-----------------------------------------------------------------------------
(* Properties.                                                             *)

TypeOK ==
    /\ status \in [Tasks -> TS!Status]
    /\ holder \in [Tasks -> Workers \cup {NoWorker}]
    /\ wake \in [Tasks -> {"none", "later", "now"}]
    /\ attempt \in [Tasks -> 0 .. AttemptMax]
    /\ late \subseteq Timed
    /\ room \in [Accounts -> Rooms]
    /\ phase \in [Workers -> [Tasks -> Phases]]

\* A worker has the task in hand: it holds it and its run is at work on it.
InHand(t) ==
    /\ status[t] \in Busy
    /\ \E w \in Workers : holder[t] = w /\ phase[w][t] \in InHandPhases

\* A lane is worked by one task at a time (F5.13), though an owner may approve
\* a parked task of the lane while another is at work.
LaneWorksOne ==
    \A t, u \in Tasks : t # u /\ Lane[t] = Lane[u] /\ Lane[t] # NoLane
                           => ~(InHand(t) /\ InHand(u))

\* A division's workers have no more of its own tasks in hand than its limit
\* (F5.7), not counting children, which their parents drive in their place.
DivisionWithinLimit ==
    \A d \in DOMAIN MaxConcurrency :
       Cardinality({t \in Tasks : Division[t] = d /\ Parent[t] = NoTask /\ InHand(t)})
          <= MaxConcurrency[d]

\* A task that has ended names no worker, whoever wakes up and adopts it.
EndedNamesNoWorker == \A t \in Tasks : Ended(t) => holder[t] = NoWorker

\* Every status change, the claim's and the cancellation's own SQL included,
\* is an edge of the state machine.
StatusMachine == TS!Spec

\* Moved to running by an answer, and held by nobody yet.
Answered(t) == status[t] = "running" /\ holder[t] = NoWorker

\* Another answered task counts against the place or the lane of t.
InTheWay(t) == \E u \in Tasks \ {t} :
    /\ Answered(u)
    /\ Division[u] = Division[t] \/ (Lane[u] = Lane[t] /\ Lane[t] # NoLane)

\* A task the owner or a reviewer answered is gone on with, or ends: unless
\* from some time on it is never without another answered task in its way, as
\* each of two in one narrow division or one lane is, or without a want of
\* room in its account, as long as nobody raises it.
AnsweredGoesOn ==
    \A t \in Tasks :
       \/ Answered(t) ~> (InHand(t) \/ status[t] # "running")
       \/ <>[](Answered(t) /\ (InTheWay(t) \/ ~Funded(t)))

\* A task waiting for the owner is not moved on by a worker.
WaitsForTheOwner ==
    [][\A w \in Workers, t \in Tasks :
          status[t] = "waiting_approval" => ~Start(w, t)]_vars
=============================================================================
