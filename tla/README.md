# PALUGADA in TLA+

PALUGADA is a self-hosted control plane for companies run by AI agents. All of its state is in one
PostgreSQL database. Any number of worker processes take tasks from it, run agents on them and call
capabilities (mail, payments, browsers, code) through a broker; the owner decides, from a console or a
chat, about what the agents may not do alone. This directory holds TLA+ modules of the parts in which an
order of events can go wrong, TLC configurations that check them on small instances, and TLAPS proofs
that hold for every instance.

1. [The system](#1-the-system)
2. [The modules](#2-the-modules)
3. [What is checked](#3-what-is-checked)
4. [What is proved](#4-what-is-proved)
5. [Where code and words part](#5-where-code-and-words-part)
6. [What is not modelled](#6-what-is-not-modelled)
7. [The plan](#7-the-plan)

Paths are relative to `src/src`; migrations are in `src/db/migrations`.

## 1. The system

### Components

| component | source | state | operations | what makes it correct |
|---|---|---|---|---|
| task states | `domain/task.ts` | `tasks.status` | the table of transitions | every writer of the column keeps to the table |
| checkout | `engine/checkout.ts` | lease (holder, expiry), lanes, places of a division | claim, adopt, renew, release, clear, hand back, two sweeps, crash-loop halt | one worker at a task; a lane works one task; a division no more than its limit; lost work comes back; work that kills workers stops |
| run | `engine/engine.ts` | the run's row, steps, the attempt count | take a task, run it, park it, drive a child, fail, finish | only who holds a task says how it went |
| lease keeper | `engine/lease-keeper.ts` | in memory: last renewal, cover, lost | timer, confirm, cover, deadline | a process knows in time that it lost its lease |
| step journal | `engine/journal.ts` | `task_steps` | claim, fail, commit a step | a committed step is not done again |
| budget | `engine/budget.ts` and SQL functions | `budget_accounts`, a tree | reserve, spend, settle, release, ceilings, months | ceilings hold; reservations are what tasks hold; a tree agrees with itself |
| estimates | `broker/cost.ts` | `capability_costs` | charge, refund, settle | what was charged is given back where it was charged |
| broker | `broker/broker.ts` | invocation records | gates, approval, place, act, record | nothing is done without its yes, twice for one yes, or beyond its places |
| places in flight | `broker/in-flight.ts` | `capability_places` | take, give back, grow old | the limit of calls at once |
| inbox | `inbox/inbox.ts` | `inbox_items` | request, decide, ask, expire, withdraw, spend, return | one question for one act, and answers that reach the work |
| scheduler | `scheduler/scheduler.ts` | `schedules` | pass, Run now, edit, switch | no occurrence lost, none twice, none beside another it may not run beside |
| wakes | `scheduler/wake.ts` | `wake_queue`, `roles.dormant_until` | enqueue, fold, drain, heartbeat | an entry is looked at once and spent; no work depends on it |
| triggers, mailboxes | `scheduler/triggers.ts`, `chats/*` | deliveries, poll state | receive, start, record | a delivery starts one task, within a rate |
| reviews | `review/review.ts` | `review_requests` | open, verdict, settle, escalate | a proposer goes on exactly when its review says so |
| handoffs | `engine/handoff.ts` | `task_handoffs` | decide, create, record | a completion starts its successor once |
| task tree | `engine/tasks.ts`, `engine/owner-control.ts` | parent, hop, fan-out | sub-task, cancel tree, redo | no work outlives the tree it is for |
| sweeps for the owner | `engine/liveness.ts`, `engine/ended.ts` | events, cards | ask once | nothing waits or fails unseen |
| spending and role guards | `governance/spend-guard.ts`, `governance/role-freeze.ts` | pauses, freezes | evaluate, lift | a pause stops work, and ends |
| worker | `worker.ts` | none | the tick, stage after stage | each stage again on the next tick |

The rest (console, API, runtimes, capabilities, records, skills, templates and so on) is listed in
`PROJECT.json` with the reason it has no module.

### How they interact

- Every operation is a PostgreSQL transaction at READ COMMITTED, or a few of them one after another.
  Workers meet only in the database: row locks (`FOR UPDATE`, `SKIP LOCKED`), advisory locks, guarded
  updates (`WHERE status = ...`), unique keys.
- A tick (`worker.ts`) sweeps lost leases and runs, fires schedules, drains wakes, claims, and settles
  reviews, handoffs, stranded and ended work. A claim is run by `Engine.runTask`, which renews its lease
  by a timer and at each step, journals each step, and calls the broker inside it.
- The broker stops a run by throwing: the engine parks the task as waiting for an approval, a review or a
  time. The owner's decision, the reviewer's verdict or the clock makes it claimable again, and a new run
  replays the journal to the step that stopped.
- A parent's run drives its child: it creates the sub-task and runs it in the same process, or waits.

### What is hard

Two workers at one task after a lease ran out; a process that stands still and goes on; a crash between
two transactions of one operation; a decision of the owner between a look and an act; answers written in
another order than they were asked for; counts at their limits; a month that ends between a charge and
its refund. `PROJECT.json` lists the most important under `hazards`, each at its line, with the properties
that would catch it or the reason there is none.

## 2. The modules

An action is one transaction of the code, or one statement of it where another transaction can come
between. Variables are columns, with their names in comments; a variable for how far a worker has come
(`phase`, `call`, `pass`, `run`) stands for the process's stack between two transactions. A crash forgets
that and nothing else. Definitions that begin with a comment "Mutated:" are plausible bugs the properties
are tried against; nothing uses them otherwise.

| module | models | actions and the code |
|---|---|---|
| `TaskStatus` | the table of `domain/task.ts` for each task, as a specification of its own | `Next` is any edge of the table |
| `Checkout` | many tasks, workers, lanes, divisions, a parent and its children; nobody crashes | `Claim` (CLAIM_SQL under the company's lock), `Adopt`, `Start` ... `Leave` (the stations of runTask), `LookAtChild` (#driveChild), `Decide`, `ReviewFails`, `CancelTree`, `Lapse`, `HaltPastDeadline`; `CanClaim` has all the guards of the claim: wait, deadline, lane, place and what the account can fund; `DeadlinePasses`, `AccountChanges` are the world |
| `Leases` | one task and workers that crash, stand still, are silent or are stopped | `Claim`, `Renew`, `Complete`, `HandBack`, `Crash`, `GoQuiet`; `Judge`, `SweepLeases`, `SweepRuns`, `SweepTask` (the two sweeps, the orphan sweep in its two statements) |
| `LeaseKeeper` | one run's keeper and the requests it has under way | `KeeperTick`, `Confirm` ask; `Write` is the database, `Answer`, `Refused`, `Drop` the way back; `Settle` is runTask's end; `ReclaimExpired` is a sweep of any worker, of a lease that ran out or of a worker judged silent while its lease runs |
| `Budget` | the tree of accounts with tasks, runs and estimates drawing on it | one action for each caller's transaction: `Admit`, `AdmitAdopted`, `ReportUsage`, `ChargeEstimate`, `RefundEstimate`, `SettleActual`, `End`, `Cancel`, `ReadCeilings` and `WriteCeilings` apart |
| `Approvals` | one task whose run wants one call that needs the owner's yes | `ClaimStep`, `FindGrantedApproval`, `AskOwner`, `RequestApproval`, `SpendApproval`, `Act`, `ReturnApproval`, `Commit`; `Approve`, `Deny`, `Ask`, `Expire`, `StopEverything`; `Crash`, `LeaseIsLost` |
| `InFlight` | the places of one capability in one division | `TakePlace`, `GivePlaceBack`, `GiveBackFails`, `GrowOld`, `Withdraw` (the ways out before the vendor that are caught), `Slips` (those that are not), `SetGrant`, and the course of leases in short |
| `Reviews` | one proposer of several actions, their rounds of review and who settles them | `Propose`, `AnswerFound`, `Brief`, `Open`, `Park` (requestReview and the engine around it, transaction by transaction); `Review`, `Halt`, `Continue` (the reviewer's task); `List`, `Read`, `Record`, `LookAtProposer`, `MoveProposer`, `Tell`, `EscalateUnread`, `EscalateRefused` (settleCompletedReviews); `Find`, `Ask` (reportStranded) |
| `TaskTree` | a tree of sub-tasks and the successors of completed ones | `Ask`, `Look`, `Make` (createSubTask: confirm, count, insert), `Cancel` (cancelTask); `List`, `TakeUp`, `LookHandoff`, `MakeSuccessor`, `Fails`, `Record`, `CutOff` (processHandoffs); `Refuse`, `Ages` are the owner's limits and the week a completion is looked back on |
| `Deliveries` | one trigger, its role's wake queue, and the worker's two ways to a task | `Decide`, `Make`, `Record`, `Enqueue` (receiveHook); `QueueBeat`, `List`, `ClaimForWake`, `Spend` (wake.ts), `Claim` (the tick's own stage); `BarChanges` is whatever else the claim asks for |
| `Scheduler` | one schedule | `Scan`, `Judge`, `Drop`, `PassOver`, `Create`, `CannotCreate`, `Advance` (the transactions of a pass), `RunNow`, `RunNowCreates`, `Save`, `Turn`, `Freeze`; `RefusalChanges` is a pause, a frozen role or a short budget that comes or goes |

How they compose. `Checkout` instantiates `TaskStatus` and is checked and proved to implement it
(`StatusMachine`): the SQL that writes `status` without `transitionWithin` (claim, sweep, cancellation) keeps to
the table too. `Leases` and `Approvals`, which have one task each and begin when it is in the table, are checked
and proved to move it along the same edges. The other modules share the task as their common point: what
`Checkout` takes as one step of a lease, `Leases` and `LeaseKeeper` spread out; what `Leases` calls a run,
`Approvals` and `InFlight` spread out for the broker, taking from `Leases` that a lease may be lost under a run
that does not know it. They are kept apart because their product is beyond checking, and because no variable is
written in two of them but the lease, whose course in each is a part of the course in `Leases`. `Reviews` and
`TaskTree` are what stands around `Checkout` for a proposer and for a parent: they keep of a task only what
those need of its status, and take claims as given. `Deliveries` ends where `Checkout` begins, with a task that
waits to be claimed.

Choices worth knowing:

- `LeaseKeeper` and `Deliveries` give their definitions names of their own (`KeeperSpec`, `DeliveriesSpec`),
  so that their proofs can stand beside those of `Leases` and `Scheduler`, whose leases and workers they share.
- What a recursive column walk computes in the code is a constant with the equation it satisfies: `Chain` in
  `Budget` (`app.budget_chain`), `Above` in `TaskTree` (the tree upwards, from which `hop` and a cancelled
  tree are read).
- A lease's time is real only in `Leases` and `LeaseKeeper`. Elsewhere a lease is free, held or run out.
- In `Checkout` nobody stalls, so that what it shows of lanes and divisions is owed to the claim and not
  to luck; a name left behind on a parked task (`ParkBeforeRun`, section 5) does lapse. It has no clock: a
  deadline has passed or has not, and is moved where the code moves it (`Extended`). What an account has left is
  a number that changes as it likes, since how it does is `Budget`. The wait and the deadline of a task that has
  ended are forgotten, as nothing reads them.
- `LeaseKeeper` leaves open when a worker is judged silent. Its beats take their own way to the database and may
  stop while renewals succeed, so a sweep may take any held lease at any time, and `taken` says which of its two
  reasons it had.
- `Approvals` lets the owner answer at any time, also while a run is on its way. The journal's replay of
  the model's turn is kept: after an approval the same proposal comes again, after a question the model
  may propose another, of the same capability or of a different one.
- `Scheduler` counts time in units of which a period holds `Period`. Which clock times those are
  (`nextOccurrence` with its time zones) is left to the code's own tests. Whether a task is `refused` changes as
  it likes and without a bound.
- `Reviews` lets a reviewer's run end in any way, with an answer, with one that cannot be read, or halted and
  continued by the owner; the three ways out of a proposal (act, wait, be told no) are the engine's.
- `TaskTree` has one successor for each completion, and refusals of three kinds, as handoff.ts records them: a
  pause or an empty budget, which may lift; a limit of the tree or a cycle, which is for good; and any other
  error of the making (`Fails`), which is for good as well. A week is a number, `aged`, of the completions that
  are past it. A task that can have nothing under it neither ends nor is cancelled by itself: its end would
  change no count, and a live one is what a cancellation can miss.
- `Deliveries` has an hour pass for each row by itself, which is the sliding hour; heartbeats come when they
  like. A claim is `barred` as often and for as long as it is: by other tasks in the lane or division, by an
  account that is short, by a deadline that passed. Which of them it is, is `Checkout`'s business.
- Money and tokens are small naturals; what a price list makes of a call is not part of `Budget`.

## 3. What is checked

`tlc -config X.cfg M` from this directory. Passing runs check their invariants and properties without
error; a violation run shows a property that words in the repository claim and the code does not keep
(section 5).

| run | module, cfg | instance | distinct states | shows |
|---|---|---|---|---|
| budget | MCBudget | a company with two divisions, two tasks, one request, a month's end | 393 058 | token ceilings hold, reservations are what tasks hold, the tree agrees on tokens, and on money within a month |
| checkout | MCCheckout | three tasks, two in a lane, two in a division of one place; two workers | 1 218 868 | a lane works one task, a division its limit, an ended task is free |
| checkout_child | MCCheckout, MCCheckoutChild | a worker with several places, a parent and its child, a lane of two, a division of one place, an account with room for nobody or for two, a child with a deadline | 234 358 | the table is kept; an answered task goes on, unless another answered one stands in its way or its account is short |
| checkout_owner | MCCheckout, MCCheckoutOwner | a parent and its child, two workers | | a parent runs a child past the owner |
| keeper | LeaseKeeper, MCLeaseKeeper | a lease of three units, a timer of one, delay of one | 392 777 | the count of the lease is wrong by the delay at most, trust in a task that was taken ends within a lease; a stuck run is given up |
| leases | Leases, MCLeases | two workers, MAX_RECLAIMS 3 | 210 542 | crash loops stop, upgrades do not count, the table is kept, lost work comes back |
| approvals | MCApprovals | two workers, two proposals of one capability and one of another, two attempts, one loss, one question | 869 011 | a yes carries one act, the owner is told what may have happened, a card to answer for a waiting task, the table is kept, an approval is used |
| in_flight | MCInFlight | two workers, three runs, two tasks, limits 1 and 2, one loss, one give-back that fails or is never made | 557 112 | places are taken within the limit and come back but for that one |
| scheduler | Scheduler, MCScheduler | two workers' passes, two occurrences and the ones after, refusals that come and go, one upset | 851 272 | none lost, none told twice, none beside another, what is due is settled unless its task goes on being refused |
| reviews | Reviews, MCReviews | one run of the proposer at a time, two workers that settle, one action of up to two rounds, one crash | 194 502 | acts only on a reviewer's yes, rounds follow revisions, one verdict for a review, who waits is answered |
| tree | MCTaskTree | a root with three sub-tasks, successors of the root and of the first; a fan-out of two, passes of one by two workers, one step in flight, one successor that is a cycle, completions that age, one crash or failure | 691 680 | the fan-out's overshoot, what a cancellation leaves behind, the ledger, each completion decided within its week |
| deliveries | Deliveries, MCDeliveries | three deliveries, one an hour, two requests, one worker, one entry, a claim that is barred now and then, one crash | 428 218 | the rate's overshoot, refused is not started, made is claimed unless the claim is barred, wakes are spent |

`CHECK_DEADLOCK FALSE` is set everywhere: tasks end, clocks reach their bound and workers are dead, so
every model may stop.

**Bounds, and why they are enough.** Two workers suffice for every race of this code: its guards look at one
row, and at whether somebody else has it. Three tasks are the least with a lane and a division that overlap in
one task. One loss of a lease is what a stale run needs; that a second adds nothing to `OneYesOneAct` and
`PlaceIsUsed` is what their proofs show. `MaxLost`, `MaxAsks`, `MaxFailures`, `MaxUpsets` and `AttemptMax` bound
what the environment does (`MaxFailures` the give-backs that fail and those that are never made, `MaxCrashes` of
`TaskTree` the passes cut off and the makings that fail), `MaxMonth`, `MaxMoney` and `MaxTime` bound clocks and
counts. In `Approvals` `First` is what is proposed before any question: one of the two proposals that share a
capability, so that the question is followed by the other of them, by the one of another capability, and by the
same again. With `MaxAsks` 2 the invariants hold as well, on 14 333 041 states; the run keeps to one for its
time. Each is a guard of the action it bounds. `MaxTime` 3 with `Period` 2 has an occurrence judged while the
one before it is live, and one past its catch-up window; with `MaxUpsets` 1 an upset meets each of the stations
of a pass. `Lease` 3, `Every` 1 and `DelayMax` 1 let a renewal be overtaken by two others and be written after
the lease was lost by the count of the keeper. In `Reviews` two rounds are the least in which a round follows
one, and one run at a time is what the lease gives a task; `MaxCards` only stops a count nothing reads beyond
"some". In `Checkout` an account with `Rooms` {0, 2} and a `Reserve` of one funds nobody, or one task beside
another; in `checkout_child` the child has the deadline, so that it is halted also under its parent. The
`checkout` run has neither, since both guards only keep claims from being made. In `TaskTree` a third sub-task
is the one too many for a fan-out of two, a batch of one is full with one refusal, and the successor of the
first sub-task is past the hop limit and a cycle: the tree settles either from the start, so that one task
stands for both. In `Deliveries` three deliveries, two requests and one an hour are the least in which an
overshoot by two would show; one entry of the queue is enough for a wake to be folded into the one being
consumed, and two workers' passes over one entry differ from one worker's only in a second claim, which the
claim stage makes as well. Symmetry is used only in runs without liveness properties, over workers, tasks and
divisions that no configuration tells apart.

**Fairness, and why the code justifies it.** All of it is of a company that is not frozen, or no longer, and of
a platform that is not stopped: a tick does nothing for a frozen one (`worker.ts:987`) and only tells its owner
when everything is stopped (466).

- `Checkout`: every tick claims again and again what the queue offers, so a task that is offered
  infinitely often is claimed (SF on `Claim`, which other claims disable meanwhile); offered is one that all the
  guards of the claim let through, the account's and the deadline's too. Every tick halts what is past its deadline
  and in nobody's hands (WF). A run has a time limit
  (WF on `RunEnds`), and a worker goes on with what it took. Nothing is assumed of the owner, of time a
  task waits for, of children, or of an account that is short being raised.
- `Leases`: some worker goes on ticking (WF on the sweeps), and time passes though a sweep keeps asking
  about its own moment (SF on `Tick`). Nothing is assumed of the worker that has the task.
- `LeaseKeeper`: time passes, a due timer fires, an abandoned promise is acted on. Nothing is assumed
  of the database or of the sweeps: a renewal may never be answered, a task never taken back.
- `Approvals`: workers poll and finish what they began, a dead process's lease runs out, and a process is
  started again. Nothing is assumed of the owner, who may never answer.
- `Reviews`: each worker's tick comes round (WF), and a reviewer's task that is started often enough ends with
  an answer (SF): its attempts and its budget are finite. Nothing is assumed of the owner.
- `TaskTree`: each worker's pass goes on to its end and comes again (WF). Nothing is assumed of refusals
  being lifted, nor of a week not passing first; `HandoffsAreDecided` names those ends.
- `Deliveries`: a pass goes on (WF); a tick comes to the queue and to the claim stage again and again, and makes a
  claim that is possible again and again (SF). Nothing is assumed of senders and heartbeats, nor of a claim
  becoming possible; `MadeIsClaimed` names that end.
- `Scheduler`: each worker ticks and finishes its pass, tasks end. Nothing is assumed of a task
  being made: a pause, a frozen role or a short budget may refuse it on every pass, for ever. Nor is it of a freeze
  being lifted or of a switch being turned. `DueIsSettled` names those ends.

**The properties by module.**

- `Budget`: `TokensWithinCeiling` sets charges, cuts of a ceiling (checked in one transaction and written
  in another) and new months against each other. `ReservedIsHeld` is exact, so that it fails both for a leak
  and for a release that takes a sibling's part. `TokenLedgerAgrees` and `MoneyAgreesInAMonth` relate an
  account to its parent; money agrees only until a month changes.
- `Checkout`: `LaneWorksOne` and `DivisionWithinLimit` are about tasks in hand. A task that was approved is
  `running` before anybody has it, and a lane may then hold one in hand and one such; driven children are
  not counted, since they run in their parent's place. `AnsweredGoesOn` is why the claim takes a `running`
  task that nobody holds; it lets a task wait that another answered one of its lane or division is in the way
  of, which the code does (section 5), and one whose account cannot fund it, which the claim refuses at every tick
  until the owner raises it. A deadline is no such end: what is late is halted.
- `LeaseKeeper`: `LeaseOutlastsTrust` is stated with `DelayMax`, the longest a renewal waits to be written:
  without it no client-side count of a lease can be right. It is of the lease's time: with more than that delay
  left the lease runs, and no sweep took the task for a lease that ran out. A sweep that takes it because its
  worker no longer reports (`engine/checkout.ts:496`, sixty seconds) does so under a lease of fifteen minutes that
  still runs, and the keeper cannot know; it then trusts in a task that is another's, for less than a lease, since
  none of its renewals is written any more. Both halves are in the property, and section 5 has the second.
- `Leases` and `Approvals`: `StatusMachine` holds every step against `TaskStatus`: a sweep that has seen a
  silent run or an expired lease, and an answer of the owner, meet the task wherever it has gone since.
- `Leases`: `CrashLoopStops` counts workers that had the task and were lost; `UpgradesAreNotLosses` says a
  halt needs a loss.
- `Approvals`: `OneYesOneAct` compares what the vendor did with the card's approval, over all workers.
  `ToldItMayHaveHappened` covers interruptions by death, with one question; a worker that merely stood still,
  and a second question, are in section 5. `WaitsOnACard` relates the task's status to all of its cards: it
  fails for an answer that leaves the task where it was, an end that leaves a card, and a card that does not
  make way for the next.
- `InFlight`: `TakenWithinLimit` counts the calls of runs that have kept their lease. `PlaceIsUsed` has no
  general excuse for failures: a place nobody uses must be under a key whose own last call ended without giving it
  back (`left`), which only a failed give-back and the ways out of section 5 (`Slips`) do.
- `Scheduler`: `NothingLost` is about each move of the clock past an occurrence; `RunsAlone` and `SaidOnce`
  about all occurrences and both workers. `DueIsSettled` has one end beside being settled: from some time on the
  occurrence stays due and is refused again and again.
- `Reviews`: `ActsOnApproval` and `OneVerdictOfAReview` compare what was carried out and recorded with what
  the reviewer said, which no table of the program holds together. `RoundsFollowRevisions` says that no
  action gathers a yes and a no, or a round over a verdict that asked for none. `WaitingIsAnswered` takes the
  sweep of `liveness.ts` as the last resort for a crash between verdict and move, and for a verdict that
  comes before the proposer waits; it ends at the one question a task is given.
- `TaskTree`: `FanOutOvershoot` and `LeftBehindWereUnderWay` bound what a count and a look without a lock
  let through by the calls in flight, and are exact: one more is a bug. `LedgerIsTrue` compares the ledger
  with the tree: a refusal that counts as one of the tree (`final`) is of a limit reached or a cycle, and stays so.
  Any other error of the making is recorded in the same column and is for good too; the module keeps the two
  apart as "final" and "failed", because the second is true of nothing in the tree (section 5).
  `HandoffsAreDecided` is F6.3 within the week the code looks back on, up to refusals that come again and again
  and to what section 5 says of a full batch.
- `Deliveries`: `RateOvershoot` is exact too. `RefusedIsNotStarted` is what a sender relies on that is told
  to come back. `MadeIsClaimed` shows that wakes only hasten, whatever becomes of them, and that nothing but a claim
  that is barred keeps a task waiting; `WakesAreSpent` that
  the queue does not fill with entries of dead workers.

## 4. What is proved

Each `*Proofs` module extends its specification and proves, with an inductive invariant `IInv`, theorems for
every value of the constants that meets the named assumptions.

`LeaseKeeper` is proved in `LeasesProofs` and `Deliveries` in `SchedulerProofs`.

| theorem | of | from the invariant | why it is needed |
|---|---|---|---|
| `BudgetCeiling`, `BudgetLedger` | types, `TokensWithinCeiling`, `TokenLedgerAgrees` | accounts are opened from the top; an account whose month is ahead of its parent's has spent nothing | without it a charge could find the chain half in one month and half in the next |
| `ReservationsAreHeld` | `ReservedIsHeld` | the sum itself, and only a live task holds any | a release is clamped at zero, which must not bite; a task that is to be admitted twice would count twice |
| `MoneyLedger` | `MoneyAgreesInAMonth` | in the first month an account has been charged at least what may yet be taken back from it (the runs' charges and the estimates in flight under it), and of the rest it has no more than the account above | a settlement is clamped at each account by itself: it must bite at none |
| `EndedIsFree` | types, `EndedNamesNoWorker` | a task without a parent that a worker has in hand is held by that worker until it ends; only children are looked at | the claim reads `status`, the run remembers its phase; this ties the two |
| `OneOfALane`, `DivisionLimit` | `LaneWorksOne`, `DivisionWithinLimit` | the same | cardinalities by `FiniteSetTheorems` |
| `EnginesFollowTheTable` | `StatusMachine`, the refinement of `TaskStatus` | the same | each hand-written UPDATE maps to an edge of the table or a stutter |
| `TrustIsBounded` | types, `LeaseOutlastsTrust` | every answer still on its way is of a request whose row is at most the delay older, and, once the task was taken, of one asked at least as long ago as it has been away | answers may come in any order, and after the task was taken |
| `LossesKeepToTheTable`, `AnswersKeepToTheTable` | `StatusMachine` of `Leases` and of `Approvals`, steps of `TaskStatus` | the types | sweeps, decisions and runs that lost the task move it in transactions of their own, some by SQL that does not ask the table |
| `CrashLoopsEnd` | types, `CrashLoopStops`, `UpgradesAreNotLosses` | counted losses are at least the lost workers; at the limit the task has ended; before the first loss the orphan sweep finds nothing | the sweeps' two statements |
| `OneYesCarriesOneAct` | `OneYesOneAct` | a run between a spent yes and its return holds that yes alone; a yes nobody holds was acted on once for each unclear answer | the yes is spent by a guarded update, the act is elsewhere |
| `CommitsAreLast` | `CommittedIsLast` | no two runs on their way to the vendor claimed one step at one attempt, and none is ahead of the step's | the step is claimed in one transaction and committed in another, by attempt |
| `OneCardIsOpen` | `WaitsOnACard` | inductive as it stands: any answer sends the task on or ends it | a question leaves the card open and lets the task go on, to ask for the same, for something else, or for nothing |
| `OwnerIsTold` | `ToldItMayHaveHappened` | while nobody stood still and the owner asked one question at most: one run is under way; a run with a yes has no open card for it; a run about to ask has no yes to it, unless that came after the question, and then no card is open | the run looks at the used yeses in one transaction and opens the card in another; the owner asks and answers between them |
| `NoPlaceIsLeft` | types, `PlaceIsUsed` | a run at a call has its key; what a call leaves behind is on record until a call with that key gives it back | a place is given back by key, by whichever run gives it |
| `PlacesAreWithinLimits` | `TakenWithinLimit` | a counted call has a place under its worker's lease, and two calls under one key at once are on record: the counted calls beside the one that takes a place map one to one to places in its way, of which there are fewer than its limit | the place is another row than the lease, and is given back by key |
| `ToldOnce` | types, `SaidOnce` | nothing has been told of an occurrence the clock has not passed | |
| `OneAtATime` | `RunsAlone` | as long as the row is not edited, every occurrence that was passed or made is before those that were not, and all earlier ones are over when one is made or about to be | a pass judges in one transaction and creates in another |
| `NoneLost` | `NothingLost` | the same invariant | |
| `ActsAreApproved` | `ActsOnApproval` | an approved row has its verdict on record; a run cleared to act has an approved round | verdict, row and act are three transactions |
| `RoundsAreRevisions` | `RoundsFollowRevisions` | every round but the latest was revised; a run about to open one comes right after a revised round | the round is chosen long before it is opened |
| `VerdictsAreAnswers` | `OneVerdictOfAReview` | a worker that read an answer holds what the reviewer's task, which has ended, says | two workers hold it at once |
| `FanOutIsBounded` | `FanOutOvershoot` | children that are there, steps past the count and the successor past it keep to the bound together | count and insert are two transactions, and a successor two workers make is one |
| `LeftBehindIsBounded` | `LeftBehindWereUnderWay` | live sub-tasks of a cancelled task and the steps still making one are no more than the steps there are | a step confirms the parent and inserts later |
| `LedgersAreTrue` | `LedgerIsTrue` | what a worker is about to record is so: the successor is there, the limit reached or the task a cycle | it is decided in one transaction and recorded in another |
| `EndsAreForGood` | an action property: no step takes a task out of its end or out of the tree | the same | handoffs, runs and cancellations write one column |
| `RateIsBounded` | `RateOvershoot` | deliveries that count and requests that have yet to record keep to the bound together | the rate is read under a lock that is given back before the start is recorded |
| `RefusalsAreTrue` | `RefusedIsNotStarted` | a task of a delivery is recorded, or a request that made it is about to, or one was cut off | the task is made in one transaction and recorded in another |
| `CountsAreCounts`, `RowsAreTyped`, `LeasesAreTyped`, `CardsAreTyped`, `PlacesAreTyped`, `PassesAreTyped`, `TreesAreTyped`, `DeliveriesAreTyped`, `WellTyped` | the type invariants; what is proved here needs no run, so that only that of `Budget` is in one, for its clamps | | every other theorem rests on them |
| `UpgradesLoseNothing` | `UpgradesAreNotLosses` | as `CrashLoopsEnd` | |

**Sums.** `ReservedIsHeld` is an equation between a column and a sum over tasks, and `MoneyAgreesInAMonth` needs
such a sum on both sides. The sum is the community modules' `SumFunctionOnSet`, whose definition chooses a
function by recursion over the subsets of a set. `BudgetProofs` proves of it what a reader takes for granted:
that there is such a function (`SumsExist`) and only one (`SumsAgree`), that any element can be taken out and
not only the one the definition picks (`SumTakeOut`), that it depends on its terms alone (`SumSame`), changes
with one of them (`SumChange`) and splits along a subset (`SumSplit`). Induction over the size of the set is by
the least counterexample (`WFMin` on the naturals), stated for a set and not for a predicate (`Counting`,
`OneByOne`), since the library's induction theorems take an operator the installed provers cannot be given.

**The assumptions** are those of the modules: constants are disjoint sets and naturals; in `Budget` that `Chain`
is the ancestors of each account and that tasks are finitely many, as rows are; in `Checkout` that tasks are
finitely many, that children have no lane (no caller gives one) and that reservations and rooms are naturals; in
`LeaseKeeper` that the timer is no longer than the lease and the delay shorter; in `TaskTree` that `Above` is
the ancestors of each task, that cyclic ones are tasks, that the steps in flight are finitely many and that a
task has one successor at most; in `Deliveries` that requests are finitely many and at least one. TLC evaluates
all of them in every run.

**Only model-checked**: the liveness properties (`AnsweredGoesOn`, `StuckRunIsGivenUp`, `LostWorkIsTakenBack`,
`ApprovedIsUsed`, `DueIsSettled`, `WaitingIsAnswered`, `HandoffsAreDecided`, `MadeIsClaimed`,
`WakesAreSpent`), whose fairness is beyond the prover. Every other property of a passing run is proved for all
values of the constants.

## 5. Where code and words part

Shown by a violation run:

- **A child past the owner** (`checkout_owner`). `#driveChild` reads the child's status and then runs it;
  between the two another worker can park it for an approval, and `runTask` adopts a waiting task.

Met while modelling, without a run of their own:

- `0037_settle_the_chain.sql:32`. `budget_settle` takes neither a month nor starts one. An estimate charged
  before the month's end is taken off the new month wherever something was already charged, and clamped away
  elsewhere, so that a division may have spent more than its company; 0101:10 says counts belong to the month
  they were spent in. `MoneyAgreesInAMonth` therefore stops at the month's end.
- `engine/engine.ts:1410`. A handler that returned is completed after a look at the status only, also by a
  worker that lost the task; the comment on the error path (1418) says such a worker does not say how it went.
- `broker/broker.ts:674`. The broker looks for a yes and requests one in two transactions, and the request
  looks only for open cards: a yes of the owner between them is passed over and they are asked again, which
  `inbox/inbox.ts:209` means to prevent.
- `review/review.ts:335`. Two workers that settle one review may record its verdict twice, as two decision
  records; both say the same (`OneVerdictOfAReview`). The comment at 575 ("nothing of it was kept") is wrong
  when only the move failed, or another worker recorded first. The escalation at 562 does not look at the
  row's status, and may be written over a verdict another worker has just recorded.
- `engine/liveness.ts:137`. The question about a stranded task is asked once for the task and its shape: a
  proposer the owner let go, which parks again and is stranded again, is not asked about a second time.
- `engine/tasks.ts:479`. A policy that names a reviewer who does not exist parks the task for a review
  nobody opened; the sweep finds it.
- `engine/tasks.ts:488`. A sub-task whose creation was past the look at its parent when `cancelTask` ran is
  left running; so is the successor of a completed sub-task under a cancelled tree, which `processHandoffs`
  starts later. `engine/owner-control.ts:91` cancels what is there.
- `engine/checkout.ts:553`. What is past its deadline is listed in one transaction and halted in others, and a
  running task may be halted: one adopted in between is halted under its worker, which the comment at 562 ("moved
  on while this ran, claimed, ...") takes for a case the table refuses.
- `engine/checkout.ts:496`. A task is taken from a worker that does not report for sixty seconds, though its lease
  runs for fifteen minutes and is being renewed. Its keeper goes on trusting the lease until a renewal is refused or
  a lease has passed, and two workers run the task meanwhile; `LeaseOutlastsTrust` bounds that by a lease and not
  by the delay.
- `engine/handoff.ts:188`. Whatever `createSubTask` throws is recorded as a refusal, and every code outside
  `MAY_LIFT` is final: a role that is incomplete, or a database error that passes ("handoff.failed"), ends the
  handoff for good. The comment at 76 says that anything that may not lift "is a property of the tree". A slow
  worker's final refusal may also be written over a successor another worker has made, and stays.
- `engine/handoff.ts:123`. A completion that is refused for longer than seven days is never decided, whatever
  lifts then, and nobody is told. `test/acceptance/contracts-handoff.test.ts:262` means old completions to be left
  alone under a new rule; here the rule was there.
- `engine/handoff.ts:126`. Refused handoffs that may lift come first and fill the batch: a hundred of them
  keep every later completion waiting (`Crowded` in `HandoffsAreDecided`). A slow worker may write a refusal
  that may lift over a successor another worker has made and recorded; a later pass finds the successor again.
- `scheduler/triggers.ts:636`. The upsert keeps `received_at` of a delivery refused earlier: a retry after an
  hour starts and is never counted, so that refused deliveries that come back are not held to the rate.
- `scheduler/wake.ts:70` and `212`. A wake folded into an entry another worker is consuming is not looked at
  (the claim stage finds the task), and a heartbeat puts a role to sleep that was woken meanwhile (which only
  delays the next heartbeat).
- `engine/budget.ts:144`. Ceilings are read in one transaction and written in another without comparing: a
  cut as it was read can be written as a raise that nobody proved.
- `engine/checkout.ts:152`. Two answered tasks (`running`, nobody's) of a division of one place count
  against each other, and neither is claimed until something else moves one; `engine/liveness.ts:2` says
  every live task has something that will move it.
- `engine/engine.ts:623` and `652`. A task parked before its agent starts keeps its worker's name until the
  lease runs out; `engine/engine.ts:1440` says a parked task names no worker.
- `engine/engine.ts:1496`. A driven child in `waiting_window` is run at its parent's next poll, before its
  time.
- `engine/lease-keeper.ts:114`. `confirm` looks at the loss of the lease before its renewal and not after.
- `engine/checkout.ts:299`. A renewal names the worker, not the run: the late renewal of an ended run renews
  the same worker's next run of the task.
- `engine/checkout.ts:376`. One loss may leave both an expired lease and an orphaned run, and counts twice.
- `engine/engine.ts:1418`. The run's row is shared by the runs of an attempt and is ended by a run that has
  lost the task, before it looks at its lease.
- `engine/checkout.ts:707`. The orphan sweep's second statement takes back a task whoever holds it by then.
- `broker/in-flight.ts:91`. A place is given back by the key of the call. A run that lost its task makes the
  same call as the new holder, so that it frees the new holder's place and the limit is exceeded by one:
  `CallsWithinLimit` of `InFlight` states what is missed.
- `broker/broker.ts:808` and `863`. The record that a capability's own check let a call go, and the estimate of
  its cost, are made with the place held and outside everything that gives it back, and so is a `takePlace` (628)
  whose answer is lost: a failure there keeps the place until the task's lease is lost or cleared. The comment at
  620 says it is given back "as soon as anything on the way there fails".
- `broker/broker.ts:674`. A worker that stood still and lost the task can open a card for an act the new
  holder has done meanwhile, without saying so (hence `stalls = 0` in `ToldItMayHaveHappened`). Nor does a card
  say so that was open before: the owner asks, and approves while the run is about to ask again; the new card
  stays open at a second question, and the run spends the yes and is interrupted. `inbox/inbox.ts:254` returns
  the open card as it is (hence `asks <= 1`).
- `inbox/inbox.ts:222`. A card makes way for another proposal of its capability only. After a question that is
  followed by a proposal of another capability two cards are open, and answering the one that nothing waits on
  any more lets the task go on, to ask again (2415).
- `scheduler/scheduler.ts:676`. An occurrence whose task was made just before a crash, or by a pass slower
  than the one that dropped it, is recorded as dropped and runs: `DroppedDidNotRun` of `Scheduler`.
  `test/acceptance/schedule-overlap.test.ts:207` says one later than the window is not run.
- `scheduler/scheduler.ts:783`. An occurrence passed over leaves `held_by_task_id`, which 0099:31 says is
  cleared whenever the schedule moves on.
- `scheduler/triggers.ts:583`. Deliveries are decided under the trigger's row lock "so two arriving together
  cannot both find room under the limit", but a started one is recorded in a later transaction: both find it.

## 6. What is not modelled

- **What the model does.** A run of an agent may end in any way at any time its code allows.
- **Policies, windows, grants and kill switches** are read in one transaction at the start of a call, and
  are a choice of the environment. So are the amounts of a bill.
- **Isolation of tenants** (row-level security, roles of the database), sessions, second factors, secrets.
- **Adapters**: vendors, model clients, runtimes, browsers, mail. What may happen twice around a vendor is
  in `Approvals` and `InFlight`; how a vendor tells two calls apart is not.
- **Rendering**: console, notices, reports, translations, documents.
- **Time zones** of schedules, windows of hours, a project's active hours, and the order of the queue: `Checkout`
  claims any task that may be claimed.
- **Handoff rules** that decline a completion, and several rules for one.
- Yeses given for a while or for a schedule, the guardian, reviews of a call and the capability's own check
  of what it did; which run a queued occurrence is held for, the removal of a schedule and the question
  about repeated results.

## 7. The plan

In the order of what would hurt most if it were wrong. Done: `TaskStatus`, `Checkout`, `Leases`,
`LeaseKeeper`, `Budget`, `Approvals`, `InFlight`, `Scheduler`, `Reviews`, `TaskTree` (with the handoffs) and
`Deliveries` (with the wakes), and the proofs of all their safety properties. What is left:

1. **Proofs** of what no run states yet: that money agrees up to what was settled across a month's end, which
   needs the sums of `MoneyLedger` month by month, and what each module's steps may never do, as `EndsAreForGood`
   says of `TaskTree`.
2. **Abstract specifications** to which the modules are refined, as `Checkout` is to `TaskStatus`: a lock with
   at most one owner that is right about itself (`Leases`, `LeaseKeeper`), an account book with a ceiling
   (`Budget`), a ledger of occurrences, each settled once (`Scheduler`), a promise of one act for a yes
   (`Approvals`).
3. **The rest of the tree** (`engine/owner-control.ts`): a task done again while the system continues it, and
   a parent woken after its child's end.
4. **Mailboxes and chats** (`chats/mail.ts`): the poll's position and the messages it has passed, beside
   `Deliveries`, whose shape they share.
5. **The owner's inbox**: escalations and their grace, which `Reviews` takes as one card.
