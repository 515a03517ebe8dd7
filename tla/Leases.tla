------------------------------- MODULE Leases -------------------------------
(***************************************************************************)
(* One task and the workers that lose it: leases that run out, workers     *)
(* that die, go quiet or are stopped, and the sweep every worker's tick    *)
(* runs (engine/checkout.ts), around the run of engine.ts.                 *)
(*                                                                         *)
(* A worker's name holds its process and its boot, so a worker that is     *)
(* started again is another worker.  Statements of one transaction are     *)
(* separate steps where another transaction can come between them.         *)
(***************************************************************************)
EXTENDS Integers, FiniteSets

CONSTANTS
    Workers,
    NoWorker,     \* lease_holder IS NULL
    Lease,        \* DEFAULT_LEASE_MS, in units of time
    MaxReclaims   \* MAX_RECLAIMS

ASSUME LeaseAssumption ==
    NoWorker \notin Workers /\ Lease \in Nat \ {0} /\ MaxReclaims \in Nat \ {0}

VARIABLES
    status, holder,
    leaseLeft,    \* lease_expires_at - now, 0 when it ran out
    runRow,       \* agent_runs.status of the task's attempt, which runs share
    beatAge,      \* now - last_heartbeat_at, up to two leases
    losses,       \* task.lease_expired and agent_run.orphaned events
    phase,        \* how far each worker has come with the task
    quiet,        \* workers whose word that they are alive is old
    judged,       \* the holders the sweep under way was told are silent
    sweep,        \* where the sweep under way has come to
    lost          \* how many times the task was lost by a worker that had it

row == <<status, holder, leaseLeft>>
run == <<runRow, beatAge>>
sweeping == <<judged, sweep>>
vars == <<row, run, losses, phase, quiet, sweeping, lost>>

\* The state machine of domain/task.ts, for the one task there is.
TS == INSTANCE TaskStatus WITH Tasks <- {"task"}, status <- [t \in {"task"} |-> status]

Busy == {"checked_out", "running"}
InHandPhases == {"claimed", "adopted", "resuming", "running", "answered"}
LeaseLive == holder # NoWorker /\ leaseLeft > 0
OrphanAge == 2 * Lease    \* ORPHAN_MULTIPLE

Init ==
    /\ status = "pending" /\ holder = NoWorker /\ leaseLeft = 0
    /\ runRow = "none" /\ beatAge = 0 /\ losses = 0
    /\ phase = [w \in Workers |-> "idle"]
    /\ quiet = {} /\ judged = {} /\ sweep = "none" /\ lost = 0

Enter(w, p) == phase' = [phase EXCEPT ![w] = p]

\* A worker that is quiet does nothing until it speaks again.
Up(w) == phase[w] # "dead" /\ w \notin quiet

Hold(w) == holder' = w /\ leaseLeft' = Lease

\* A sweep asks all its questions about the moment its tick began.
Tick ==
    /\ sweep \in {"none", "orphaned"}
    /\ leaseLeft' = IF leaseLeft = 0 THEN 0 ELSE leaseLeft - 1
    /\ beatAge' = IF beatAge = OrphanAge THEN OrphanAge ELSE beatAge + 1
    /\ UNCHANGED <<status, holder, runRow, losses, phase, quiet, sweeping, lost>>

-----------------------------------------------------------------------------
(* Losing the task.                                                        *)

\* Mutated: a loss more than the limit.
BackOrHaltedLate(n) == IF n > MaxReclaims THEN "halted" ELSE "pending"

\* haltIfCrashLooping, in the transaction that counted the n-th loss.
BackOrHalted(n) == IF n >= MaxReclaims THEN "halted" ELSE "pending"

\* Back to the queue, counted, and halted when it was one loss too many.
TakeBack ==
    /\ losses' = losses + 1
    /\ status' = BackOrHalted(losses + 1)
    /\ holder' = NoWorker /\ leaseLeft' = 0

\* giveBack: by the holder, whose run went quiet or could not be started.
GiveBackIfHeld(w) ==
    IF holder = w /\ status \in Busy
    THEN TakeBack /\ lost' = lost + 1
    ELSE UNCHANGED <<row, losses, lost>>

-----------------------------------------------------------------------------
(* A worker with the task.                                                 *)

\* From the queue, or running and held by nobody.
Claim(w) ==
    /\ Up(w) /\ phase[w] = "idle"
    /\ status = "pending" \/ (status = "running" /\ holder = NoWorker)
    /\ status' = (IF status = "running" THEN status ELSE "checked_out") /\ Hold(w)
    /\ Enter(w, "claimed")
    /\ UNCHANGED <<run, losses, quiet, sweeping, lost>>

\* runTask reads the task again and adopts its lease (or claims it again).
Adopt(w) ==
    /\ Up(w) /\ phase[w] = "claimed"
    /\ IF status \in Busy /\ (holder \in {NoWorker, w} \/ leaseLeft = 0)
       THEN Hold(w) /\ UNCHANGED status /\ Enter(w, IF status = "running" THEN "resuming" ELSE "adopted")
       ELSE IF status = "pending"
       THEN Hold(w) /\ status' = "checked_out" /\ Enter(w, "adopted")
       ELSE UNCHANGED row /\ Enter(w, "idle")
    /\ UNCHANGED <<run, losses, quiet, sweeping, lost>>

\* To running, unless that is what was read, and the attempt's row:
\* #startAgentRun waits for a sweep that has the row locked.
StartRun(w) ==
    /\ Up(w) /\ sweep # "orphaned"
    /\ \/ phase[w] = "adopted" /\ status \in {"pending", "checked_out"} /\ status' = "running"
       \/ phase[w] = "resuming" /\ UNCHANGED status
    /\ runRow' = "running" /\ beatAge' = 0
    /\ Enter(w, "running")
    /\ UNCHANGED <<holder, leaseLeft, losses, quiet, sweeping, lost>>

\* The engine throws before the run began: #runClaimed gives the task back.
CannotStart(w) ==
    /\ Up(w) /\ phase[w] \in {"claimed", "adopted", "resuming"}
    /\ GiveBackIfHeld(w)
    /\ Enter(w, "idle")
    /\ UNCHANGED <<run, quiet, sweeping>>

\* #holdLease: the keeper's timer, or a step's confirm.
Renew(w) ==
    /\ Up(w) /\ phase[w] = "running"
    /\ holder = w /\ status \in Busy
    /\ leaseLeft' = Lease /\ beatAge' = 0
    /\ UNCHANGED <<status, holder, runRow, losses, phase, quiet, sweeping, lost>>

\* The lease is found lost: the attempt's row is ended, and nothing else.
FindLost(w) ==
    /\ Up(w) /\ phase[w] = "running"
    /\ holder # w \/ status \notin Busy
    /\ runRow' = "ended"
    /\ Enter(w, "idle")
    /\ UNCHANGED <<row, beatAge, losses, quiet, sweeping, lost>>

\* A run without progress is given back by its own worker.
QuietRun(w) ==
    /\ Up(w) /\ phase[w] = "running"
    /\ runRow' = "ended"
    /\ GiveBackIfHeld(w)
    /\ Enter(w, "idle")
    /\ UNCHANGED <<beatAge, quiet, sweeping>>

\* The handler's answer is in: the attempt's row is ended.
Answered(w) ==
    /\ Up(w) /\ phase[w] = "running"
    /\ runRow' = "ended"
    /\ Enter(w, "answered")
    /\ UNCHANGED <<row, beatAge, losses, quiet, sweeping, lost>>

\* And the task is completed if it is running, whoever holds it.  Back in the
\* queue, or claimed from there, it can be neither completed nor failed, and
\* the row is ended once more (an attempt that failed is not told apart).
Complete(w) ==
    /\ Up(w) /\ phase[w] = "answered"
    /\ IF status = "running"
       THEN status' = "completed" /\ holder' = NoWorker /\ leaseLeft' = 0
       ELSE UNCHANGED row
    /\ runRow' = IF status \in {"pending", "checked_out"} THEN "ended" ELSE runRow
    /\ Enter(w, "idle")
    /\ UNCHANGED <<beatAge, losses, quiet, sweeping, lost>>

\* Mutated: a task handed back is counted as lost.
HandBackCounted(w) ==
    /\ Up(w) /\ phase[w] = "running"
    /\ runRow' = "ended"
    /\ IF holder = w /\ status \in Busy THEN TakeBack ELSE UNCHANGED <<row, losses>>
    /\ Enter(w, "dead")
    /\ UNCHANGED <<beatAge, quiet, sweeping, lost>>

\* The process is told to stop: handed back, counted against nothing.
HandBack(w) ==
    /\ Up(w) /\ phase[w] = "running"
    /\ runRow' = "ended"
    /\ IF holder = w /\ status \in Busy
       THEN status' = "pending" /\ holder' = NoWorker /\ leaseLeft' = 0
       ELSE UNCHANGED row
    /\ Enter(w, "dead")
    /\ UNCHANGED <<beatAge, losses, quiet, sweeping, lost>>

Crash(w) ==
    /\ phase[w] # "dead"
    /\ Enter(w, "dead")
    /\ UNCHANGED <<row, run, losses, quiet, sweeping, lost>>

\* A process that stands still, or is cut off from the database.
GoQuiet(w) ==
    /\ Up(w)
    /\ quiet' = quiet \cup {w}
    /\ UNCHANGED <<row, run, losses, phase, sweeping, lost>>

SpeakAgain(w) ==
    /\ w \in quiet /\ phase[w] # "dead"
    /\ quiet' = quiet \ {w}
    /\ UNCHANGED <<row, run, losses, phase, sweeping, lost>>

-----------------------------------------------------------------------------
(* The sweep of some worker's tick.                                        *)

Silent == {w \in Workers : phase[w] = "dead"} \cup quiet

\* silentHolders, once at the start of the tick.
Judge ==
    /\ sweep = "none"
    /\ judged' \in SUBSET Silent
    /\ sweep' = "judged"
    /\ UNCHANGED <<row, run, losses, phase, quiet, lost>>

\* Mutated: only the leases of silent holders are taken back.
SweepSilent ==
    /\ sweep = "judged"
    /\ IF status \in Busy /\ holder \in judged
       THEN TakeBack /\ lost' = lost + 1
       ELSE UNCHANGED <<row, losses, lost>>
    /\ sweep' = "leases" /\ judged' = {}
    /\ UNCHANGED <<run, phase, quiet>>

\* reclaimExpiredLeases, one statement under the row's lock.
SweepLeases ==
    /\ sweep = "judged"
    /\ IF status \in Busy /\ holder # NoWorker /\ (leaseLeft = 0 \/ holder \in judged)
       THEN TakeBack /\ lost' = lost + 1
       ELSE UNCHANGED <<row, losses, lost>>
    /\ sweep' = "leases" /\ judged' = {}
    /\ UNCHANGED <<run, phase, quiet>>

\* reclaimOrphans' first statement: the run is marked, its row stays locked.
SweepRuns ==
    /\ sweep = "leases"
    /\ IF runRow = "running" /\ beatAge = OrphanAge /\ ~LeaseLive
       THEN runRow' = "orphaned" /\ sweep' = "orphaned"
       ELSE UNCHANGED runRow /\ sweep' = "none"
    /\ UNCHANGED <<row, beatAge, losses, phase, quiet, judged, lost>>

\* Mutated: the task is put back in the queue whatever became of it.
SweepTaskWhatever ==
    /\ sweep = "orphaned"
    /\ losses' = losses + 1
    /\ status' = BackOrHalted(losses + 1) /\ holder' = NoWorker /\ leaseLeft' = 0
    /\ sweep' = "none"
    /\ UNCHANGED <<run, phase, quiet, judged, lost>>

\* Its second: the event, the task back to the queue whoever holds it by now,
\* and haltIfCrashLooping, of a pending task.
SweepTask ==
    /\ sweep = "orphaned"
    /\ losses' = losses + 1
    /\ IF status \in Busy \cup {"pending"}
       THEN status' = BackOrHalted(losses + 1) /\ holder' = NoWorker /\ leaseLeft' = 0
       ELSE UNCHANGED row
    /\ sweep' = "none"
    /\ UNCHANGED <<run, phase, quiet, judged, lost>>

-----------------------------------------------------------------------------
WorkerNext(w) ==
    \/ Claim(w) \/ Adopt(w) \/ StartRun(w) \/ CannotStart(w) \/ Renew(w) \/ FindLost(w)
    \/ QuietRun(w) \/ Answered(w) \/ Complete(w) \/ HandBack(w)
    \/ Crash(w) \/ GoQuiet(w) \/ SpeakAgain(w)

Sweep == Judge \/ SweepLeases \/ SweepRuns \/ SweepTask

Next == Tick \/ Sweep \/ \E w \in Workers : WorkerNext(w)

Spec == Init /\ [][Next]_vars

\* Some worker of the deployment always goes on ticking, and time passes though
\* a sweep keeps asking about the moment its own tick began.
FairSpec == Spec /\ SF_vars(Tick) /\ WF_vars(Judge) /\ WF_vars(SweepLeases)
                 /\ WF_vars(SweepRuns) /\ WF_vars(SweepTask)

-----------------------------------------------------------------------------
(* Properties.                                                             *)

TypeOK ==
    /\ status \in {"pending", "checked_out", "running", "completed", "halted"}
    /\ holder \in Workers \cup {NoWorker} /\ leaseLeft \in 0 .. Lease
    /\ runRow \in {"none", "running", "ended", "orphaned"} /\ beatAge \in 0 .. OrphanAge
    /\ losses \in Nat /\ lost \in Nat
    /\ phase \in [Workers -> InHandPhases \cup {"idle", "dead"}]
    /\ quiet \subseteq Workers /\ judged \subseteq Workers
    /\ sweep \in {"none", "judged", "leases", "orphaned"}

\* A task that takes its worker with it takes no more than MAX_RECLAIMS of
\* them, whether they die, stand still, go quiet or cannot begin.
CrashLoopStops == lost <= MaxReclaims

\* Neither a sweep nor a worker that lost the task moves it past the table,
\* though each decides by what it read of it before.
StatusMachine == [][TS!Next]_status

\* A task halted as a crash loop was lost at least once: three upgrades during
\* one long task halt nothing.
UpgradesAreNotLosses == losses > 0 => lost > 0

\* A task whose worker died does not stay with it.
LostWorkIsTakenBack ==
    \A w \in Workers : (phase[w] = "dead" /\ holder = w) ~> holder # w
=============================================================================
