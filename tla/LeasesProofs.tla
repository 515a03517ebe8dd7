---------------------------- MODULE LeasesProofs -----------------------------
(***************************************************************************)
(* What a lost worker counts for, for every number of workers, every lease *)
(* and every limit on losses; and how far the keeper of a lease may trust  *)
(* its own count of it, for every length of its timer and of a request's   *)
(* delay.  The two are separate specifications: no variable is of both.    *)
(***************************************************************************)
EXTENDS Leases, LeaseKeeper, TLAPS

\* A task that was lost as often as it may be is ended.
LimitEnds ==
    /\ lost <= losses /\ lost <= MaxReclaims
    /\ losses >= MaxReclaims => status \in {"completed", "halted"}

\* Until a worker is lost, the task is whose hands it is in, its run's row says
\* so, and a sweep that has looked at the lease leaves the run alone.
NothingLostYet ==
    losses = 0 =>
        /\ status \in Busy <=> holder # NoWorker
        /\ \A w \in Workers : phase[w] \in InHandPhases => holder = w
        /\ \A w \in Workers : phase[w] \in {"resuming", "running"} => status = "running"
        /\ \A w \in Workers : phase[w] = "answered" => runRow # "running"
        /\ runRow = "running" => status = "running"
        /\ sweep = "leases" /\ status \in Busy => leaseLeft > 0
        /\ sweep # "orphaned"

IInv == TypeOK /\ LimitEnds /\ NothingLostYet /\ UpgradesAreNotLosses

LEMMA TypeStep == TypeOK /\ [Next]_vars => TypeOK'
<1> SUFFICES ASSUME TypeOK, [Next]_vars PROVE TypeOK'
  OBVIOUS
<1> USE LeaseAssumption DEF TypeOK, InHandPhases, Busy, OrphanAge
<1>1. CASE UNCHANGED vars
  BY <1>1 DEF vars, row, run, sweeping
<1>2. CASE Tick
  BY <1>2 DEF Tick, sweeping
<1>3. ASSUME NEW w \in Workers, WorkerNext(w) PROVE TypeOK'
  <2>1. CASE Claim(w)
    BY <2>1 DEF Claim, Hold, Enter, run, sweeping
  <2>2. CASE Adopt(w)
    BY <2>2 DEF Adopt, Hold, Enter, run, sweeping, row
  <2>3. CASE StartRun(w)
    BY <2>3 DEF StartRun, Enter, sweeping
  <2>4. CASE CannotStart(w)
    BY <2>4 DEF CannotStart, GiveBackIfHeld, TakeBack, BackOrHalted, Enter, run, sweeping, row
  <2>5. CASE Renew(w) \/ FindLost(w)
    BY <2>5 DEF Renew, FindLost, Enter, sweeping, row
  <2>6. CASE QuietRun(w)
    BY <2>6 DEF QuietRun, GiveBackIfHeld, TakeBack, BackOrHalted, Enter, sweeping, row
  <2>7. CASE Answered(w) \/ Complete(w)
    BY <2>7 DEF Answered, Complete, Enter, sweeping, row
  <2>8. CASE HandBack(w)
    BY <2>8 DEF HandBack, Enter, sweeping, row
  <2>9. CASE Crash(w) \/ GoQuiet(w) \/ SpeakAgain(w)
    BY <2>9 DEF Crash, GoQuiet, SpeakAgain, Enter, row, run, sweeping
  <2> QED BY <1>3, <2>1, <2>2, <2>3, <2>4, <2>5, <2>6, <2>7, <2>8, <2>9 DEF WorkerNext
<1>4. CASE Sweep
  <2>1. CASE Judge
    BY <2>1 DEF Judge, Silent, row, run
  <2>2. CASE SweepLeases
    BY <2>2 DEF SweepLeases, TakeBack, BackOrHalted, row, run
  <2>3. CASE SweepRuns
    BY <2>3 DEF SweepRuns, row
  <2>4. CASE SweepTask
    BY <2>4 DEF SweepTask, BackOrHalted, row, run
  <2> QED BY <1>4, <2>1, <2>2, <2>3, <2>4 DEF Sweep
<1> QED BY <1>1, <1>2, <1>3, <1>4 DEF Next

LEMMA LimitStep == IInv /\ [Next]_vars => LimitEnds'
<1> SUFFICES ASSUME IInv, [Next]_vars PROVE LimitEnds'
  OBVIOUS
<1> USE LeaseAssumption DEF IInv, TypeOK, LimitEnds, Busy
<1>1. CASE UNCHANGED vars
  BY <1>1 DEF vars, row
<1>2. CASE Tick
  BY <1>2 DEF Tick
<1>3. ASSUME NEW w \in Workers, WorkerNext(w) PROVE LimitEnds'
  <2>1. CASE Claim(w)
    BY <2>1 DEF Claim
  <2>2. CASE Adopt(w)
    BY <2>2 DEF Adopt, row
  <2>3. CASE StartRun(w)
    BY <2>3 DEF StartRun
  <2>4. CASE CannotStart(w) \/ QuietRun(w)
    BY <2>4 DEF CannotStart, QuietRun, GiveBackIfHeld, TakeBack, BackOrHalted, row
  <2>5. CASE Renew(w) \/ FindLost(w) \/ Answered(w) \/ Complete(w) \/ HandBack(w)
    BY <2>5 DEF Renew, FindLost, Answered, Complete, HandBack, row
  <2>6. CASE Crash(w) \/ GoQuiet(w) \/ SpeakAgain(w)
    BY <2>6 DEF Crash, GoQuiet, SpeakAgain, row
  <2> QED BY <1>3, <2>1, <2>2, <2>3, <2>4, <2>5, <2>6 DEF WorkerNext
<1>4. CASE Sweep
  BY <1>4 DEF Sweep, Judge, SweepLeases, SweepRuns, SweepTask, TakeBack, BackOrHalted, row
<1> QED BY <1>1, <1>2, <1>3, <1>4 DEF Next

\* No step takes the task from a worker before the loss is counted.
LEMMA FirstLossStep == IInv /\ [Next]_vars => NothingLostYet'
<1> SUFFICES ASSUME IInv, [Next]_vars, losses' = 0 PROVE NothingLostYet'
  BY DEF NothingLostYet
<1>1. losses = 0
  <2>1. losses' >= losses
    BY DEF IInv, TypeOK, Next, vars, row, run, sweeping, Tick, WorkerNext, Claim, Adopt, StartRun,
           CannotStart, Renew, FindLost, QuietRun, Answered, Complete, HandBack, Crash, GoQuiet,
           SpeakAgain, Sweep, Judge, SweepLeases, SweepRuns, SweepTask, GiveBackIfHeld, TakeBack
  <2> QED BY <2>1 DEF IInv, TypeOK
<1> USE <1>1, LeaseAssumption DEF IInv, TypeOK, NothingLostYet, Busy, InHandPhases
<1>2. CASE UNCHANGED vars
  BY <1>2 DEF vars, row, run, sweeping
<1>3. CASE Tick
  BY <1>3 DEF Tick, sweeping
<1>4. ASSUME NEW w \in Workers, WorkerNext(w) PROVE NothingLostYet'
  <2>1. CASE Claim(w)
    BY <2>1 DEF Claim, Hold, Enter, run, sweeping
  <2>2. CASE Adopt(w)
    BY <2>2 DEF Adopt, Hold, Enter, run, sweeping, row
  <2>3. CASE StartRun(w)
    BY <2>3 DEF StartRun, Enter, sweeping
  <2>4. CASE CannotStart(w)
    BY <2>4 DEF CannotStart, GiveBackIfHeld, TakeBack, Enter, run, sweeping, row
  <2>5. CASE Renew(w) \/ FindLost(w)
    BY <2>5 DEF Renew, FindLost, Enter, sweeping, row
  <2>6. CASE QuietRun(w)
    BY <2>6 DEF QuietRun, GiveBackIfHeld, TakeBack, Enter, sweeping, row
  <2>7. CASE Answered(w)
    BY <2>7 DEF Answered, Enter, sweeping, row
  <2>8. CASE Complete(w)
    BY <2>8 DEF Complete, Enter, sweeping, row
  <2>9. CASE HandBack(w)
    BY <2>9 DEF HandBack, Enter, sweeping, row
  <2>10. CASE Crash(w) \/ GoQuiet(w) \/ SpeakAgain(w)
    BY <2>10 DEF Crash, GoQuiet, SpeakAgain, Enter, row, run, sweeping
  <2> QED BY <1>4, <2>1, <2>2, <2>3, <2>4, <2>5, <2>6, <2>7, <2>8, <2>9, <2>10 DEF WorkerNext
<1>5. CASE Sweep
  <2>1. CASE Judge
    BY <2>1 DEF Judge, row, run
  <2>2. CASE SweepLeases
    BY <2>2 DEF SweepLeases, TakeBack, row, run
  <2>3. CASE SweepRuns
    BY <2>3 DEF SweepRuns, LeaseLive, row
  <2>4. CASE SweepTask
    BY <2>4 DEF SweepTask
  <2> QED BY <1>5, <2>1, <2>2, <2>3, <2>4 DEF Sweep
<1> QED BY <1>2, <1>3, <1>4, <1>5 DEF Next

LEMMA UpgradeStep == IInv /\ [Next]_vars => UpgradesAreNotLosses'
<1> SUFFICES ASSUME IInv, [Next]_vars PROVE UpgradesAreNotLosses'
  OBVIOUS
<1> USE DEF IInv, TypeOK, UpgradesAreNotLosses, NothingLostYet
<1>1. CASE UNCHANGED <<losses, lost>>
  BY <1>1
<1>2. ASSUME NEW w \in Workers, GiveBackIfHeld(w) PROVE UpgradesAreNotLosses'
  BY <1>2 DEF GiveBackIfHeld, TakeBack
<1>3. CASE SweepLeases
  BY <1>3 DEF SweepLeases, TakeBack
<1>4. CASE SweepTask
  BY <1>4 DEF SweepTask
<1> QED BY <1>1, <1>2, <1>3, <1>4 DEF Next, vars, row, run, sweeping, Tick, WorkerNext, Claim,
        Adopt, StartRun, CannotStart, Renew, FindLost, QuietRun, Answered, Complete, HandBack,
        Crash, GoQuiet, SpeakAgain, Sweep, Judge, SweepRuns

\* A task takes no more workers with it than MAX_RECLAIMS, and none that stopped
\* cleanly counts (haltIfCrashLooping, giveBack, handBack, both sweeps).
THEOREM CrashLoopsEnd == Spec => [](TypeOK /\ CrashLoopStops /\ UpgradesAreNotLosses)
<1>1. Init => IInv
  <2> SUFFICES ASSUME Init PROVE IInv
    OBVIOUS
  <2>1. TypeOK
    BY LeaseAssumption DEF Init, TypeOK, InHandPhases, OrphanAge
  <2>2. LimitEnds /\ NothingLostYet /\ UpgradesAreNotLosses
    BY LeaseAssumption DEF Init, LimitEnds, NothingLostYet, UpgradesAreNotLosses, Busy, InHandPhases
  <2> QED BY <2>1, <2>2 DEF IInv
<1>2. IInv /\ [Next]_vars => IInv'
  BY TypeStep, LimitStep, FirstLossStep, UpgradeStep DEF IInv
<1>3. IInv => TypeOK /\ CrashLoopStops /\ UpgradesAreNotLosses
  BY DEF IInv, LimitEnds, CrashLoopStops
<1> QED BY <1>1, <1>2, <1>3, PTL DEF Spec

\* Leases and beats stay within their lengths, whoever dies between two sweeps.
THEOREM LeasesAreTyped == Spec => []TypeOK
  BY CrashLoopsEnd, PTL

\* A halt for a crash loop follows a loss: handing back at an upgrade never
\* counts as one (handBack, giveBack).
THEOREM UpgradesLoseNothing == Spec => []UpgradesAreNotLosses
  BY CrashLoopsEnd, PTL

LEMMA Table ==
    /\ {"checked_out", "running", "halted"} \subseteq TS!Transitions["pending"]
    /\ {"running", "pending", "halted"} \subseteq TS!Transitions["checked_out"]
    /\ {"completed", "pending", "halted"} \subseteq TS!Transitions["running"]
  BY DEF TS!Transitions, TS!Status

\* Claims, adoptions, hands given back and the sweeps' own SQL keep to the table
\* of domain/task.ts, also by workers that lost the task since they read it.
THEOREM LossesKeepToTheTable == Spec => StatusMachine
<1>1. TypeOK /\ TypeOK' /\ [Next]_vars => [TS!Next]_status
  <2> SUFFICES ASSUME TypeOK, TypeOK', [Next]_vars PROVE [TS!Next]_status
    OBVIOUS
  <2>1. status \in {"pending", "checked_out", "running", "completed", "halted"}
        /\ status' \in TS!Status
    BY DEF TypeOK, TS!Status
  <2>2. TakeBack => status' \in {"pending", "halted"}
    BY DEF TakeBack, BackOrHalted
  <2>3. ASSUME NEW w \in Workers, WorkerNext(w)
        PROVE  status' # status => status' \in TS!Transitions[status]
    BY <2>1, <2>2, <2>3, Table DEF WorkerNext, Claim, Adopt, StartRun, CannotStart, Renew,
       FindLost, QuietRun, Answered, Complete, HandBack, Crash, GoQuiet, SpeakAgain,
       GiveBackIfHeld, Busy, row
  <2>4. ASSUME Sweep PROVE status' # status => status' \in TS!Transitions[status]
    BY <2>1, <2>2, <2>4, Table DEF Sweep, Judge, SweepLeases, SweepRuns, SweepTask, BackOrHalted,
       Busy, row
  <2>5. Tick \/ UNCHANGED vars => UNCHANGED status
    BY DEF Tick, vars, row
  <2> QED  BY <2>1, <2>3, <2>4, <2>5 DEF Next, TS!Next
<1> QED  BY <1>1, LeasesAreTyped, PTL DEF Spec, StatusMachine

-----------------------------------------------------------------------------
(* The keeper of a lease.                                                  *)

\* A request asked s ago that the database wrote: the lease it left is at most
\* the longest delay older, no sweep has found that lease run out, and one that
\* took the task all the same took it later.
Slack(s) ==
    /\ leaseAge <= s + DelayMax
    /\ taken = "lapsed" => s + DelayMax >= LeaseMs
    /\ awayFor <= s

\* While the run is on: so much slack for what the keeper counts from, and for
\* every answer that is still on its way and that it may count from.
AnswersAgree ==
    ~settled => /\ heldBy # "again" /\ (heldBy = "this" => taken = "no" /\ awayFor = 0)
                /\ Slack(age)
                /\ \A k \in Askers : renewal[k].at = "written" => Slack(renewal[k].since)

KeeperInv == KeeperTypeOK /\ AnswersAgree

LEMMA KeeperTypeStep == KeeperTypeOK /\ [KeeperNext]_keeperVars => KeeperTypeOK'
<1> SUFFICES ASSUME KeeperTypeOK, [KeeperNext]_keeperVars PROVE KeeperTypeOK'
  OBVIOUS
<1> USE KeeperAssumption DEF KeeperTypeOK, Askers, Idle, AtMost, Covered, Runs
<1>1. CASE UNCHANGED keeperVars
  BY <1>1 DEF keeperVars, leaseRow, keeper
<1>2. CASE Pass
  <2>1. renewal' \in [Askers -> [at : {"none", "asked", "written", "refused"}, since : 0 .. LeaseMs]]
    BY <1>2 DEF Pass
  <2>2. {leaseAge', awayFor', age'} \subseteq 0 .. LeaseMs /\ due' \in 0 .. Every
    BY <1>2 DEF Pass
  <2>3. cover' \in 0 .. Forever
    BY <1>2 DEF Pass
  <2>4. UNCHANGED <<heldBy, taken, handler>>
    BY <1>2 DEF Pass
  <2>5. leaseLost' \in BOOLEAN /\ silent' \in BOOLEAN /\ settled' \in BOOLEAN
    BY <1>2 DEF Pass
  <2> QED BY <2>1, <2>2, <2>3, <2>4, <2>5
<1>3. CASE KeeperTick
  <2>1. leaseLost' \in BOOLEAN /\ silent' \in BOOLEAN
    BY <1>3 DEF KeeperTick
  <2>2. renewal' \in [Askers -> [at : {"none", "asked", "written", "refused"}, since : 0 .. LeaseMs]]
    BY <1>3 DEF KeeperTick, Ask
  <2>3. due' \in 0 .. Every /\ UNCHANGED <<heldBy, leaseAge, taken, awayFor, age, cover, handler, settled>>
    BY <1>3 DEF KeeperTick, leaseRow
  <2> QED BY <2>1, <2>2, <2>3
<1>4. ASSUME NEW k \in Askers, Write(k) PROVE KeeperTypeOK'
  BY <1>4 DEF Write, keeper
<1>5. ASSUME NEW k \in Askers, Answer(k) PROVE KeeperTypeOK'
  BY <1>5 DEF Answer, StepGoesOn, leaseRow
<1>6. ASSUME NEW k \in Askers, Refused(k) PROVE KeeperTypeOK'
  BY <1>6 DEF Refused, StepFails, leaseRow
<1>7. ASSUME NEW k \in Askers, Drop(k) PROVE KeeperTypeOK'
  BY <1>7 DEF Drop, StepFails, leaseRow, keeper
<1>8. CASE Confirm
  <2>1. leaseLost' \in BOOLEAN
    BY <1>8 DEF Confirm, DeadlinePassed
  <2>2. handler' \in Runs /\ UNCHANGED <<leaseRow, age, cover, due, silent, settled>>
    BY <1>8 DEF Confirm, StepFails
  <2>3. renewal' \in [Askers -> [at : {"none", "asked", "written", "refused"}, since : 0 .. LeaseMs]]
    BY <1>8 DEF Confirm, Ask
  <2>4. UNCHANGED <<heldBy, leaseAge, taken, awayFor>>
        /\ age' \in 0 .. LeaseMs /\ cover' \in 0 .. Forever /\ due' \in 0 .. Every
    BY <2>2 DEF leaseRow
  <2>5. silent' \in BOOLEAN /\ settled' \in BOOLEAN
    BY <2>2
  <2> QED BY <2>1, <2>2, <2>3, <2>4, <2>5
<1>9. CASE ReportUsage \/ RunOver \/ Settle
  <2>1. CASE ReportUsage
    BY <2>1 DEF ReportUsage, leaseRow
  <2>2. CASE RunOver
    BY <2>2 DEF RunOver, leaseRow, keeper
  <2>3. CASE Settle
    BY <2>3 DEF Settle, keeper
  <2> QED BY <1>9, <2>1, <2>2, <2>3
<1>10. CASE ReclaimExpired \/ Reclaim \/ TaskGoes
  BY <1>10 DEF ReclaimExpired, Reclaim, TaskGoes, keeper
<1> QED BY <1>1, <1>2, <1>3, <1>4, <1>5, <1>6, <1>7, <1>8, <1>9, <1>10 DEF KeeperNext

LEMMA SlackStep == KeeperInv /\ [KeeperNext]_keeperVars => AnswersAgree'
<1> SUFFICES ASSUME KeeperInv, [KeeperNext]_keeperVars PROVE AnswersAgree'
  OBVIOUS
<1> USE KeeperAssumption DEF KeeperInv, KeeperTypeOK, AnswersAgree, Slack, Askers, Idle, AtMost
<1>1. CASE UNCHANGED keeperVars
  BY <1>1 DEF keeperVars, leaseRow, keeper
<1>2. CASE Pass
  BY <1>2 DEF Pass
<1>3. CASE KeeperTick
  BY <1>3 DEF KeeperTick, Ask, leaseRow
<1>4. ASSUME NEW k \in Askers, Write(k) PROVE AnswersAgree'
  BY <1>4 DEF Write, keeper
<1>5. ASSUME NEW k \in Askers, Answer(k) PROVE AnswersAgree'
  BY <1>5 DEF Answer, leaseRow
<1>6. ASSUME NEW k \in Askers, Refused(k) PROVE AnswersAgree'
  BY <1>6 DEF Refused, leaseRow
<1>7. ASSUME NEW k \in Askers, Drop(k) PROVE AnswersAgree'
  BY <1>7 DEF Drop, leaseRow, keeper
<1>8. CASE Confirm
  BY <1>8 DEF Confirm, Ask, leaseRow
<1>9. CASE ReportUsage \/ RunOver \/ Settle
  BY <1>9 DEF ReportUsage, RunOver, Settle, leaseRow, keeper
<1>10. CASE ReclaimExpired \/ Reclaim \/ TaskGoes
  BY <1>10 DEF ReclaimExpired, Reclaim, TaskGoes, keeper
<1> QED BY <1>1, <1>2, <1>3, <1>4, <1>5, <1>6, <1>7, <1>8, <1>9, <1>10 DEF KeeperNext

\* While a keeper counts more than the longest delay left of its lease, no sweep
\* has found that lease run out; and one that took the task for its worker's
\* silence did so less than a lease ago (#checkDeadline, #renewOnce).
THEOREM TrustIsBounded == KeeperSpec => [](KeeperTypeOK /\ LeaseOutlastsTrust)
<1>1. KeeperInit => KeeperInv
  <2> SUFFICES ASSUME KeeperInit PROVE KeeperInv
    OBVIOUS
  <2>1. KeeperTypeOK
    <3>1. cover \in 0 .. Forever /\ due \in 0 .. Every
      BY KeeperAssumption DEF KeeperInit
    <3>2. renewal \in [Askers -> [at : {"none", "asked", "written", "refused"}, since : 0 .. LeaseMs]]
      BY KeeperAssumption DEF KeeperInit, Askers, Idle
    <3>3. {leaseAge, awayFor, age} \subseteq 0 .. LeaseMs
      BY KeeperAssumption DEF KeeperInit
    <3> QED BY <3>1, <3>2, <3>3 DEF KeeperInit, KeeperTypeOK, Runs
  <2>2. AnswersAgree
    BY KeeperAssumption DEF KeeperInit, AnswersAgree, Slack, Askers, Idle
  <2> QED BY <2>1, <2>2 DEF KeeperInv
<1>2. KeeperInv /\ [KeeperNext]_keeperVars => KeeperInv'
  BY KeeperTypeStep, SlackStep DEF KeeperInv
<1>3. KeeperInv => KeeperTypeOK /\ LeaseOutlastsTrust
  BY KeeperAssumption DEF KeeperInv, KeeperTypeOK, AnswersAgree, Slack, LeaseOutlastsTrust, Trusts
<1> QED BY <1>1, <1>2, <1>3, PTL DEF KeeperSpec
=============================================================================
