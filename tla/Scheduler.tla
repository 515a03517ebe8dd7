----------------------------- MODULE Scheduler ------------------------------
(***************************************************************************)
(* One schedule, the passes of several workers over it, the owner's own    *)
(* runs of it and edits to it (scheduler/scheduler.ts).                    *)
(*                                                                         *)
(* Time is a number; an occurrence is the time it falls due, a multiple of *)
(* Period.  A pass reads the row in one transaction and judges, creates    *)
(* and advances in others, by the row and the clock it read.               *)
(***************************************************************************)
EXTENDS Integers

CONSTANTS
    Workers,
    Period,       \* from one occurrence to the next
    CatchUp,      \* catch_up_minutes
    MaxTime,      \* bound of the clock
    MaxUpsets     \* bound: how often the owner comes between or a pass breaks off

ASSUME SchedulerAssumption ==
    /\ Period \in Nat \ {0} /\ {CatchUp, MaxTime, MaxUpsets} \subseteq Nat

VARIABLES
    now,
    nextRun, overlap, windowed,  \* next_run_at, overlap, catch_up_minutes IS NOT NULL
    enabled, frozen,             \* schedules.enabled, companies.frozen_at
    refused,                     \* no task is made now: no account can fund it, spending is
                                 \* paused, the role is frozen, the goal or project is closed
    task,                        \* of each occurrence: "none", "live" or "ended"
    ownerTask,                   \* the same of the run the owner asked for
    pass,                        \* how far each worker's pass has come
    press,                       \* how far the owner's "Run now" has come
    said,                        \* the schedule.* events of each occurrence
    edits, upsets                \* what came between: of the row, and else

row == <<nextRun, overlap, windowed, enabled>>
company == <<frozen, refused>>
tasks == <<task, ownerTask>>
bounds == <<edits, upsets>>
vars == <<now, row, company, tasks, pass, press, said, bounds>>

Occurrences == {t \in 0 .. MaxTime + Period : t % Period = 0}
Owner == MaxTime + Period + 1    \* the owner's own run, beside those
Policies == {"skip", "queue", "allow"}
Verdicts == {"fired", "skipped", "missed", "nothing"}

NoPass == [at |-> "none", occ |-> 0, policy |-> "skip", windowed |-> FALSE, when |-> 0, why |-> "none"]

Init ==
    /\ now = 0
    /\ nextRun = 0 /\ overlap \in Policies /\ windowed \in BOOLEAN
    /\ enabled = TRUE /\ frozen = FALSE /\ refused \in BOOLEAN
    /\ task = [o \in Occurrences |-> "none"] /\ ownerTask = "none"
    /\ pass = [w \in Workers |-> NoPass] /\ press = "none"
    /\ said = [o \in Occurrences |-> [v \in Verdicts |-> 0]]
    /\ edits = 0 /\ upsets = 0

Room == edits + upsets < MaxUpsets

\* Strictly after t.
NextOccurrence(t) == (t \div Period + 1) * Period

At(w, p) == pass[w].at = p
Enter(w, p) == pass' = [pass EXCEPT ![w].at = p]
Stop(w) == pass' = [pass EXCEPT ![w] = NoPass]

Tell(o, v) == said' = [said EXCEPT ![o][v] = @ + 1]

-----------------------------------------------------------------------------
(* A worker's pass.                                                        *)

\* The scan, on the control plane.
Scan(w) ==
    /\ At(w, "none")
    /\ enabled /\ ~frozen /\ nextRun <= now
    /\ pass' = [pass EXCEPT ![w] = [at |-> "scanned", occ |-> nextRun, policy |-> overlap,
                                    windowed |-> windowed, when |-> now, why |-> "none"]]
    /\ UNCHANGED <<now, row, company, tasks, press, said, bounds>>

\* pastCatchUp: neither the occurrence nor a later one is inside the window.
PastCatchUp(p) ==
    LET edge == p.when - CatchUp IN
    p.windowed /\ p.occ < edge /\ NextOccurrence(edge) > p.when

\* Mutated: a task that is over still counts as one under way.
LiveOrOver(o) ==
    {k \in Occurrences : k # o /\ task[k] # "none"} \cup (IF ownerTask = "live" THEN {Owner} ELSE {})

\* liveTaskOf, but for the task the occurrence's own key names.
LiveBeside(o) ==
    {k \in Occurrences : k # o /\ task[k] = "live"} \cup (IF ownerTask = "live" THEN {Owner} ELSE {})

\* Mutated: no task is looked for.
JudgeByWindow(w) ==
    LET p == pass[w] IN
    /\ At(w, "scanned")
    /\ IF PastCatchUp(p)
       THEN pass' = [pass EXCEPT ![w].at = "dropping", ![w].why = "missed"]
       ELSE Enter(w, "creating")
    /\ UNCHANGED <<now, row, company, tasks, press, said, bounds>>

\* giveWay decides: too late, beside a live task, or not at all.  A queued
\* occurrence stays due (which task it waits for is left out).
Judge(w) ==
    LET p == pass[w] IN
    /\ At(w, "scanned")
    /\ IF PastCatchUp(p)
       THEN pass' = [pass EXCEPT ![w].at = "dropping", ![w].why = "missed"]
       ELSE IF p.policy = "allow" \/ LiveBeside(p.occ) = {}
       THEN Enter(w, "creating")
       ELSE IF p.policy = "queue" THEN Stop(w)
       ELSE pass' = [pass EXCEPT ![w].at = "dropping", ![w].why = "skipped"]
    /\ UNCHANGED <<now, row, company, tasks, press, said, bounds>>

\* Mutated: the schedule moves on whatever it has moved to meanwhile.
MoveOnUnguarded(w, v) ==
    LET p == pass[w] IN
    /\ nextRun' = NextOccurrence(p.when) /\ Tell(p.occ, v)
    /\ UNCHANGED <<overlap, windowed, enabled>>

\* To the next occurrence after the pass's clock, if it is still this one's
\* turn; the event is written with it.
MoveOn(w, v) ==
    LET p == pass[w] IN
    /\ IF nextRun = p.occ
       THEN nextRun' = NextOccurrence(p.when) /\ Tell(p.occ, v)
       ELSE UNCHANGED <<nextRun, said>>
    /\ UNCHANGED <<overlap, windowed, enabled>>

Drop(w) ==
    /\ At(w, "dropping")
    /\ MoveOn(w, pass[w].why)
    /\ Stop(w)
    /\ UNCHANGED <<now, company, tasks, press, bounds>>

\* passOver: a review of a week with nothing in it.
PassOver(w) ==
    /\ At(w, "creating")
    /\ MoveOn(w, "nothing")
    /\ Stop(w)
    /\ UNCHANGED <<now, company, tasks, press, bounds>>

\* createRootTask under the occurrence's key: the task it has, or a new one.
Create(w) ==
    /\ At(w, "creating")
    /\ refused => task[pass[w].occ] # "none"
    /\ task' = [task EXCEPT ![pass[w].occ] = IF @ = "none" THEN "live" ELSE @]
    /\ Enter(w, "created")
    /\ UNCHANGED <<now, row, company, ownerTask, press, said, bounds>>

\* Mutated: an occurrence that could not be made is advanced past.
CannotCreateAndMoveOn(w) ==
    /\ At(w, "creating") /\ refused
    /\ nextRun' = (IF nextRun = pass[w].occ THEN NextOccurrence(pass[w].when) ELSE nextRun)
    /\ Stop(w)
    /\ UNCHANGED <<now, overlap, windowed, enabled, company, tasks, press, said, bounds>>

\* The refusal is recorded, and the occurrence is still due: every pass may be
\* refused.  Of a goal that is closed the schedule is turned off.  (A paused
\* company is refused before the key is looked up.)
CannotCreate(w) ==
    /\ At(w, "creating") /\ refused
    /\ enabled' \in {enabled, FALSE}
    /\ Stop(w)
    /\ UNCHANGED <<now, nextRun, overlap, windowed, company, tasks, press, said, bounds>>

Advance(w) ==
    /\ At(w, "created")
    /\ MoveOn(w, "fired")
    /\ Stop(w)
    /\ UNCHANGED <<now, company, tasks, press, bounds>>

\* The worker dies between two of its transactions, or one of them fails.
Crash(w) ==
    /\ ~At(w, "none")
    /\ Room /\ upsets' = upsets + 1
    /\ Stop(w)
    /\ UNCHANGED <<now, row, company, tasks, press, said, edits>>

-----------------------------------------------------------------------------
(* The owner, and time.                                                    *)

\* runScheduleNow holds its lock from the look for a live task until its own
\* is made: one press at a time, but no pass waits for it.
RunNow ==
    /\ press = "none" /\ ~frozen
    /\ Room /\ upsets' = upsets + 1
    /\ ownerTask = "none" /\ LiveBeside(Owner) = {}
    /\ press' = "checked"
    /\ UNCHANGED <<now, row, company, tasks, pass, said, edits>>

RunNowCreates ==
    /\ press = "checked"
    /\ press' = "none" /\ ownerTask' = (IF refused THEN "none" ELSE "live")
    /\ UNCHANGED <<now, row, company, task, pass, said, bounds>>

\* upsertSchedule: its next run is its next time from now.
Save ==
    /\ Room /\ edits' = edits + 1
    /\ overlap' \in Policies /\ windowed' \in BOOLEAN /\ enabled' \in BOOLEAN
    /\ nextRun' = NextOccurrence(now)
    /\ UNCHANGED <<now, company, tasks, pass, press, said, upsets>>

\* setScheduleEnabled.
Turn(on) ==
    /\ Room /\ edits' = edits + 1
    /\ enabled' = on
    /\ nextRun' = (IF on THEN NextOccurrence(now) ELSE nextRun)
    /\ UNCHANGED <<now, overlap, windowed, company, tasks, pass, press, said, upsets>>

\* A company is frozen, and nothing of its is scanned until it is not.
Freeze(on) ==
    /\ frozen # on
    /\ Room /\ upsets' = upsets + 1
    /\ frozen' = on
    /\ UNCHANGED <<now, row, refused, tasks, pass, press, said, edits>>

\* Ceilings, pauses and freezes come and go.
RefusalChanges ==
    /\ refused' = ~refused
    /\ UNCHANGED <<now, row, frozen, tasks, pass, press, said, bounds>>

EndTask ==
    /\ \/ \E o \in Occurrences : task[o] = "live" /\ task' = [task EXCEPT ![o] = "ended"] /\ UNCHANGED ownerTask
       \/ ownerTask = "live" /\ ownerTask' = "ended" /\ UNCHANGED task
    /\ UNCHANGED <<now, row, company, pass, press, said, bounds>>

Tick ==
    /\ now < MaxTime
    /\ now' = now + 1
    /\ UNCHANGED <<row, company, tasks, pass, press, said, bounds>>

-----------------------------------------------------------------------------
PassNext(w) ==
    \/ Scan(w) \/ Judge(w) \/ Drop(w) \/ PassOver(w)
    \/ Create(w) \/ CannotCreate(w) \/ Advance(w)

OwnerNext == RunNow \/ RunNowCreates \/ Save \/ \E on \in BOOLEAN : Turn(on) \/ Freeze(on)

Next ==
    \/ \E w \in Workers : PassNext(w) \/ Crash(w)
    \/ OwnerNext \/ RefusalChanges \/ EndTask \/ Tick

Spec == Init /\ [][Next]_vars

\* Every worker ticks and finishes its pass, and tasks end.  Nothing is assumed
\* of a task being made.
FairSpec == Spec /\ WF_vars(EndTask) /\ \A w \in Workers : WF_vars(PassNext(w))

-----------------------------------------------------------------------------
(* Properties.                                                             *)

PassType == [at: {"none", "scanned", "dropping", "creating", "created"}, occ: Occurrences,
             policy: Policies, windowed: BOOLEAN, when: 0 .. MaxTime, why: {"none", "missed", "skipped"}]

TypeOK ==
    /\ now \in 0 .. MaxTime
    /\ nextRun \in Occurrences /\ overlap \in Policies
    /\ {windowed, enabled, frozen, refused} \subseteq BOOLEAN
    /\ task \in [Occurrences -> {"none", "live", "ended"}] /\ ownerTask \in {"none", "live", "ended"}
    /\ pass \in [Workers -> PassType] /\ press \in {"none", "checked"}
    /\ said \in [Occurrences -> [Verdicts -> Nat]]
    /\ {edits, upsets} \subseteq 0 .. MaxUpsets

\* An occurrence is told of once, as fired, skipped, missed or nothing to do,
\* by however many workers' passes met it.
SaidOnce ==
    \A o \in Occurrences : \A v, u \in Verdicts :
        said[o][v] > 0 => said[o][v] = 1 /\ (u # v => said[o][u] = 0)

Dropped(o) == \E v \in Verdicts \ {"fired"} : said[o][v] > 0

\* The clock moves the schedule past an occurrence only when the occurrence
\* has its task or the owner is told why it has none: a pass that breaks off
\* anywhere, or cannot make the task, loses nothing.
NothingLost ==
    [][nextRun' # nextRun /\ edits' = edits
          => \/ task'[nextRun] # "none" /\ said'[nextRun]["fired"] = 1
             \/ \E v \in Verdicts \ {"fired"} : said'[nextRun][v] = 1]_vars

\* Unless it may, and as long as the row is not edited, an occurrence does not
\* run beside an earlier one, but for one a slower pass makes after a faster
\* one dropped it.
RunsAlone ==
    overlap # "allow" /\ edits = 0 =>
        \A o, k \in Occurrences :
            o # k /\ task[o] = "live" /\ task[k] = "live" => Dropped(o) \/ Dropped(k)

Due(o) == nextRun = o /\ o <= now /\ enabled /\ ~frozen

\* An occurrence that is due is settled, as long as the schedule may run: if
\* not, then because its task goes on being refused, or is again and again.
DueIsSettled ==
    \A o \in Occurrences : Due(o) ~> ~Due(o) \/ <>[](Due(o) /\ <>refused)

\* An occurrence that was dropped is not run all the same.
DroppedDidNotRun == \A o \in Occurrences : Dropped(o) => task[o] = "none"
=============================================================================
