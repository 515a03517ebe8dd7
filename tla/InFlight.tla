------------------------------ MODULE InFlight ------------------------------
(***************************************************************************)
(* The places of one capability in one division: how many calls to it may  *)
(* be under way at once (broker/in-flight.ts), counted over the runs of    *)
(* several workers, each of which may have lost the task it calls for.     *)
(*                                                                         *)
(* A place is held by the key of a call, which the task and the call's     *)
(* input make (callKey): the same call made again has the same key.  A     *)
(* lease here is free, held or run out; Leases has its course.             *)
(***************************************************************************)
EXTENDS Integers, FiniteSets

CONSTANTS
    Workers, NoWorker,
    Runs, WorkerOf,   \* the runs a worker can have under way, whose it is
    Tasks, NoTask,
    Keys, NoKey, TaskOf,
    Places,           \* the places a grant can ask for, from 1
    MaxFailures,      \* bound: how many give-backs fail or are never made
    MaxLost           \* bound: how many leases are lost, by death or otherwise

ASSUME InFlightAssumption ==
    /\ NoWorker \notin Workers /\ NoTask \notin Tasks /\ NoKey \notin Keys
    /\ WorkerOf \in [Runs -> Workers] /\ TaskOf \in [Keys -> Tasks]
    /\ IsFiniteSet(Places) /\ Places # {} /\ Places = 1 .. Cardinality(Places)
    /\ {MaxFailures, MaxLost} \subseteq Nat

VARIABLES
    holder,    \* tasks.lease_holder
    lapsed,    \* tasks whose lease_expires_at is past
    ended,     \* tasks with a terminal status
    grant,     \* capability_grants.max_in_flight
    places,    \* capability_places
    run,       \* where each run is
    twice,     \* keys two runs had calls under at once
    left,      \* keys whose last call ended without giving its place back
    failures,  \* give-backs that failed or were never made
    losses     \* leases that were lost

leases == <<holder, lapsed, ended>>
bounds == <<failures, losses>>
vars == <<leases, grant, places, run, twice, left, bounds>>

NoRun == [phase |-> "idle", task |-> NoTask, key |-> NoKey, limit |-> 0, kept |-> FALSE]
Free == [key |-> NoKey, lease |-> NoWorker, old |-> FALSE]

Phases == {"idle", "working", "waiting", "placed", "calling", "closing", "dead"}
UnderWay == {"placed", "calling"}

Init ==
    /\ holder = [t \in Tasks |-> NoWorker] /\ lapsed = {} /\ ended = {}
    /\ grant \in Places
    /\ places = [p \in Places |-> Free]
    /\ run = [r \in Runs |-> NoRun]
    /\ twice = {} /\ left = {} /\ failures = 0 /\ losses = 0

At(r, p) == run[r].phase = p
Enter(r, p) == run' = [run EXCEPT ![r].phase = p]
CallOver(r) == run' = [run EXCEPT ![r].phase = "working", ![r].key = NoKey, ![r].limit = 0]

-----------------------------------------------------------------------------
(* The places.                                                             *)

\* Held by a call still being made: its task has the lease it had, or had
\* none and the place was taken less than fifteen minutes ago.
Live(p) ==
    LET s == places[p] IN
    /\ s.key # NoKey
    /\ holder[TaskOf[s.key]] = s.lease
    /\ IF s.lease = NoWorker THEN ~s.old ELSE TaskOf[s.key] \notin lapsed

InTheWay(k) == {p \in Places : Live(p) /\ places[p].key # k}

\* The first free place, before it one this call has already.
FirstFree(k, limit) ==
    LET open == {p \in Places : p <= limit} \ InTheWay(k)
        mine == {p \in open : places[p].key = k}
        from == IF mine # {} THEN mine ELSE open
    IN  CHOOSE p \in from : \A q \in from : p <= q

\* Mutated: the places above the limit are not counted.
TakeBelowLimit(r) ==
    LET k == run[r].key IN
    /\ At(r, "waiting")
    /\ {p \in Places : p <= run[r].limit} \ InTheWay(k) # {}
    /\ places' = [places EXCEPT ![FirstFree(k, run[r].limit)] =
                    [key |-> k, lease |-> holder[TaskOf[k]], old |-> FALSE]]
    /\ run' = [run EXCEPT ![r].phase = "placed", ![r].limit = 0]
    /\ twice' = IF \E q \in Runs \ {r} : run[q].key = k /\ run[q].phase \in UnderWay \cup {"closing"}
                THEN twice \cup {k} ELSE twice
    /\ UNCHANGED <<leases, grant, left, bounds>>

\* takePlace: one taker at a time, behind the advisory lock; the lease it
\* writes down is whoever's the task is by now.
TakePlace(r) ==
    LET k == run[r].key IN
    /\ At(r, "waiting")
    /\ Cardinality(InTheWay(k)) < run[r].limit
    /\ places' = [places EXCEPT ![FirstFree(k, run[r].limit)] =
                    [key |-> k, lease |-> holder[TaskOf[k]], old |-> FALSE]]
    /\ run' = [run EXCEPT ![r].phase = "placed", ![r].limit = 0]
    /\ twice' = IF \E q \in Runs \ {r} : run[q].key = k /\ run[q].phase \in UnderWay \cup {"closing"}
                THEN twice \cup {k} ELSE twice
    /\ UNCHANGED <<leases, grant, left, bounds>>

\* givePlaceBack, by key alone.
GivePlaceBack(r) ==
    /\ At(r, "closing")
    /\ places' = [p \in Places |-> IF places[p].key = run[r].key THEN Free ELSE places[p]]
    /\ left' = left \ {run[r].key}
    /\ CallOver(r)
    /\ UNCHANGED <<leases, grant, twice, bounds>>

\* The call is over, and its place is still taken.
LeavesItsPlace(r) ==
    /\ failures < MaxFailures /\ failures' = failures + 1
    /\ left' = left \cup {run[r].key}
    /\ CallOver(r)
    /\ UNCHANGED <<leases, grant, places, twice, losses>>

\* The give-back fails, which the call does not hear of.
GiveBackFails(r) == At(r, "closing") /\ LeavesItsPlace(r)

\* The call fails where nothing gives the place back: its own check let it go and
\* the record of that is refused, the estimate cannot be made, or the answer to
\* the taking of the place is lost.
Slips(r) == At(r, "placed") /\ LeavesItsPlace(r)

\* Fifteen minutes of a place taken outside any lease.
GrowOld(p) ==
    /\ places[p].key # NoKey /\ places[p].lease = NoWorker
    /\ places' = [places EXCEPT ![p].old = TRUE]
    /\ UNCHANGED <<leases, grant, run, twice, left, bounds>>

-----------------------------------------------------------------------------
(* A run and its calls.                                                    *)

\* Runs of a task but this one have not kept its lease.
Lost(t, but) == [q \in Runs |-> IF run[q].task = t /\ q \notin but THEN [run[q] EXCEPT !.kept = FALSE] ELSE run[q]]

\* The task is claimed, or adopted from a holder whose lease ran out.
Begin(r, t) ==
    /\ At(r, "idle") /\ t \notin ended
    /\ holder[t] = NoWorker \/ t \in lapsed
    /\ holder' = [holder EXCEPT ![t] = WorkerOf[r]]
    /\ lapsed' = lapsed \ {t}
    /\ run' = [Lost(t, {r}) EXCEPT ![r] = [NoRun EXCEPT !.phase = "working", !.task = t, !.kept = TRUE]]
    /\ UNCHANGED <<ended, grant, places, twice, left, bounds>>

\* The policy gate reads the grant, and the call waits for a place.
Invoke(r, k) ==
    /\ At(r, "working") /\ TaskOf[k] = run[r].task
    /\ run' = [run EXCEPT ![r].phase = "waiting", ![r].key = k, ![r].limit = grant]
    /\ UNCHANGED <<leases, grant, places, twice, left, bounds>>

\* It waited long enough (capability.busy).
GiveUpWaiting(r) ==
    /\ At(r, "waiting")
    /\ CallOver(r)
    /\ UNCHANGED <<leases, grant, places, twice, left, bounds>>

Call(r) ==
    /\ At(r, "placed")
    /\ Enter(r, "calling")
    /\ UNCHANGED <<leases, grant, places, twice, left, bounds>>

\* Mutated: a call withdrawn before the vendor leaves its place taken.
WithdrawHolding(r) ==
    /\ At(r, "placed")
    /\ CallOver(r)
    /\ UNCHANGED <<leases, grant, places, twice, left, bounds>>

\* The owner is asked, the estimate is refused, the yes was used, or anything
\* else on the way to the vendor fails that is caught there.
Withdraw(r) ==
    /\ At(r, "placed")
    /\ Enter(r, "closing")
    /\ UNCHANGED <<leases, grant, places, twice, left, bounds>>

\* The vendor answers.
Return(r) ==
    /\ At(r, "calling")
    /\ Enter(r, "closing")
    /\ UNCHANGED <<leases, grant, places, twice, left, bounds>>

\* The run is parked, or finds its lease lost: only its own lease is cleared.
Park(r) ==
    LET t == run[r].task
        mine == holder[t] = WorkerOf[r] IN
    /\ At(r, "working")
    /\ holder' = IF mine THEN [holder EXCEPT ![t] = NoWorker] ELSE holder
    /\ lapsed' = IF mine THEN lapsed \ {t} ELSE lapsed
    /\ run' = [(IF mine THEN Lost(t, {r}) ELSE run) EXCEPT ![r] = NoRun]
    /\ UNCHANGED <<ended, grant, places, twice, left, bounds>>

End(t) ==
    /\ ended' = ended \cup {t}
    /\ holder' = [holder EXCEPT ![t] = NoWorker]
    /\ lapsed' = lapsed \ {t}

\* The run's answer: the task is completed, whoever holds it.
Complete(r) ==
    /\ At(r, "working") /\ run[r].task \notin ended
    /\ End(run[r].task)
    /\ run' = [Lost(run[r].task, {r}) EXCEPT ![r] = NoRun]
    /\ UNCHANGED <<grant, places, twice, left, bounds>>

-----------------------------------------------------------------------------
(* Leases, deaths and the owner.                                           *)

Loses == losses < MaxLost /\ losses' = losses + 1

\* Nobody is left who could renew it.
HeldByDead(t) == \A r \in Runs : WorkerOf[r] = holder[t] => At(r, "dead")

\* Of a worker that stands still and may yet renew it.
Lapse(t) ==
    /\ holder[t] # NoWorker /\ ~HeldByDead(t) /\ Loses
    /\ lapsed' = lapsed \cup {t}
    /\ run' = Lost(t, {})
    /\ UNCHANGED <<holder, ended, grant, places, twice, left, failures>>

\* renewLease, by the worker's name and however late.
Renew(r) ==
    /\ run[r].phase \notin {"idle", "dead"}
    /\ run[r].task \in lapsed /\ holder[run[r].task] = WorkerOf[r]
    /\ lapsed' = lapsed \ {run[r].task}
    /\ UNCHANGED <<holder, ended, grant, places, run, twice, left, bounds>>

\* The sweep, of a lease that ran out: of a worker that is dead or late.
Reclaim(t) ==
    /\ holder[t] # NoWorker
    /\ HeldByDead(t) \/ t \in lapsed
    /\ holder' = [holder EXCEPT ![t] = NoWorker] /\ lapsed' = lapsed \ {t}
    /\ run' = Lost(t, {})
    /\ UNCHANGED <<ended, grant, places, twice, left, bounds>>

\* Of a worker that does not report, though its lease still runs.
ReclaimSilent(t) ==
    /\ holder[t] # NoWorker /\ ~HeldByDead(t) /\ Loses
    /\ holder' = [holder EXCEPT ![t] = NoWorker] /\ lapsed' = lapsed \ {t}
    /\ run' = Lost(t, {})
    /\ UNCHANGED <<ended, grant, places, twice, left, failures>>

\* A process started again has another name, and so is another worker.
Crash(w) ==
    /\ Loses
    /\ run' = [r \in Runs |-> IF WorkerOf[r] = w
                              THEN [NoRun EXCEPT !.phase = "dead", !.key = run[r].key] ELSE run[r]]
    /\ UNCHANGED <<leases, grant, places, twice, left, failures>>

Cancel(t) ==
    /\ t \notin ended /\ Loses
    /\ End(t)
    /\ run' = Lost(t, {})
    /\ UNCHANGED <<grant, places, twice, left, failures>>

SetGrant(n) ==
    /\ grant' = n
    /\ UNCHANGED <<leases, places, run, twice, left, bounds>>

-----------------------------------------------------------------------------
RunNext(r) ==
    \/ TakePlace(r) \/ GiveUpWaiting(r) \/ Call(r) \/ Withdraw(r) \/ Return(r)
    \/ GivePlaceBack(r) \/ GiveBackFails(r) \/ Slips(r) \/ Park(r) \/ Complete(r) \/ Renew(r)
    \/ \E t \in Tasks : Begin(r, t)
    \/ \E k \in Keys : Invoke(r, k)

Outside ==
    \/ \E t \in Tasks : Lapse(t) \/ Reclaim(t) \/ ReclaimSilent(t) \/ Cancel(t)
    \/ \E w \in Workers : Crash(w)
    \/ \E n \in Places : SetGrant(n)
    \/ \E p \in Places : GrowOld(p)

Next == Outside \/ \E r \in Runs : RunNext(r)

Spec == Init /\ [][Next]_vars

-----------------------------------------------------------------------------
(* Properties.                                                             *)

PlaceType == [key: Keys \cup {NoKey}, lease: Workers \cup {NoWorker}, old: BOOLEAN]
RunType == [phase: Phases, task: Tasks \cup {NoTask}, key: Keys \cup {NoKey},
            limit: Places \cup {0}, kept: BOOLEAN]

TypeOK ==
    /\ holder \in [Tasks -> Workers \cup {NoWorker}]
    /\ lapsed \subseteq Tasks /\ ended \subseteq Tasks
    /\ grant \in Places
    /\ places \in [Places -> PlaceType]
    /\ \A p \in Places : places[p].key = NoKey => places[p] = Free
    /\ run \in [Runs -> RunType]
    /\ twice \subseteq Keys /\ left \subseteq Keys /\ failures \in 0 .. MaxFailures /\ losses \in 0 .. MaxLost

\* The calls under way of runs that have kept their lease, but those under a
\* key that a run which had lost it was calling with at the same time.
Counted == {r \in Runs : run[r].kept /\ run[r].phase \in UnderWay /\ run[r].key \notin twice}

\* A call gets a place only within the limit its grant had, however limits
\* are raised and lowered meanwhile and whatever other calls have left behind.
TakenWithinLimit ==
    [][\A r \in Runs : At(r, "waiting") /\ run'[r].phase = "placed"
          => Cardinality(Counted') <= run[r].limit \/ Counted' = {}]_vars

\* A place that is taken is of a call on its way, of one whose worker died, or of
\* one whose own give-back failed or was not made (Slips): nothing else that
\* fails on the way to the vendor leaves a place held, and the next call with
\* that key that gives it back ends what was left.
PlaceIsUsed ==
    \A p \in Places : places[p].key # NoKey =>
        \/ places[p].key \in left
        \/ \E r \in Runs : run[r].key = places[p].key /\ run[r].phase \in UnderWay \cup {"closing", "dead"}

\* What the places are for: a run that holds its task's lease takes no place
\* beside as many such calls as the limit.  It does not hold (README).
CallsWithinLimit ==
    [][\A r \in Runs : At(r, "waiting") /\ run'[r].phase = "placed" /\ run[r].kept
          => Cardinality({q \in Runs : run'[q].kept /\ run'[q].phase \in UnderWay}) <= run[r].limit]_vars
=============================================================================
