--------------------------- MODULE InFlightProofs ---------------------------
(* What holds of the places for every number of workers, runs, tasks, keys *)
(* and places.                                                             *)
EXTENDS InFlight, FiniteSetTheorems, TLAPS

\* A place that names a call names one a run is making or died with.
UsedBy(p) == \E r \in Runs : run[r].key = places[p].key /\ run[r].phase \in UnderWay \cup {"closing", "dead"}

\* A run at a call, from the wait for a place to giving it back, has its key,
\* and one that began has its task.
CallHasKey ==
    \A r \in Runs : /\ run[r].phase \in UnderWay \cup {"waiting", "closing"} => run[r].key \in Keys
                    /\ run[r].phase \notin {"idle", "dead"} => run[r].task \in Tasks

IInv == TypeOK /\ CallHasKey /\ PlaceIsUsed

-----------------------------------------------------------------------------
(* The steps of a run.                                                     *)

\* What a change of phase leaves of a run's record.
LEMMA Records ==
    ASSUME TypeOK, NEW r \in Runs
    PROVE  /\ NoRun \in RunType /\ Free \in PlaceType
           /\ \A p \in Phases : Enter(r, p) => run' \in [Runs -> RunType]
           /\ CallOver(r) => run' \in [Runs -> RunType]
<1>1. NoRun \in RunType /\ Free \in PlaceType
  BY DEF RunType, PlaceType, NoRun, Free, Phases
<1>2. \A p \in Phases : Enter(r, p) => run' \in [Runs -> RunType]
  BY DEF TypeOK, RunType, Enter
<1>3. CallOver(r) => run' \in [Runs -> RunType]
  <2>1. run[r] \in RunType
    BY DEF TypeOK
  <2>2. [run[r] EXCEPT !.phase = "working", !.key = NoKey, !.limit = 0] \in RunType
    BY <2>1 DEF RunType, Phases
  <2> QED BY <2>2 DEF CallOver, TypeOK
<1> QED BY <1>1, <1>2, <1>3

\* A run that lost its lease is still a run.
LEMMA LostType ==
    ASSUME TypeOK, NEW t, NEW but
    PROVE  Lost(t, but) \in [Runs -> RunType]
<1>1. ASSUME NEW q \in Runs
      PROVE  run[q] \in RunType /\ [run[q] EXCEPT !.kept = FALSE] \in RunType
  BY DEF TypeOK, RunType
<1> QED BY <1>1 DEF Lost

\* Losing the lease is all that happens to the runs of a task that is lost.
LEMMA LostKeepsCalls ==
    ASSUME TypeOK, NEW t, NEW but, NEW q \in Runs
    PROVE  /\ Lost(t, but)[q].key = run[q].key /\ Lost(t, but)[q].phase = run[q].phase
           /\ Lost(t, but)[q].task = run[q].task
  BY DEF TypeOK, RunType, Lost

\* A step in which every place keeps its call, and every call under way, or
\* that died, stays so, loses no place's call.
LEMMA UseStays ==
    ASSUME IInv, left \subseteq left',
           \A p \in Places : places'[p].key \in {places[p].key, NoKey},
           \A r \in Runs : run[r].phase \in UnderWay \cup {"closing", "dead"} =>
               \/ run'[r].key = run[r].key /\ run'[r].phase \in UnderWay \cup {"closing", "dead"}
               \/ \A p \in Places : places'[p].key # run[r].key \/ places'[p].key = NoKey
    PROVE  PlaceIsUsed'
<1> SUFFICES ASSUME NEW p \in Places, places'[p].key # NoKey, places'[p].key \notin left'
             PROVE  \E r \in Runs : /\ run'[r].key = places'[p].key
                                    /\ run'[r].phase \in UnderWay \cup {"closing", "dead"}
  BY DEF PlaceIsUsed
<1>1. places'[p].key = places[p].key
  OBVIOUS
<1>2. PICK r \in Runs : run[r].key = places[p].key /\ run[r].phase \in UnderWay \cup {"closing", "dead"}
  BY <1>1 DEF IInv, PlaceIsUsed
<1> QED BY <1>1, <1>2

LEMMA InitIInv == Init => IInv
<1> SUFFICES ASSUME Init PROVE IInv
  OBVIOUS
<1>1. NoRun \in RunType /\ Free \in PlaceType
  BY DEF RunType, PlaceType, NoRun, Free, Phases
<1>2. TypeOK
  BY <1>1, InFlightAssumption DEF Init, TypeOK, Free
<1>3. PlaceIsUsed /\ CallHasKey
  BY DEF Init, PlaceIsUsed, Free, CallHasKey, NoRun, UnderWay
<1> QED BY <1>2, <1>3 DEF IInv

\* The call that takes a place is the one it names.
LEMMA TakeKeeps ==
    ASSUME IInv, NEW r \in Runs, TakePlace(r)
    PROVE  IInv'
<1> DEFINE k == run[r].key
           taken == [key |-> k, lease |-> holder[TaskOf[k]], old |-> FALSE]
           at == FirstFree(k, run[r].limit)
<1>1. /\ places' = [places EXCEPT ![at] = taken]
      /\ run' = [run EXCEPT ![r].phase = "placed", ![r].limit = 0]
      /\ UNCHANGED <<leases, grant, left, bounds>>
  BY DEF TakePlace
<1>2. run[r] \in RunType /\ places \in [Places -> PlaceType]
  BY DEF IInv, TypeOK
<1>3. k \in Keys /\ k # NoKey /\ taken \in PlaceType
  BY InFlightAssumption DEF TakePlace, At, IInv, CallHasKey, TypeOK, PlaceType
<1>4. /\ run' \in [Runs -> RunType] /\ run'[r].key = k /\ run'[r].phase = "placed"
      /\ run'[r].task = run[r].task /\ run[r].task \in Tasks
  <2>1. run[r].task \in Tasks
    BY DEF TakePlace, At, IInv, CallHasKey
  <2>2. [run[r] EXCEPT !.phase = "placed", !.limit = 0] \in RunType
    BY <1>2 DEF RunType, Phases
  <2> QED BY <1>1, <1>2, <2>1, <2>2 DEF IInv, TypeOK, RunType
<1>5. \A q \in Runs \ {r} : run'[q] = run[q]
  BY <1>1 DEF IInv, TypeOK
<1>6. \A p \in Places : places'[p] = places[p] \/ places'[p] = taken
  BY <1>1, <1>2
<1>7. places' \in [Places -> PlaceType]
  BY <1>1, <1>2, <1>3
<1>8. twice' \subseteq Keys
  BY <1>3 DEF TakePlace, IInv, TypeOK
<1>9. TypeOK'
  BY <1>1, <1>3, <1>4, <1>6, <1>7, <1>8 DEF IInv, TypeOK, leases, bounds
<1>10. CallHasKey'
  BY <1>3, <1>4, <1>5 DEF IInv, CallHasKey
<1>11. PlaceIsUsed'
  <2> SUFFICES ASSUME NEW p \in Places, places'[p].key # NoKey, places'[p].key \notin left
               PROVE  \E q \in Runs : /\ run'[q].key = places'[p].key
                                      /\ run'[q].phase \in UnderWay \cup {"closing", "dead"}
    BY <1>1 DEF PlaceIsUsed, bounds
  <2>1. CASE places'[p] = taken
    BY <1>4, <2>1 DEF UnderWay
  <2>2. CASE places'[p] = places[p]
    <3>1. PICK q \in Runs : run[q].key = places[p].key /\ run[q].phase \in UnderWay \cup {"closing", "dead"}
      BY <2>2 DEF IInv, PlaceIsUsed
    <3>2. q # r
      BY <3>1 DEF TakePlace, At, UnderWay
    <3> QED BY <1>5, <2>2, <3>1, <3>2
  <2> QED BY <1>6, <2>1, <2>2
<1> QED BY <1>9, <1>10, <1>11 DEF IInv

\* Giving a place back frees every place of the key.
LEMMA GiveBackKeeps ==
    ASSUME IInv, NEW r \in Runs, GivePlaceBack(r) \/ GiveBackFails(r) \/ Slips(r)
    PROVE  IInv'
<1>1. /\ CallOver(r) /\ run[r].phase \in {"placed", "closing"} /\ UNCHANGED <<leases, grant, twice>>
      /\ run' \in [Runs -> RunType] /\ run[r].key \in Keys
  BY Records DEF GivePlaceBack, GiveBackFails, Slips, LeavesItsPlace, At, bounds, IInv, CallHasKey, UnderWay
<1>2. \A q \in Runs \ {r} : run'[q] = run[q]
  BY <1>1 DEF CallOver, IInv, TypeOK
<1>3. run'[r].phase = "working" /\ run'[r].task \in Tasks
  BY <1>1 DEF CallOver, IInv, TypeOK, RunType, CallHasKey
<1>4. CallHasKey'
  BY <1>2, <1>3 DEF IInv, CallHasKey, UnderWay
<1>5. CASE GivePlaceBack(r)
  <2>1. /\ \A p \in Places : places'[p] = IF places[p].key = run[r].key THEN Free ELSE places[p]
        /\ UNCHANGED bounds /\ left' = left \ {run[r].key}
    BY <1>5 DEF GivePlaceBack
  <2>2. places' \in [Places -> PlaceType]
    BY <1>5, Records DEF GivePlaceBack, IInv, TypeOK
  <2>3. TypeOK'
    BY <1>1, <2>1, <2>2 DEF IInv, TypeOK, leases, bounds
  <2>4. PlaceIsUsed'
    <3> SUFFICES ASSUME NEW p \in Places, places'[p].key # NoKey, places'[p].key \notin left'
                 PROVE  \E q \in Runs : /\ run'[q].key = places'[p].key
                                        /\ run'[q].phase \in UnderWay \cup {"closing", "dead"}
      BY DEF PlaceIsUsed
    <3>1. places[p].key # run[r].key /\ places'[p] = places[p]
      BY <2>1 DEF Free
    <3>2. places[p].key \notin left
      BY <2>1, <3>1
    <3>3. PICK q \in Runs : run[q].key = places[p].key /\ run[q].phase \in UnderWay \cup {"closing", "dead"}
      BY <3>1, <3>2 DEF IInv, PlaceIsUsed
    <3> QED BY <1>2, <3>1, <3>3
  <2> QED BY <1>4, <2>3, <2>4 DEF IInv
<1>6. CASE LeavesItsPlace(r)
  <2>1. failures' \in 0 .. MaxFailures /\ left' = left \cup {run[r].key} /\ UNCHANGED <<places, losses>>
    BY <1>6, InFlightAssumption DEF LeavesItsPlace, IInv, TypeOK
  <2>2. TypeOK'
    BY <1>1, <2>1 DEF IInv, TypeOK, leases
  <2>3. PlaceIsUsed'
    <3> SUFFICES ASSUME NEW p \in Places, places[p].key # NoKey, places[p].key \notin left'
                 PROVE  \E q \in Runs : /\ run'[q].key = places[p].key
                                        /\ run'[q].phase \in UnderWay \cup {"closing", "dead"}
      BY <2>1 DEF PlaceIsUsed
    <3>1. PICK q \in Runs : run[q].key = places[p].key /\ run[q].phase \in UnderWay \cup {"closing", "dead"}
      BY <2>1 DEF IInv, PlaceIsUsed
    <3>2. q # r
      BY <2>1, <3>1
    <3> QED BY <1>2, <3>1, <3>2
  <2> QED BY <1>4, <2>2, <2>3 DEF IInv
<1> QED BY <1>5, <1>6 DEF GiveBackFails, Slips

\* The steps of a call, and the end of one that has no place.
LEMMA CallKeeps ==
    ASSUME IInv, NEW r \in Runs,
           \/ Call(r) \/ Withdraw(r) \/ Return(r) \/ GiveUpWaiting(r)
           \/ \E k \in Keys : Invoke(r, k)
    PROVE  IInv'
<1>1. /\ UNCHANGED <<leases, grant, places, twice, left, bounds>>
      /\ \A q \in Runs \ {r} : run'[q] = run[q]
  BY DEF Call, Withdraw, Return, GiveUpWaiting, Invoke, Enter, CallOver, IInv, TypeOK
<1>2. run[r] \in RunType /\ grant \in Places
  BY DEF IInv, TypeOK
<1>3. CASE Call(r) \/ Withdraw(r) \/ Return(r)
  <2>1. PICK p \in {"calling", "closing"} : Enter(r, p)
    BY <1>3 DEF Call, Withdraw, Return
  <2>2. run[r].phase \in UnderWay
    BY <1>3 DEF Call, Withdraw, Return, At, UnderWay
  <2>3. /\ run' \in [Runs -> RunType] /\ run'[r].key = run[r].key /\ run'[r].phase = p
        /\ run'[r].task = run[r].task
    BY <1>2, <2>1, Records DEF Enter, Phases, IInv, TypeOK, RunType
  <2>4. TypeOK' /\ CallHasKey'
    BY <1>1, <2>2, <2>3 DEF IInv, TypeOK, CallHasKey, leases, bounds, UnderWay
  <2>5. PlaceIsUsed'
    BY <1>1, <2>3, UseStays DEF UnderWay, bounds
  <2> QED BY <2>4, <2>5 DEF IInv
<1>4. CASE GiveUpWaiting(r) \/ \E k \in Keys : Invoke(r, k)
  <2>1. run[r].phase \in {"waiting", "working"}
    BY <1>4 DEF GiveUpWaiting, Invoke, At
  <2>2. /\ run' \in [Runs -> RunType]
        /\ run'[r].phase \in {"waiting", "working"}
        /\ run'[r].phase = "waiting" => run'[r].key \in Keys
        /\ run'[r].task = run[r].task
    <3>1. CASE GiveUpWaiting(r)
      BY <1>2, <3>1, Records DEF GiveUpWaiting, CallOver, IInv, TypeOK, RunType
    <3>2. ASSUME NEW k \in Keys, Invoke(r, k)
          PROVE  /\ run' \in [Runs -> RunType]
                 /\ run'[r].phase = "waiting" /\ run'[r].key \in Keys
                 /\ run'[r].task = run[r].task
      <4>1. [run[r] EXCEPT !.phase = "waiting", !.key = k, !.limit = grant] \in RunType
        BY <1>2 DEF RunType, Phases
      <4> QED BY <1>2, <3>2, <4>1 DEF Invoke, IInv, TypeOK, RunType
    <3> QED BY <1>4, <3>1, <3>2
  <2>3. TypeOK' /\ CallHasKey'
    BY <1>1, <2>1, <2>2 DEF IInv, TypeOK, CallHasKey, leases, bounds, UnderWay
  <2>4. PlaceIsUsed'
    BY <1>1, <2>1, UseStays DEF UnderWay, bounds
  <2> QED BY <2>3, <2>4 DEF IInv
<1> QED BY <1>3, <1>4

\* A run begins or ends between calls.
LEMMA RunKeeps ==
    ASSUME IInv, NEW r \in Runs, Park(r) \/ Complete(r) \/ \E t \in Tasks : Begin(r, t)
    PROVE  IInv'
<1>1. /\ UNCHANGED <<grant, places, twice, left, bounds>>
      /\ run[r].phase \in {"idle", "working"} /\ run \in [Runs -> RunType]
  BY DEF Park, Complete, Begin, At, IInv, TypeOK
<1>2. /\ holder' \in [Tasks -> Workers \cup {NoWorker}]
      /\ lapsed' \subseteq Tasks /\ ended' \subseteq Tasks
  <2>1. Complete(r) => run[r].task \in Tasks
    BY DEF Complete, At, IInv, CallHasKey
  <2> QED BY <2>1, InFlightAssumption DEF Park, Complete, Begin, End, IInv, TypeOK
<1>3. PICK f \in [Runs -> RunType], new \in RunType :
          /\ run' = [f EXCEPT ![r] = new]
          /\ new.phase = "idle" \/ (new.phase = "working" /\ new.task \in Tasks)
          /\ \A q \in Runs : /\ f[q].key = run[q].key /\ f[q].phase = run[q].phase
                             /\ f[q].task = run[q].task
  <2>1. NoRun \in RunType /\ NoRun.phase = "idle"
    BY Records DEF IInv, NoRun
  <2>2. CASE Park(r)
    <3>1. CASE run' = [run EXCEPT ![r] = NoRun]
      BY <1>1, <2>1, <3>1
    <3>2. CASE run' = [Lost(run[r].task, {r}) EXCEPT ![r] = NoRun]
      <4>1. Lost(run[r].task, {r}) \in [Runs -> RunType]
        BY LostType DEF IInv
      <4>2. \A q \in Runs : /\ Lost(run[r].task, {r})[q].key = run[q].key
                            /\ Lost(run[r].task, {r})[q].phase = run[q].phase
                            /\ Lost(run[r].task, {r})[q].task = run[q].task
        BY LostKeepsCalls DEF IInv
      <4> QED BY <2>1, <3>2, <4>1, <4>2
    <3> QED BY <2>2, <3>1, <3>2 DEF Park
  <2>3. CASE Complete(r)
    <3>1. Lost(run[r].task, {r}) \in [Runs -> RunType]
      BY LostType DEF IInv
    <3>2. run' = [Lost(run[r].task, {r}) EXCEPT ![r] = NoRun]
      BY <2>3 DEF Complete
    <3>3. \A q \in Runs : /\ Lost(run[r].task, {r})[q].key = run[q].key
                          /\ Lost(run[r].task, {r})[q].phase = run[q].phase
                          /\ Lost(run[r].task, {r})[q].task = run[q].task
      BY LostKeepsCalls DEF IInv
    <3> QED BY <2>1, <3>1, <3>2, <3>3
  <2>4. ASSUME NEW t \in Tasks, Begin(r, t)
        PROVE  \E new \in RunType :
                  /\ run' = [Lost(t, {r}) EXCEPT ![r] = new]
                  /\ new.phase = "working" /\ new.task \in Tasks
    <3>1. [NoRun EXCEPT !.phase = "working", !.task = t, !.kept = TRUE] \in RunType
      BY DEF NoRun, RunType, Phases
    <3> QED BY <2>4, <3>1 DEF Begin, NoRun
  <2>5. ASSUME NEW t \in Tasks
        PROVE  /\ Lost(t, {r}) \in [Runs -> RunType]
               /\ \A q \in Runs : /\ Lost(t, {r})[q].key = run[q].key
                                  /\ Lost(t, {r})[q].phase = run[q].phase
                                  /\ Lost(t, {r})[q].task = run[q].task
    BY LostType, LostKeepsCalls DEF IInv
  <2>6. CASE \E t \in Tasks : Begin(r, t)
    <3>1. PICK t \in Tasks : Begin(r, t)
      BY <2>6
    <3>2. PICK new \in RunType : /\ run' = [Lost(t, {r}) EXCEPT ![r] = new]
                                 /\ new.phase = "working" /\ new.task \in Tasks
      BY <2>4, <3>1
    <3>3. PICK f : f = Lost(t, {r})
      OBVIOUS
    <3>4. /\ f \in [Runs -> RunType] /\ run' = [f EXCEPT ![r] = new]
          /\ \A q \in Runs : /\ f[q].key = run[q].key /\ f[q].phase = run[q].phase
                             /\ f[q].task = run[q].task
      BY <2>5, <3>2, <3>3
    <3> QED BY <3>2, <3>4
  <2> QED BY <2>2, <2>3, <2>6
<1>4. /\ run' \in [Runs -> RunType] /\ run'[r] = new
      /\ \A q \in Runs \ {r} : run'[q] = f[q]
  BY <1>3
<1>5. TypeOK' /\ CallHasKey'
  BY <1>1, <1>2, <1>3, <1>4 DEF IInv, TypeOK, CallHasKey, bounds, UnderWay
<1>6. PlaceIsUsed'
  BY <1>1, <1>3, <1>4, UseStays DEF UnderWay, bounds
<1> QED BY <1>5, <1>6 DEF IInv

-----------------------------------------------------------------------------
(* What comes from outside.                                                *)

\* The task leaves its holder, or its lease runs out or is renewed: the calls
\* go on as they were.
LEMMA LeaseKeeps ==
    ASSUME IInv,
           \/ \E t \in Tasks : Lapse(t) \/ Reclaim(t) \/ ReclaimSilent(t) \/ Cancel(t)
           \/ \E r \in Runs : Renew(r)
    PROVE  IInv'
<1>1. UNCHANGED <<grant, places, twice, left, failures>> /\ run \in [Runs -> RunType]
  BY DEF Lapse, Reclaim, ReclaimSilent, Cancel, Renew, bounds, IInv, TypeOK
<1>2. run' = run \/ \E t \in Tasks : \E but : run' = Lost(t, but)
  BY DEF Lapse, Reclaim, ReclaimSilent, Cancel, Renew
<1>3. /\ run' \in [Runs -> RunType]
      /\ \A q \in Runs : /\ run'[q].key = run[q].key /\ run'[q].phase = run[q].phase
                         /\ run'[q].task = run[q].task
  <2>1. ASSUME NEW t \in Tasks, NEW but, run' = Lost(t, but)
        PROVE  /\ run' \in [Runs -> RunType]
               /\ \A q \in Runs : /\ run'[q].key = run[q].key /\ run'[q].phase = run[q].phase
                                  /\ run'[q].task = run[q].task
    <3>1. Lost(t, but) \in [Runs -> RunType]
      BY LostType DEF IInv
    <3>2. \A q \in Runs : /\ Lost(t, but)[q].key = run[q].key
                          /\ Lost(t, but)[q].phase = run[q].phase
                          /\ Lost(t, but)[q].task = run[q].task
      BY LostKeepsCalls DEF IInv
    <3> QED BY <2>1, <3>1, <3>2
  <2> QED BY <1>1, <1>2, <2>1
<1>4. /\ holder' \in [Tasks -> Workers \cup {NoWorker}]
      /\ lapsed' \subseteq Tasks /\ ended' \subseteq Tasks
  BY DEF Lapse, Reclaim, ReclaimSilent, Cancel, Renew, End, IInv, TypeOK
<1>5. losses' \in 0 .. MaxLost
  BY InFlightAssumption DEF Lapse, Reclaim, ReclaimSilent, Cancel, Renew, Loses, bounds, IInv, TypeOK
<1>6. TypeOK' /\ CallHasKey'
  BY <1>1, <1>3, <1>4, <1>5 DEF IInv, TypeOK, CallHasKey
<1>7. PlaceIsUsed'
  BY <1>1, <1>3, UseStays
<1> QED BY <1>6, <1>7 DEF IInv

\* The runs of a worker that dies keep the keys they died with.
LEMMA CrashKeeps ==
    ASSUME IInv, NEW w \in Workers, Crash(w)
    PROVE  IInv'
<1>1. /\ UNCHANGED <<leases, grant, places, twice, left, failures>> /\ run \in [Runs -> RunType]
      /\ losses' \in 0 .. MaxLost
  <2>1. losses < MaxLost /\ losses' = losses + 1 /\ losses \in 0 .. MaxLost /\ MaxLost \in Nat
    BY InFlightAssumption DEF Crash, Loses, IInv, TypeOK
  <2>2. UNCHANGED <<leases, grant, places, twice, left, failures>>
    BY DEF Crash
  <2>3. losses' \in 0 .. MaxLost
    BY <2>1
  <2> QED BY <2>2, <2>3 DEF IInv, TypeOK
<1>2. ASSUME NEW q \in Runs
      PROVE  /\ [NoRun EXCEPT !.phase = "dead", !.key = run[q].key] \in RunType
             /\ \/ run'[q] = run[q]
                \/ run'[q].phase = "dead" /\ run'[q].key = run[q].key
  BY <1>1 DEF Crash, NoRun, RunType, Phases
<1>3. run' \in [Runs -> RunType]
  BY <1>1, <1>2 DEF Crash
<1>4. TypeOK' /\ CallHasKey'
  BY <1>1, <1>2, <1>3 DEF IInv, TypeOK, CallHasKey, UnderWay, leases
<1>5. PlaceIsUsed'
  BY <1>1, <1>2, UseStays
<1> QED BY <1>4, <1>5 DEF IInv

LEMMA GrantKeeps ==
    ASSUME IInv, \/ \E n \in Places : SetGrant(n)
                 \/ \E p \in Places : GrowOld(p)
    PROVE  IInv'
<1>1. UNCHANGED <<leases, run, twice, left, bounds>> /\ grant' \in Places
  BY DEF SetGrant, GrowOld, IInv, TypeOK
<1>2. /\ places' \in [Places -> PlaceType]
      /\ \A p \in Places : /\ places'[p].key = places[p].key
                           /\ places'[p].key = NoKey => places'[p] = Free
  <2>1. CASE \E n \in Places : SetGrant(n)
    BY <2>1 DEF SetGrant, IInv, TypeOK
  <2>2. ASSUME NEW q \in Places, GrowOld(q)
        PROVE  /\ places' \in [Places -> PlaceType]
               /\ \A p \in Places : /\ places'[p].key = places[p].key
                                    /\ places'[p].key = NoKey => places'[p] = Free
    <3>1. places[q].key # NoKey /\ places' = [places EXCEPT ![q].old = TRUE]
      BY <2>2 DEF GrowOld
    <3> QED BY <3>1 DEF IInv, TypeOK, PlaceType
  <2> QED BY <2>1, <2>2
<1>3. TypeOK' /\ CallHasKey'
  BY <1>1, <1>2 DEF IInv, TypeOK, CallHasKey, leases, bounds
<1>4. PlaceIsUsed'
  BY <1>1, <1>2, UseStays DEF bounds
<1> QED BY <1>3, <1>4 DEF IInv

-----------------------------------------------------------------------------
LEMMA NextKeeps == IInv /\ [Next]_vars => IInv'
<1> SUFFICES ASSUME IInv, [Next]_vars PROVE IInv'
  OBVIOUS
<1>1. ASSUME NEW r \in Runs, RunNext(r)
      PROVE  IInv'
  BY <1>1, TakeKeeps, GiveBackKeeps, CallKeeps, RunKeeps, LeaseKeeps DEF RunNext
<1>2. CASE Outside
  BY <1>2, LeaseKeeps, CrashKeeps, GrantKeeps DEF Outside
<1>3. CASE UNCHANGED vars
  BY <1>3 DEF IInv, TypeOK, CallHasKey, PlaceIsUsed, vars, leases, bounds
<1> QED BY <1>1, <1>2, <1>3 DEF Next

\* A place is held by a call on its way, by one whose worker died, or by one whose
\* own give-back failed or was not made, however many of those there are.
THEOREM NoPlaceIsLeft == Spec => [](TypeOK /\ PlaceIsUsed)
<1>1. IInv => TypeOK /\ PlaceIsUsed
  BY DEF IInv
<1> QED BY <1>1, InitIInv, NextKeeps, PTL DEF Spec

\* A place that names no call is free, whichever run gave it back or lost it.
THEOREM PlacesAreTyped == Spec => []TypeOK
<1>1. IInv => TypeOK
  BY DEF IInv
<1> QED BY <1>1, InitIInv, NextKeeps, PTL DEF Spec

-----------------------------------------------------------------------------
(* The limit.                                                              *)

\* A non-empty set of places has a first one.
LEMMA FirstExists ==
    ASSUME NEW S \in SUBSET Places, S # {}
    PROVE  \E p \in S : \A q \in S : p <= q
<1> DEFINE Below(p) == {q \in S : q <= p}
           T == {Below(p) : p \in S}
<1>1. IsFiniteSet(S) /\ S \subseteq Nat
  <2>1. IsFiniteSet(Places)
    BY InFlightAssumption
  <2>2. IsFiniteSet(S)
    BY <2>1, FS_Subset
  <2>3. Cardinality(Places) \in Nat /\ Places = 1 .. Cardinality(Places)
    BY <2>1, FS_CardinalityType, InFlightAssumption
  <2>4. Places \subseteq Nat
    BY <2>3
  <2> QED BY <2>2, <2>4
<1>2. T \subseteq FiniteSubsetsOf(S) /\ T # {}
  <2>1. FiniteSubsetsOf(S) = SUBSET S
    BY <1>1, FS_FiniteSubsetsOfFinite
  <2>2. \A p \in S : Below(p) \in SUBSET S
    OBVIOUS
  <2>3. T # {}
    <3>1. PICK p : p \in S
      OBVIOUS
    <3>2. Below(p) \in T
      BY <3>1
    <3> QED BY <3>2
  <2> HIDE DEF Below
  <2>4. T \subseteq SUBSET S
    BY <2>2
  <2> QED BY <2>1, <2>3, <2>4
<1>3. PICK x \in T : \A y \in T : <<y, x>> \notin StrictSubsetOrdering(S)
  BY <1>2, FS_StrictSubsetOrderingWellFounded, WFMin
<1>4. PICK p \in S : x = Below(p)
  BY <1>3
<1>5. ASSUME NEW q \in S, q < p PROVE FALSE
  <2>1. Below(q) \subseteq Below(p) /\ p \in Below(p) /\ p \notin Below(q)
    <3>1. p \in Nat /\ q \in Nat /\ \A x1 \in S : x1 \in Nat
      BY <1>1
    <3>2. \A x1 \in S : x1 <= q => x1 <= p
      BY <1>5, <3>1
    <3>3. p <= p /\ ~(p <= q)
      BY <1>5, <3>1
    <3> QED BY <3>2, <3>3
  <2>2. <<Below(q), x>> \in StrictSubsetOrdering(S)
    BY <1>4, <2>1 DEF StrictSubsetOrdering
  <2> QED BY <1>3, <2>2
<1> QED BY <1>1, <1>5

\* A run that kept its lease is its task's holder; a call's key is of its
\* run's task; two calls at once under one key are on record; and a counted
\* call has a place taken under its worker's lease.
KeptHolds ==
    \A r \in Runs : run[r].kept =>
        /\ run[r].phase \notin {"idle", "dead"}
        /\ holder[run[r].task] = WorkerOf[r] /\ run[r].task \notin lapsed

KeyOfTask ==
    \A r \in Runs : run[r].phase \in UnderWay \cup {"waiting", "closing"} =>
        TaskOf[run[r].key] = run[r].task

TwiceKnown ==
    \A q, r \in Runs : /\ q # r /\ run[q].key = run[r].key
                       /\ run[q].phase \in UnderWay \cup {"closing"}
                       /\ run[r].phase \in UnderWay \cup {"closing"}
                       => run[r].key \in twice

HasPlace ==
    \A r \in Counted : \E p \in Places :
        places[p].key = run[r].key /\ places[p].lease = WorkerOf[r]

LimitInv == IInv /\ KeptHolds /\ KeyOfTask /\ TwiceKnown /\ HasPlace

\* The place of a counted call is live.
LEMMA CountedIsLive ==
    ASSUME LimitInv, NEW r \in Counted
    PROVE  \E p \in Places : Live(p) /\ places[p].key = run[r].key
<1>1. PICK p \in Places : places[p].key = run[r].key /\ places[p].lease = WorkerOf[r]
  BY DEF LimitInv, HasPlace
<1>2. /\ r \in Runs /\ run[r].key \in Keys /\ TaskOf[run[r].key] = run[r].task
      /\ holder[run[r].task] = WorkerOf[r] /\ run[r].task \notin lapsed
  BY DEF Counted, LimitInv, IInv, CallHasKey, KeyOfTask, KeptHolds
<1>3. WorkerOf[r] # NoWorker /\ run[r].key # NoKey
  BY <1>2, InFlightAssumption
<1> QED BY <1>1, <1>2, <1>3 DEF Live

\* A call that takes a place takes a live one from nobody.
LEMMA FirstFreeIsFree ==
    ASSUME TypeOK, NEW r \in Runs, TakePlace(r)
    PROVE  /\ FirstFree(run[r].key, run[r].limit) \in Places
           /\ FirstFree(run[r].key, run[r].limit) \notin InTheWay(run[r].key)
<1> DEFINE k == run[r].key
           limit == run[r].limit
           open == {p \in Places : p <= limit} \ InTheWay(k)
           mine == {p \in open : places[p].key = k}
           from == IF mine # {} THEN mine ELSE open
<1>1. /\ limit \in Places \cup {0} /\ Cardinality(InTheWay(k)) < limit
      /\ Cardinality(Places) \in Nat /\ Places = 1 .. Cardinality(Places)
  BY FS_CardinalityType, InFlightAssumption DEF TypeOK, RunType, TakePlace
<1>2. InTheWay(k) \subseteq Places /\ IsFiniteSet(InTheWay(k)) /\ Cardinality(InTheWay(k)) \in Nat
  <2>1. InTheWay(k) \subseteq Places
    BY DEF InTheWay
  <2> QED BY <2>1, FS_Subset, FS_CardinalityType, InFlightAssumption
<1> HIDE DEF k, limit
<1>3. limit \in Nat /\ {p \in Places : p <= limit} = 1 .. limit
  BY <1>1, <1>2
<1>4. IsFiniteSet(1 .. limit) /\ Cardinality(1 .. limit) = limit
  <2>1. limit \in Int /\ 1 \in Int /\ ~(1 > limit)
    BY <1>1, <1>2, <1>3
  <2> QED BY <2>1, FS_Interval
<1>5. open # {}
  <2> SUFFICES ASSUME open = {} PROVE FALSE
    OBVIOUS
  <2>1. 1 .. limit \subseteq InTheWay(k)
    BY <1>3
  <2>2. Cardinality(1 .. limit) <= Cardinality(InTheWay(k))
    BY <1>2, <2>1, FS_Subset
  <2> QED BY <1>1, <1>2, <1>3, <1>4, <2>2
<1>6. from \subseteq Places /\ from # {} /\ from \cap InTheWay(k) = {}
  BY <1>5
<1>7. \E p \in from : \A q \in from : p <= q
  BY <1>6, FirstExists
<1>8. FirstFree(k, limit) = CHOOSE p \in from : \A q \in from : p <= q
  BY DEF FirstFree
<1>9. FirstFree(k, limit) \in from
  BY <1>7, <1>8
<1> QED BY <1>6, <1>9 DEF k, limit

\* A step in which no call begins to have a place, and none loses its own.
LEMMA CallsStay ==
    ASSUME LimitInv, twice' = twice,
           \A p \in Places : places'[p].key = places[p].key /\ places'[p].lease = places[p].lease,
           \A q \in Runs : run'[q].phase \in UnderWay \cup {"closing"} =>
               /\ run[q].phase \in UnderWay \cup {"closing"} /\ run'[q].key = run[q].key
               /\ run'[q].phase \in UnderWay => run[q].phase \in UnderWay
               /\ run'[q].kept => run[q].kept
    PROVE  TwiceKnown' /\ HasPlace'
<1>1. TwiceKnown'
  BY DEF LimitInv, TwiceKnown
<1>2. \A q \in Runs : q \in Counted' => q \in Counted /\ run'[q].key = run[q].key
  BY DEF Counted, UnderWay
<1>3. HasPlace'
  <2> SUFFICES ASSUME NEW q \in Counted'
               PROVE  \E p \in Places : places'[p].key = run'[q].key /\ places'[p].lease = WorkerOf[q]
    BY DEF HasPlace
  <2>1. q \in Counted /\ run'[q].key = run[q].key
    BY <1>2 DEF Counted
  <2> QED BY <2>1 DEF LimitInv, HasPlace
<1> QED BY <1>1, <1>3

\* The runs of a task that is lost have not kept its lease, but the taker's.
LEMMA LostKept ==
    ASSUME TypeOK, NEW t, NEW but, NEW q \in Runs
    PROVE  Lost(t, but)[q].kept => run[q].kept /\ (run[q].task # t \/ q \in but)
  BY DEF TypeOK, RunType, Lost

\* One run's step between calls, or on its way in one, takes no lease.
LEMMA KeptStays ==
    ASSUME LimitInv, UNCHANGED <<holder, lapsed>>, NEW r \in Runs,
           \A q \in Runs \ {r} : run'[q] = run[q],
           run'[r].kept = run[r].kept, run'[r].task = run[r].task,
           run'[r].phase \notin {"idle", "dead"}
    PROVE  KeptHolds'
<1> SUFFICES ASSUME NEW q \in Runs, run'[q].kept
             PROVE  /\ run'[q].phase \notin {"idle", "dead"}
                    /\ holder'[run'[q].task] = WorkerOf[q] /\ run'[q].task \notin lapsed'
  BY DEF KeptHolds
<1>1. run[q].kept /\ run'[q].task = run[q].task
  <2>1. CASE q = r
    BY <2>1
  <2>2. CASE q # r
    BY <2>2
  <2> QED BY <2>1, <2>2
<1>2. run'[q].phase \notin {"idle", "dead"}
  BY DEF LimitInv, KeptHolds
<1> QED BY <1>1, <1>2 DEF LimitInv, KeptHolds

\* The steps of a call that take and give back no place.
LEMMA CallLimit ==
    ASSUME LimitInv, NEW r \in Runs,
           \/ Call(r) \/ Withdraw(r) \/ Return(r) \/ GiveUpWaiting(r)
           \/ GiveBackFails(r) \/ Slips(r) \/ \E k \in Keys : Invoke(r, k)
    PROVE  KeptHolds' /\ KeyOfTask' /\ TwiceKnown' /\ HasPlace'
<1>1. /\ UNCHANGED <<leases, places, twice>> /\ run[r] \in RunType
      /\ \A q \in Runs \ {r} : run'[q] = run[q]
  BY DEF Call, Withdraw, Return, GiveUpWaiting, GiveBackFails, Slips, LeavesItsPlace, Invoke,
         Enter, CallOver, LimitInv, IInv, TypeOK
<1>2. CASE Call(r) \/ Withdraw(r) \/ Return(r)
  <2>1. run[r].phase \in UnderWay
    BY <1>2 DEF Call, Withdraw, Return, At, UnderWay
  <2>2. PICK p \in {"calling", "closing"} : Enter(r, p)
    BY <1>2 DEF Call, Withdraw, Return
  <2>3. /\ run'[r].phase = p /\ run'[r].key = run[r].key /\ run'[r].task = run[r].task
        /\ run'[r].kept = run[r].kept
    BY <1>1, <2>2 DEF Enter, LimitInv, IInv, TypeOK, RunType
  <2>4. TwiceKnown' /\ HasPlace'
    BY <1>1, <2>1, <2>3, CallsStay
  <2> QED BY <1>1, <2>1, <2>3, <2>4 DEF LimitInv, KeptHolds, KeyOfTask, UnderWay, leases
<1>3. CASE GiveUpWaiting(r) \/ GiveBackFails(r) \/ Slips(r)
  <2>1. run[r].phase \in {"waiting", "placed", "closing"} /\ CallOver(r)
    BY <1>3 DEF GiveUpWaiting, GiveBackFails, Slips, LeavesItsPlace, At
  <2>2. /\ run'[r].phase = "working" /\ run'[r].task = run[r].task
        /\ run'[r].kept = run[r].kept
    BY <1>1, <2>1 DEF CallOver, LimitInv, IInv, TypeOK, RunType
  <2>3. TwiceKnown' /\ HasPlace'
    BY <1>1, <2>2, CallsStay DEF UnderWay
  <2> QED BY <1>1, <2>1, <2>2, <2>3 DEF LimitInv, KeptHolds, KeyOfTask, UnderWay, leases
<1>4. ASSUME NEW k \in Keys, Invoke(r, k)
      PROVE  KeptHolds' /\ KeyOfTask' /\ TwiceKnown' /\ HasPlace'
  <2>1. /\ run[r].phase = "working" /\ TaskOf[k] = run[r].task
        /\ run' = [run EXCEPT ![r].phase = "waiting", ![r].key = k, ![r].limit = grant]
    BY <1>4 DEF Invoke, At
  <2>2. /\ run'[r].phase = "waiting" /\ run'[r].task = run[r].task /\ run'[r].key = k
        /\ run'[r].kept = run[r].kept
    BY <1>1, <2>1 DEF LimitInv, IInv, TypeOK, RunType
  <2>3. TwiceKnown' /\ HasPlace'
    BY <1>1, <2>2, CallsStay DEF UnderWay
  <2>4. KeptHolds'
    BY <1>1, <2>2, KeptStays DEF leases
  <2>5. KeyOfTask'
    BY <1>1, <2>1, <2>2 DEF LimitInv, KeyOfTask
  <2> QED BY <2>3, <2>4, <2>5
<1> QED BY <1>2, <1>3, <1>4

\* Taking a place: the call has one, and if another has its key it is known.
LEMMA TakeLimit ==
    ASSUME LimitInv, NEW r \in Runs, TakePlace(r)
    PROVE  KeptHolds' /\ KeyOfTask' /\ TwiceKnown' /\ HasPlace'
<1> DEFINE k == run[r].key
           taken == [key |-> k, lease |-> holder[TaskOf[k]], old |-> FALSE]
           at == FirstFree(k, run[r].limit)
<1>1. /\ places' = [places EXCEPT ![at] = taken]
      /\ run' = [run EXCEPT ![r].phase = "placed", ![r].limit = 0]
      /\ UNCHANGED leases /\ run[r].phase = "waiting"
      /\ twice' = IF \E q \in Runs \ {r} : run[q].key = k /\ run[q].phase \in UnderWay \cup {"closing"}
                  THEN twice \cup {k} ELSE twice
  BY DEF TakePlace, At
<1>2. at \in Places /\ at \notin InTheWay(k)
  BY FirstFreeIsFree DEF LimitInv, IInv
<1>3. /\ \A q \in Runs \ {r} : run'[q] = run[q]
      /\ run'[r].phase = "placed" /\ run'[r].key = k /\ run'[r].task = run[r].task
      /\ run'[r].kept = run[r].kept
  BY <1>1 DEF LimitInv, IInv, TypeOK, RunType
<1>4. /\ places'[at] = taken /\ \A p \in Places \ {at} : places'[p] = places[p]
  BY <1>1, <1>2 DEF LimitInv, IInv, TypeOK
<1>5. KeptHolds' /\ KeyOfTask'
  <2>1. KeptHolds'
    BY <1>1, <1>3, KeptStays DEF leases
  <2>2. KeyOfTask'
    BY <1>1, <1>3 DEF LimitInv, KeyOfTask
  <2> QED BY <2>1, <2>2
<1> HIDE DEF at, k, taken
<1>6. twice \subseteq twice'
  BY <1>1
<1>7. TwiceKnown'
  <2> SUFFICES ASSUME NEW q1 \in Runs, NEW q2 \in Runs, q1 # q2, run'[q1].key = run'[q2].key,
                      run'[q1].phase \in UnderWay \cup {"closing"},
                      run'[q2].phase \in UnderWay \cup {"closing"}
               PROVE  run'[q2].key \in twice'
    BY DEF TwiceKnown
  <2>1. CASE q1 # r /\ q2 # r
    BY <1>3, <1>6, <2>1 DEF LimitInv, TwiceKnown
  <2>2. CASE q1 = r \/ q2 = r
    <3>1. \E q \in Runs \ {r} : run[q].key = k /\ run[q].phase \in UnderWay \cup {"closing"}
      BY <1>3, <2>2
    <3>2. k \in twice'
      BY <1>1, <3>1
    <3> QED BY <1>3, <2>2, <3>2
  <2> QED BY <2>1, <2>2
<1>8. HasPlace'
  <2> SUFFICES ASSUME NEW q \in Counted'
               PROVE  \E p \in Places : places'[p].key = run'[q].key /\ places'[p].lease = WorkerOf[q]
    BY DEF HasPlace
  <2>1. q \in Runs /\ run'[q].kept /\ run'[q].phase \in UnderWay /\ run'[q].key \notin twice'
    BY DEF Counted
  <2>2. CASE q = r
    <3>1. TaskOf[k] = run[r].task /\ holder[run[r].task] = WorkerOf[r]
      BY <1>1, <1>3, <2>1, <2>2 DEF LimitInv, KeyOfTask, KeptHolds, k
    <3> QED BY <1>2, <1>3, <1>4, <2>2, <3>1 DEF taken
  <2>3. CASE q # r
    <3>1. q \in Counted /\ run'[q] = run[q]
      BY <1>3, <1>6, <2>1, <2>3 DEF Counted
    <3>2. run[q].key # k
      BY <1>1, <2>1, <2>3, <3>1
    <3>3. PICK p \in Places : places[p].key = run[q].key /\ places[p].lease = WorkerOf[q]
      BY <3>1 DEF LimitInv, HasPlace
    <3>4. Live(p)
      <4>1. /\ q \in Runs /\ run[q].key \in Keys /\ TaskOf[run[q].key] = run[q].task
            /\ holder[run[q].task] = WorkerOf[q] /\ run[q].task \notin lapsed
        BY <3>1 DEF Counted, LimitInv, IInv, CallHasKey, KeyOfTask, KeptHolds
      <4>2. WorkerOf[q] # NoWorker /\ run[q].key # NoKey
        BY <4>1, InFlightAssumption
      <4> QED BY <3>3, <4>1, <4>2 DEF Live
    <3>5. p # at
      BY <1>2, <3>2, <3>3, <3>4 DEF InTheWay
    <3> QED BY <1>4, <3>1, <3>3, <3>5
  <2> QED BY <2>2, <2>3
<1> QED BY <1>5, <1>7, <1>8

\* Giving places back by key alone: a counted call of the key would be known.
LEMMA GiveBackLimit ==
    ASSUME LimitInv, NEW r \in Runs, GivePlaceBack(r)
    PROVE  KeptHolds' /\ KeyOfTask' /\ TwiceKnown' /\ HasPlace'
<1>1. /\ UNCHANGED <<leases, twice>> /\ run[r] \in RunType /\ run[r].phase = "closing"
      /\ \A q \in Runs \ {r} : run'[q] = run[q]
      /\ \A p \in Places : places'[p] = IF places[p].key = run[r].key THEN Free ELSE places[p]
  BY DEF GivePlaceBack, At, CallOver, LimitInv, IInv, TypeOK
<1>2. /\ run'[r].phase = "working" /\ run'[r].task = run[r].task
      /\ run'[r].kept = run[r].kept
  BY <1>1 DEF GivePlaceBack, CallOver, LimitInv, IInv, TypeOK, RunType
<1>3. KeptHolds' /\ KeyOfTask'
  BY <1>1, <1>2 DEF LimitInv, KeptHolds, KeyOfTask, UnderWay, leases
<1>4. TwiceKnown'
  BY <1>1, <1>2 DEF LimitInv, TwiceKnown, UnderWay
<1>5. HasPlace'
  <2> SUFFICES ASSUME NEW q \in Counted'
               PROVE  \E p \in Places : places'[p].key = run'[q].key /\ places'[p].lease = WorkerOf[q]
    BY DEF HasPlace
  <2>1. q # r /\ q \in Counted /\ run'[q] = run[q]
    BY <1>1, <1>2 DEF Counted, UnderWay
  <2>2. run[q].key # run[r].key
    BY <1>1, <2>1 DEF LimitInv, TwiceKnown, Counted
  <2> QED BY <1>1, <2>1, <2>2 DEF LimitInv, HasPlace
<1> QED BY <1>3, <1>4, <1>5

\* A run as it was, with the lease it had or without.
GoesOn(q) ==
    /\ run'[q].phase = run[q].phase /\ run'[q].key = run[q].key /\ run'[q].task = run[q].task
    /\ run'[q].kept => /\ run[q].kept /\ holder'[run[q].task] = holder[run[q].task]
                       /\ run[q].task \notin lapsed'

\* A run between calls, with its task's lease or without.
Between(q) ==
    /\ run'[q].phase \in {"idle", "working", "dead"}
    /\ run'[q].kept => /\ run'[q].phase = "working"
                       /\ holder'[run'[q].task] = WorkerOf[q] /\ run'[q].task \notin lapsed'

\* What happens to leases leaves every counted call its place.
LEMMA LeasesStay ==
    ASSUME LimitInv, twice' = twice,
           \A p \in Places : places'[p].key = places[p].key /\ places'[p].lease = places[p].lease,
           \A q \in Runs : GoesOn(q) \/ Between(q)
    PROVE  KeptHolds' /\ KeyOfTask' /\ TwiceKnown' /\ HasPlace'
<1>1. TwiceKnown' /\ HasPlace'
  BY CallsStay DEF GoesOn, Between, UnderWay
<1>2. KeyOfTask'
  BY DEF LimitInv, KeyOfTask, GoesOn, Between, UnderWay
<1>3. KeptHolds'
  <2> SUFFICES ASSUME NEW q \in Runs, run'[q].kept
               PROVE  /\ run'[q].phase \notin {"idle", "dead"}
                      /\ holder'[run'[q].task] = WorkerOf[q] /\ run'[q].task \notin lapsed'
    BY DEF KeptHolds
  <2>1. CASE GoesOn(q)
    BY <2>1 DEF LimitInv, KeptHolds, GoesOn
  <2>2. CASE Between(q)
    BY <2>2 DEF Between
  <2> QED BY <2>1, <2>2
<1> QED BY <1>1, <1>2, <1>3

\* A task's runs but the taker's lose its lease, and whoever holds it then.
LEMMA LostGoesOn ==
    ASSUME LimitInv, NEW t \in Tasks, NEW but, NEW q \in Runs, q \notin but,
           run'[q] = Lost(t, but)[q],
           \A u \in Tasks \ {t} : holder'[u] = holder[u] /\ (u \in lapsed' => u \in lapsed)
    PROVE  GoesOn(q)
<1>1. /\ run'[q].key = run[q].key /\ run'[q].phase = run[q].phase /\ run'[q].task = run[q].task
  BY LostKeepsCalls DEF LimitInv, IInv
<1>2. ASSUME run'[q].kept
      PROVE  /\ run[q].kept /\ run[q].task \in Tasks \ {t} /\ run[q].task \notin lapsed
  <2>1. run[q].kept /\ run[q].task # t
    BY <1>2, LostKept DEF LimitInv, IInv
  <2>2. run[q].phase \notin {"idle", "dead"} /\ run[q].task \notin lapsed
    BY <2>1 DEF LimitInv, KeptHolds
  <2> QED BY <2>1, <2>2 DEF LimitInv, IInv, CallHasKey
<1> QED BY <1>1, <1>2 DEF GoesOn

LEMMA SameGoesOn ==
    ASSUME LimitInv, NEW q \in Runs, run'[q] = run[q], holder' = holder, lapsed' \subseteq lapsed
    PROVE  GoesOn(q)
  BY DEF LimitInv, KeptHolds, GoesOn

\* What comes from outside takes leases, and gives none.
LEMMA OutsideLimit ==
    ASSUME LimitInv, Outside
    PROVE  KeptHolds' /\ KeyOfTask' /\ TwiceKnown' /\ HasPlace'
<1>1. ASSUME NEW t \in Tasks, Lapse(t) \/ Reclaim(t) \/ ReclaimSilent(t) \/ Cancel(t)
      PROVE  KeptHolds' /\ KeyOfTask' /\ TwiceKnown' /\ HasPlace'
  <2>1. /\ run' = Lost(t, {}) /\ UNCHANGED <<places, twice>>
        /\ \A u \in Tasks \ {t} : holder'[u] = holder[u] /\ (u \in lapsed' => u \in lapsed)
    BY <1>1 DEF Lapse, Reclaim, ReclaimSilent, Cancel, End, LimitInv, IInv, TypeOK
  <2>2. \A q \in Runs : GoesOn(q)
    BY <2>1, LostGoesOn
  <2> QED BY <2>1, <2>2, LeasesStay
<1>2. ASSUME NEW w \in Workers, Crash(w)
      PROVE  KeptHolds' /\ KeyOfTask' /\ TwiceKnown' /\ HasPlace'
  <2>1. UNCHANGED <<leases, places, twice>>
    BY <1>2 DEF Crash
  <2>2. ASSUME NEW q \in Runs
        PROVE  GoesOn(q) \/ Between(q)
    <3>1. CASE WorkerOf[q] = w
      <4>1. run'[q].phase = "dead" /\ ~run'[q].kept
        BY <1>2, <3>1 DEF Crash, NoRun
      <4> QED BY <4>1 DEF Between
    <3>2. CASE WorkerOf[q] # w
      BY <1>2, <2>1, <3>2, SameGoesOn DEF Crash, leases
    <3> QED BY <3>1, <3>2
  <2> QED BY <2>1, <2>2, LeasesStay
<1>3. CASE \/ \E n \in Places : SetGrant(n)
           \/ \E p \in Places : GrowOld(p)
  <2>1. UNCHANGED <<leases, run, twice>>
    BY <1>3 DEF SetGrant, GrowOld
  <2>2. \A p \in Places : places'[p].key = places[p].key /\ places'[p].lease = places[p].lease
    BY <1>3 DEF SetGrant, GrowOld, LimitInv, IInv, TypeOK, PlaceType
  <2>3. \A q \in Runs : GoesOn(q)
    BY <2>1, SameGoesOn DEF leases
  <2> QED BY <2>1, <2>2, <2>3, LeasesStay
<1> QED BY <1>1, <1>2, <1>3 DEF Outside

\* A run that begins, ends or renews its lease.
LEMMA RunLimit ==
    ASSUME LimitInv, NEW r \in Runs,
           Park(r) \/ Complete(r) \/ Renew(r) \/ \E t \in Tasks : Begin(r, t)
    PROVE  KeptHolds' /\ KeyOfTask' /\ TwiceKnown' /\ HasPlace'
<1>1. UNCHANGED <<places, twice>> /\ run \in [Runs -> RunType]
  BY DEF Park, Complete, Renew, Begin, LimitInv, IInv, TypeOK
<1>2. NoRun.phase = "idle" /\ ~NoRun.kept
  BY DEF NoRun
<1>3. CASE Renew(r)
  BY <1>1, <1>3, SameGoesOn, LeasesStay DEF Renew
<1>4. ASSUME NEW t \in Tasks, t = run[r].task,
             Complete(r) \/ (Park(r) /\ holder[t] = WorkerOf[r])
      PROVE  \A q \in Runs : GoesOn(q) \/ Between(q)
  <2>1. run' = [Lost(t, {r}) EXCEPT ![r] = NoRun]
    BY <1>4 DEF Complete, Park
  <2>2. \A u \in Tasks \ {t} : holder'[u] = holder[u] /\ (u \in lapsed' => u \in lapsed)
    BY <1>4 DEF Complete, Park, End, LimitInv, IInv, TypeOK
  <2>3. Lost(t, {r}) \in [Runs -> RunType]
    BY LostType DEF LimitInv, IInv
  <2>4. run'[r] = NoRun /\ \A q \in Runs \ {r} : run'[q] = Lost(t, {r})[q]
    BY <2>1, <2>3
  <2>5. \A q \in Runs \ {r} : GoesOn(q)
    BY <2>2, <2>4, LostGoesOn
  <2> QED BY <1>2, <2>4, <2>5 DEF Between
<1>5. CASE Park(r) /\ holder[run[r].task] # WorkerOf[r]
  <2>1. run' = [run EXCEPT ![r] = NoRun] /\ UNCHANGED <<holder, lapsed>>
    BY <1>5 DEF Park
  <2>2. run'[r] = NoRun /\ \A q \in Runs \ {r} : run'[q] = run[q]
    BY <1>1, <2>1
  <2>3. \A q \in Runs \ {r} : GoesOn(q)
    BY <2>1, <2>2, SameGoesOn
  <2>4. \A q \in Runs : GoesOn(q) \/ Between(q)
    BY <1>2, <2>2, <2>3 DEF Between
  <2> QED BY <1>1, <2>4, LeasesStay
<1>6. CASE Complete(r) \/ (Park(r) /\ holder[run[r].task] = WorkerOf[r])
  <2>1. run[r].task \in Tasks
    BY <1>6 DEF Complete, Park, At, LimitInv, IInv, CallHasKey
  <2> QED BY <1>1, <1>4, <1>6, <2>1, LeasesStay
<1>7. ASSUME NEW t \in Tasks, Begin(r, t)
      PROVE  \A q \in Runs : GoesOn(q) \/ Between(q)
  <2>1. /\ run' = [Lost(t, {r}) EXCEPT ![r] = [NoRun EXCEPT !.phase = "working", !.task = t, !.kept = TRUE]]
        /\ holder' = [holder EXCEPT ![t] = WorkerOf[r]] /\ lapsed' = lapsed \ {t}
    BY <1>7 DEF Begin
  <2>2. /\ holder'[t] = WorkerOf[r] /\ t \notin lapsed'
        /\ \A u \in Tasks \ {t} : holder'[u] = holder[u] /\ (u \in lapsed' => u \in lapsed)
    BY <2>1 DEF LimitInv, IInv, TypeOK
  <2>3. Lost(t, {r}) \in [Runs -> RunType]
    BY LostType DEF LimitInv, IInv
  <2>4. /\ run'[r].phase = "working" /\ run'[r].task = t
        /\ \A q \in Runs \ {r} : run'[q] = Lost(t, {r})[q]
    BY <2>1, <2>3 DEF NoRun
  <2>5. \A q \in Runs \ {r} : GoesOn(q)
    BY <2>2, <2>4, LostGoesOn
  <2> QED BY <2>2, <2>4, <2>5 DEF Between
<1> QED BY <1>1, <1>3, <1>5, <1>6, <1>7, LeasesStay

LEMMA InitLimit == Init => LimitInv
<1>1. Init => KeptHolds /\ KeyOfTask /\ TwiceKnown /\ HasPlace
  BY DEF Init, NoRun, KeptHolds, KeyOfTask, TwiceKnown, HasPlace, Counted, UnderWay
<1> QED BY <1>1, InitIInv DEF LimitInv

LEMMA LimitKept == LimitInv /\ [Next]_vars => LimitInv'
<1> SUFFICES ASSUME LimitInv, [Next]_vars PROVE LimitInv'
  OBVIOUS
<1>1. IInv'
  BY NextKeeps DEF LimitInv
<1>2. KeptHolds' /\ KeyOfTask' /\ TwiceKnown' /\ HasPlace'
  <2>1. CASE Outside
    BY <2>1, OutsideLimit
  <2>2. ASSUME NEW r \in Runs, RunNext(r)
        PROVE  KeptHolds' /\ KeyOfTask' /\ TwiceKnown' /\ HasPlace'
    BY <2>2, CallLimit, TakeLimit, GiveBackLimit, RunLimit DEF RunNext
  <2>3. CASE UNCHANGED vars
    <3>1. UNCHANGED <<holder, lapsed, places, run, twice>>
      BY <2>3 DEF vars, leases
    <3> QED BY <3>1, SameGoesOn, LeasesStay
  <2> QED BY <2>1, <2>2, <2>3 DEF Next
<1> QED BY <1>1, <1>2 DEF LimitInv

\* The calls beside the one that takes a place have live places of their own
\* that are in its way.
LEMMA TakesWithin ==
    ASSUME LimitInv, NEW r \in Runs, TakePlace(r)
    PROVE  Cardinality(Counted') <= run[r].limit
<1> DEFINE k == run[r].key
           limit == run[r].limit
           beside == Counted' \ {r}
           place(q) == CHOOSE p \in Places : Live(p) /\ places[p].key = run[q].key
           f == [q \in beside |-> place(q)]
<1>1. /\ run' = [run EXCEPT ![r].phase = "placed", ![r].limit = 0]
      /\ Cardinality(InTheWay(k)) < limit
      /\ twice' = IF \E q \in Runs \ {r} : run[q].key = k /\ run[q].phase \in UnderWay \cup {"closing"}
                  THEN twice \cup {k} ELSE twice
  BY DEF TakePlace
<1>2. \A q \in Runs \ {r} : run'[q] = run[q]
  BY <1>1 DEF LimitInv, IInv, TypeOK
<1>3. IsFiniteSet(InTheWay(k)) /\ Cardinality(InTheWay(k)) \in Nat /\ limit \in Nat
  <2>1. InTheWay(k) \in SUBSET Places
    BY DEF InTheWay
  <2>2. IsFiniteSet(InTheWay(k))
    BY <2>1, FS_Subset, InFlightAssumption
  <2>3. limit \in Places \cup {0} /\ Cardinality(Places) \in Nat
    BY FS_CardinalityType, InFlightAssumption DEF LimitInv, IInv, TypeOK, RunType
  <2>4. limit \in Nat
    BY <2>3, InFlightAssumption
  <2> QED BY <2>2, <2>4, FS_CardinalityType
<1> HIDE DEF k, limit
<1>4. ASSUME NEW q \in beside
      PROVE  q \in Counted /\ run[q].key # k
  <2>1. q \in Runs \ {r} /\ run[q].kept /\ run[q].phase \in UnderWay /\ run[q].key \notin twice'
    BY <1>2 DEF Counted
  <2>2. run[q].key # k
    BY <1>1, <2>1
  <2> QED BY <1>1, <2>1, <2>2 DEF Counted
<1>5. ASSUME NEW q \in beside
      PROVE  place(q) \in InTheWay(k) /\ places[place(q)].key = run[q].key
  <2>1. \E p \in Places : Live(p) /\ places[p].key = run[q].key
    BY <1>4, CountedIsLive
  <2>2. place(q) \in Places /\ Live(place(q)) /\ places[place(q)].key = run[q].key
    BY <2>1
  <2> QED BY <1>4, <2>2 DEF InTheWay
<1>6. ASSUME NEW q1 \in beside, NEW q2 \in beside, q1 # q2
      PROVE  place(q1) # place(q2)
  <2>1. run[q1].key # run[q2].key
    BY <1>4, <1>6 DEF Counted, LimitInv, TwiceKnown
  <2> QED BY <1>5, <2>1
<1> HIDE DEF place, beside
<1>7. f \in Injection(beside, InTheWay(k))
  <2>1. f \in [beside -> InTheWay(k)]
    BY <1>5
  <2>2. IsInjective(f)
    BY <1>6 DEF IsInjective
  <2> QED BY <2>1, <2>2 DEF Injection
<1> HIDE DEF f
<1>8. IsFiniteSet(beside) /\ Cardinality(beside) <= Cardinality(InTheWay(k))
  BY <1>3, <1>7, FS_Injection
<1>9. /\ IsFiniteSet(beside \cup {r}) /\ Cardinality(beside) \in Nat
      /\ Cardinality(beside \cup {r}) <= Cardinality(beside) + 1
      /\ Cardinality(beside \cup {r}) \in Nat
  <2>1. /\ IsFiniteSet(beside \cup {r})
        /\ Cardinality(beside \cup {r}) =
              IF r \in beside THEN Cardinality(beside) ELSE Cardinality(beside) + 1
    BY <1>8, FS_AddElement
  <2>2. Cardinality(beside) \in Nat
    BY <1>8, FS_CardinalityType
  <2> QED BY <2>1, <2>2
<1>10. Counted' \in SUBSET (beside \cup {r})
  BY DEF beside
<1>11. /\ Cardinality(Counted') <= Cardinality(beside \cup {r})
       /\ Cardinality(Counted') \in Nat
  <2>1. IsFiniteSet(beside \cup {r})
    BY <1>9
  <2>2. IsFiniteSet(Counted') /\ Cardinality(Counted') <= Cardinality(beside \cup {r})
    BY <2>1, <1>10, FS_Subset
  <2> QED BY <2>2, FS_CardinalityType
<1>12. Cardinality(Counted') <= limit
  BY <1>1, <1>3, <1>8, <1>9, <1>11
<1> QED BY <1>12 DEF limit

\* Nothing but taking a place gives a waiting call one.
LEMMA OnlyTakes ==
    ASSUME LimitInv, [Next]_vars, NEW r \in Runs, At(r, "waiting"), run'[r].phase = "placed"
    PROVE  TakePlace(r)
<1>1. run[r].phase = "waiting" /\ run \in [Runs -> RunType] /\ TypeOK
  BY DEF At, LimitInv, IInv, TypeOK
<1>2. ASSUME NEW q \in Runs, RunNext(q)
      PROVE  TakePlace(r)
  <2>1. CASE q = r
    <3>1. TakePlace(r) \/ GiveUpWaiting(r) \/ Renew(r)
      BY <1>1, <1>2, <2>1
         DEF RunNext, Call, Withdraw, Return, GivePlaceBack, GiveBackFails, Slips, Park, Complete,
             Begin, Invoke, At
    <3>2. ~Renew(r)
      BY <1>1 DEF Renew
    <3>3. ~GiveUpWaiting(r)
      BY <1>1 DEF GiveUpWaiting, CallOver, RunType
    <3> QED BY <3>1, <3>2, <3>3
  <2>2. CASE q # r
    <3>1. \A t, but : Lost(t, but)[r].phase = "waiting" /\ Lost(t, but) \in [Runs -> RunType]
      BY <1>1, LostKeepsCalls, LostType
    <3>2. CASE Park(q) \/ Complete(q) \/ \E t \in Tasks : Begin(q, t)
      <4>1. CASE Park(q)
        <5>1. CASE run' = [run EXCEPT ![q] = NoRun]
          BY <1>1, <2>2, <5>1
        <5>2. CASE run' = [Lost(run[q].task, {q}) EXCEPT ![q] = NoRun]
          BY <1>1, <2>2, <3>1, <5>2
        <5> QED BY <4>1, <5>1, <5>2 DEF Park
      <4>2. CASE Complete(q)
        BY <1>1, <2>2, <3>1, <4>2 DEF Complete
      <4>3. CASE \E t \in Tasks : Begin(q, t)
        BY <1>1, <2>2, <3>1, <4>3 DEF Begin
      <4> QED BY <3>2, <4>1, <4>2, <4>3
    <3>3. CASE \/ TakePlace(q) \/ GiveUpWaiting(q) \/ Call(q) \/ Withdraw(q) \/ Return(q)
               \/ GivePlaceBack(q) \/ GiveBackFails(q) \/ Slips(q) \/ Renew(q)
               \/ \E k \in Keys : Invoke(q, k)
      <4>1. run'[r] = run[r]
        BY <1>1, <2>2, <3>3
           DEF TakePlace, GiveUpWaiting, CallOver, Call, Withdraw, Return, Enter, GivePlaceBack,
               GiveBackFails, Slips, LeavesItsPlace, Renew, Invoke
      <4> QED BY <1>1, <4>1
    <3> QED BY <1>2, <3>2, <3>3 DEF RunNext
  <2> QED BY <2>1, <2>2
<1>3. CASE Outside
  <2>1. CASE \E t \in Tasks : run' = Lost(t, {})
    BY <1>1, <2>1, LostKeepsCalls
  <2>2. CASE \E w \in Workers : Crash(w)
    BY <1>1, <2>2 DEF Crash, NoRun
  <2>3. CASE run' = run
    BY <1>1, <2>3
  <2> QED BY <1>3, <2>1, <2>2, <2>3
     DEF Outside, Lapse, Reclaim, ReclaimSilent, Cancel, SetGrant, GrowOld
<1>4. CASE UNCHANGED vars
  BY <1>1, <1>4 DEF vars
<1> QED BY <1>2, <1>3, <1>4 DEF Next

\* A call gets a place only within the limit its grant had (in-flight.ts
\* takePlace), however limits change and whatever other calls left behind.
THEOREM PlacesAreWithinLimits == Spec => TakenWithinLimit
<1>1. ASSUME LimitInv, [Next]_vars
      PROVE  [\A r \in Runs : At(r, "waiting") /\ run'[r].phase = "placed"
                => Cardinality(Counted') <= run[r].limit \/ Counted' = {}]_vars
  BY <1>1, OnlyTakes, TakesWithin
<1> QED BY <1>1, InitLimit, LimitKept, PTL DEF Spec, TakenWithinLimit
=============================================================================
