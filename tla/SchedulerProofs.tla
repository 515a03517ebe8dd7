-------------------------- MODULE SchedulerProofs ---------------------------
(***************************************************************************)
(* What holds of a schedule and its passes for every number of workers,    *)
(* period, catch-up window and bound; and of deliveries from outside for   *)
(* every rate and number of requests.  The two are separate                *)
(* specifications: no variable is of both.                                 *)
(***************************************************************************)
EXTENDS Scheduler, Deliveries, FiniteSetTheorems, TLAPS

-----------------------------------------------------------------------------
(* The occurrences.                                                        *)

\* The next occurrence of a time of the clock is an occurrence, and later.
LEMMA NextIsLater ==
    ASSUME NEW t \in 0 .. MaxTime
    PROVE  NextOccurrence(t) \in Occurrences /\ NextOccurrence(t) > t
<1>1. t = (Period * (t \div Period)) + (t % Period) /\ t % Period < Period /\ t \div Period \in Nat
  BY SchedulerAssumption, SMT
<1>2. (t \div Period + 1) * Period > t /\ (t \div Period + 1) * Period <= t + Period
  BY <1>1, SchedulerAssumption, SMT
<1>3. ((t \div Period + 1) * Period) % Period = 0
  BY <1>1, SchedulerAssumption, SMT
<1> QED BY <1>2, <1>3, SchedulerAssumption DEF NextOccurrence, Occurrences

\* As the clock goes on, so does its next occurrence.
LEMMA NextGoesOn ==
    ASSUME NEW t \in 0 .. MaxTime, NEW u \in 0 .. MaxTime, t <= u
    PROVE  NextOccurrence(t) <= NextOccurrence(u)
<1>1. t = (Period * (t \div Period)) + (t % Period) /\ t % Period < Period /\ t \div Period \in Nat
  BY SchedulerAssumption, SMT
<1>2. u = (Period * (u \div Period)) + (u % Period) /\ u % Period >= 0 /\ u \div Period \in Nat
  BY SchedulerAssumption, SMT
<1>3. (t \div Period + 1) * Period <= (u \div Period + 1) * Period
  BY <1>1, <1>2, SchedulerAssumption, SMT
<1> QED BY <1>3 DEF NextOccurrence

LEMMA OccurrencesAreTimes == Occurrences \subseteq Nat /\ 0 \in Occurrences
<1>1. 0 % Period = 0
  BY SchedulerAssumption, SMT
<1> QED BY <1>1, SchedulerAssumption DEF Occurrences

-----------------------------------------------------------------------------
(* The invariant.                                                          *)

\* A pass is of an occurrence that was due by the clock it read; what it drops
\* it has a reason for, and once it goes to advance, the task is there.
PassIsDue ==
    \A w \in Workers : ~At(w, "none") =>
        /\ pass[w].occ <= pass[w].when /\ pass[w].when <= now
        /\ At(w, "dropping") => pass[w].why # "none"
        /\ At(w, "created") => task[pass[w].occ] # "none"

\* Nothing is told of an occurrence the schedule has not passed, and it has
\* not passed one after the next.
NotToldBefore ==
    /\ nextRun <= NextOccurrence(now)
    /\ \A o \in Occurrences, v \in Verdicts : o >= nextRun => said[o][v] = 0

IInv == TypeOK /\ PassIsDue /\ NotToldBefore /\ SaidOnce

\* While the row is as it was: a pass is of the schedule's turn or an earlier
\* one.  An occurrence the schedule has passed has its task, or was dropped, or
\* was collapsed into one before it and is nobody's to make.  And the one a
\* pass makes, or that is made, comes after others that are over.
NobodyMakes(k) == \A w \in Workers : ~At(w, "none") => pass[w].occ # k
Over(k) == Dropped(k) \/ task[k] = "ended" \/ (task[k] = "none" /\ NobodyMakes(k))

PassedOrMade ==
    /\ \A k \in Occurrences : k < nextRun => Dropped(k) \/ task[k] # "none" \/ NobodyMakes(k)
    /\ \A o \in Occurrences : task[o] # "none" => o <= nextRun
    /\ \A w \in Workers : ~At(w, "none") => pass[w].occ <= nextRun /\ pass[w].policy = overlap

OneAfterAnother ==
    /\ \A w \in Workers, k \in Occurrences :
          pass[w].at \in {"creating", "created"} /\ k < pass[w].occ => Over(k)
    /\ \A o, k \in Occurrences : task[o] # "none" /\ k < o => Over(k)

InTurn == edits = 0 => PassedOrMade /\ (overlap # "allow" => OneAfterAnother)

LEMMA InitIInv == Init => IInv /\ InTurn
<1> SUFFICES ASSUME Init PROVE IInv /\ InTurn
  OBVIOUS
<1>1. 0 \in 0 .. MaxTime /\ NextOccurrence(0) > 0 /\ NextOccurrence(0) \in Nat
  <2>1. 0 \in 0 .. MaxTime
    BY SchedulerAssumption
  <2> QED BY <2>1, NextIsLater, OccurrencesAreTimes
<1>2. TypeOK
  <2>1. NoPass \in PassType
    BY OccurrencesAreTimes, SchedulerAssumption DEF NoPass, PassType, Policies
  <2>2. pass \in [Workers -> PassType]
    BY <2>1 DEF Init
  <2>3. said \in [Occurrences -> [Verdicts -> Nat]]
    BY DEF Init
  <2>4. {windowed, enabled, frozen, refused} \subseteq BOOLEAN
    BY DEF Init
  <2>5. task \in [Occurrences -> {"none", "live", "ended"}] /\ {edits, upsets} \subseteq 0 .. MaxUpsets
    BY SchedulerAssumption DEF Init
  <2> QED BY <1>1, <2>2, <2>3, <2>4, <2>5, OccurrencesAreTimes DEF Init, TypeOK
<1>3. PassIsDue
  BY DEF Init, PassIsDue, At, NoPass
<1>4. NotToldBefore
  <2>1. now = 0 /\ nextRun = 0
    BY DEF Init
  <2>2. nextRun <= NextOccurrence(now)
    BY <1>1, <2>1
  <2>3. \A o \in Occurrences, v \in Verdicts : said[o][v] = 0
    BY DEF Init
  <2> QED BY <2>2, <2>3 DEF NotToldBefore
<1>5. SaidOnce
  BY DEF Init, SaidOnce
<1>6. InTurn
  BY OccurrencesAreTimes DEF Init, InTurn, PassedOrMade, OneAfterAnother, At, NoPass
<1> QED BY <1>2, <1>3, <1>4, <1>5, <1>6 DEF IInv

\* A pass that ends by moving the schedule on, if it is still its turn.
LEMMA MoveOnKeeps ==
    ASSUME IInv, NEW w \in Workers, NEW v \in Verdicts, ~At(w, "none"),
           MoveOn(w, v), Stop(w), UNCHANGED <<now, company, tasks, press, bounds>>
    PROVE  /\ IInv'
           /\ nextRun' >= nextRun
           /\ nextRun' # nextRun => nextRun = pass[w].occ /\ said'[nextRun][v] = 1
           /\ \A o \in Occurrences, u \in Verdicts : said'[o][u] >= said[o][u]
<1> DEFINE p == pass[w]
<1>1. /\ p.occ \in Occurrences /\ p.when \in 0 .. MaxTime /\ now \in 0 .. MaxTime
      /\ nextRun \in Occurrences /\ said \in [Occurrences -> [Verdicts -> Nat]]
      /\ p.occ <= p.when /\ p.when <= now /\ NoPass \in PassType
  BY OccurrencesAreTimes, SchedulerAssumption
     DEF IInv, TypeOK, PassType, PassIsDue, NoPass, Policies
<1>2. /\ NextOccurrence(p.when) \in Occurrences /\ NextOccurrence(p.when) > p.when
      /\ NextOccurrence(p.when) <= NextOccurrence(now)
  BY <1>1, NextIsLater, NextGoesOn
<1>3. \/ nextRun = p.occ /\ nextRun' = NextOccurrence(p.when) /\ Tell(p.occ, v)
      \/ UNCHANGED <<nextRun, said>>
  BY DEF MoveOn
<1>4. said' \in [Occurrences -> [Verdicts -> Nat]] /\ nextRun' \in Occurrences
  BY <1>1, <1>2, <1>3 DEF Tell
<1>5. TypeOK'
  BY <1>1, <1>4 DEF IInv, TypeOK, MoveOn, Stop, company, tasks, bounds
<1>6. PassIsDue'
  BY <1>1 DEF IInv, TypeOK, PassIsDue, Stop, At, NoPass, company, tasks
<1>7. \A u \in Verdicts : nextRun = p.occ => said[p.occ][u] = 0
  BY <1>1, OccurrencesAreTimes DEF IInv, NotToldBefore
<1>8. NotToldBefore'
  <2>1. CASE nextRun = p.occ /\ nextRun' = NextOccurrence(p.when) /\ Tell(p.occ, v)
    <3>1. ASSUME NEW o \in Occurrences, NEW u \in Verdicts, o >= nextRun'
          PROVE  said'[o][u] = 0
      <4>1. o # p.occ /\ o >= nextRun
        BY <1>1, <1>2, <2>1, <3>1, OccurrencesAreTimes
      <4> QED BY <1>1, <2>1, <4>1 DEF Tell, IInv, NotToldBefore
    <3>2. nextRun' <= NextOccurrence(now')
      BY <1>2, <2>1
    <3> QED BY <3>1, <3>2 DEF NotToldBefore
  <2>2. CASE UNCHANGED <<nextRun, said>>
    BY <2>2 DEF IInv, NotToldBefore, NextOccurrence
  <2> QED BY <1>3, <2>1, <2>2
<1>9. SaidOnce'
  <2>1. CASE nextRun = p.occ /\ nextRun' = NextOccurrence(p.when) /\ Tell(p.occ, v)
    <3>1. ASSUME NEW u \in Verdicts
          PROVE  said'[p.occ][u] = IF u = v THEN 1 ELSE 0
      BY <1>1, <1>7, <2>1 DEF Tell
    <3>2. \A o \in Occurrences : o # p.occ => said'[o] = said[o]
      BY <1>1, <2>1 DEF Tell
    <3> QED BY <1>1, <3>1, <3>2 DEF IInv, SaidOnce
  <2>2. CASE UNCHANGED <<nextRun, said>>
    BY <2>2 DEF IInv, SaidOnce
  <2> QED BY <1>3, <2>1, <2>2
<1>10. nextRun' >= nextRun
  <2>1. nextRun' \in {nextRun, NextOccurrence(p.when)}
    BY <1>3
  <2>2. nextRun' = nextRun \/ nextRun = p.occ
    BY <1>3
  <2> QED BY <1>1, <1>2, <2>1, <2>2, OccurrencesAreTimes
<1>11. nextRun' # nextRun => nextRun = p.occ /\ said'[nextRun][v] = 1
  BY <1>1, <1>3, <1>7 DEF Tell
<1>12. \A o \in Occurrences, u \in Verdicts : said'[o][u] >= said[o][u]
  BY <1>1, <1>3 DEF Tell
<1> QED BY <1>5, <1>6, <1>8, <1>9, <1>10, <1>11, <1>12 DEF IInv

\* A step that leaves the schedule's turn and what was told alone.
LEMMA TurnStays ==
    ASSUME IInv, UNCHANGED <<nextRun, said, now>>
    PROVE  NotToldBefore' /\ SaidOnce'
  BY DEF IInv, NotToldBefore, SaidOnce, NextOccurrence

\* The owner sets the schedule to its next time from now.
LEMMA SetFromNow ==
    ASSUME IInv, nextRun' \in {nextRun, NextOccurrence(now)}, UNCHANGED <<now, said>>
    PROVE  nextRun' \in Occurrences /\ NotToldBefore' /\ SaidOnce'
<1>1. now \in 0 .. MaxTime /\ nextRun \in Occurrences /\ nextRun <= NextOccurrence(now)
  BY DEF IInv, TypeOK, NotToldBefore
<1>2. NextOccurrence(now) \in Occurrences
  BY <1>1, NextIsLater
<1>3. nextRun' <= NextOccurrence(now') /\ nextRun' >= nextRun
  BY <1>1, <1>2, OccurrencesAreTimes DEF NextOccurrence
<1>4. NotToldBefore'
  BY <1>1, <1>2, <1>3, OccurrencesAreTimes DEF IInv, NotToldBefore
<1> QED BY <1>1, <1>2, <1>4 DEF IInv, SaidOnce

-----------------------------------------------------------------------------
(* One step.                                                               *)

LEMMA ScanKeeps ==
    ASSUME IInv, NEW w \in Workers, Scan(w)
    PROVE  IInv'
<1>1. NotToldBefore' /\ SaidOnce'
  BY TurnStays DEF Scan, row
<1>2. TypeOK'
  BY DEF Scan, IInv, TypeOK, PassType, company, row, tasks, bounds, SchedulerAssumption
<1>3. PassIsDue'
  BY OccurrencesAreTimes DEF Scan, IInv, TypeOK, PassIsDue, At, company, row, tasks
<1> QED BY <1>1, <1>2, <1>3 DEF IInv

LEMMA JudgeKeeps ==
    ASSUME IInv, NEW w \in Workers, Judge(w)
    PROVE  IInv'
<1>1. NotToldBefore' /\ SaidOnce'
  BY TurnStays DEF Judge, row
<1>2. NoPass \in PassType
  BY OccurrencesAreTimes, SchedulerAssumption DEF NoPass, PassType, Policies
<1>3. \/ \E why \in {"missed", "skipped"} :
            pass' = [pass EXCEPT ![w].at = "dropping", ![w].why = why]
      \/ pass' = [pass EXCEPT ![w].at = "creating"]
      \/ pass' = [pass EXCEPT ![w] = NoPass]
  BY DEF Judge, Enter, Stop
<1>4. pass \in [Workers -> PassType] /\ pass[w] \in PassType
  BY DEF IInv, TypeOK
<1>5. /\ pass' \in [Workers -> PassType]
      /\ \A u \in Workers \ {w} : pass'[u] = pass[u]
      /\ \/ pass'[w].at = "none"
         \/ /\ pass'[w].occ = pass[w].occ /\ pass'[w].when = pass[w].when
            /\ pass'[w].at \in {"creating", "dropping"}
            /\ pass'[w].at = "dropping" => pass'[w].why # "none"
  <2>1. ASSUME NEW why \in {"missed", "skipped"},
               pass' = [pass EXCEPT ![w].at = "dropping", ![w].why = why]
        PROVE  /\ pass' \in [Workers -> PassType]
               /\ pass'[w].occ = pass[w].occ /\ pass'[w].when = pass[w].when
               /\ pass'[w].at = "dropping" /\ pass'[w].why # "none"
    BY <1>4, <2>1 DEF PassType
  <2>2. CASE pass' = [pass EXCEPT ![w].at = "creating"]
    BY <1>4, <2>2 DEF PassType
  <2>3. CASE pass' = [pass EXCEPT ![w] = NoPass]
    BY <1>2, <1>4, <2>3 DEF NoPass
  <2> QED BY <1>3, <1>4, <2>1, <2>2, <2>3
<1>6. TypeOK'
  BY <1>5 DEF Judge, IInv, TypeOK, company, row, tasks, bounds
<1>7. PassIsDue'
  <2>1. ~At(w, "none") /\ UNCHANGED <<now, task>>
    BY DEF Judge, At, tasks
  <2> QED BY <1>4, <1>5, <2>1 DEF IInv, PassIsDue, At
<1> QED BY <1>1, <1>6, <1>7 DEF IInv

LEMMA CreateKeeps ==
    ASSUME IInv, NEW w \in Workers, Create(w)
    PROVE  IInv'
<1>1. NotToldBefore' /\ SaidOnce'
  BY TurnStays DEF Create, row
<1>2. pass[w] \in PassType
  BY DEF IInv, TypeOK
<1>3. /\ task' \in [Occurrences -> {"none", "live", "ended"}]
      /\ \A o \in Occurrences : task[o] # "none" => task'[o] # "none"
      /\ task'[pass[w].occ] # "none"
  BY <1>2 DEF Create, IInv, TypeOK, PassType
<1>4. TypeOK'
  <2>1. pass' \in [Workers -> PassType]
    BY <1>2 DEF Create, Enter, IInv, TypeOK, PassType
  <2> QED BY <1>3, <2>1 DEF Create, IInv, TypeOK, company, row, bounds
<1>5. PassIsDue'
  BY <1>3 DEF Create, Enter, IInv, TypeOK, PassType, PassIsDue, At
<1> QED BY <1>1, <1>4, <1>5 DEF IInv

\* A pass that ends without moving the schedule.
LEMMA StopKeeps ==
    ASSUME IInv, NEW w \in Workers, CannotCreate(w) \/ Crash(w)
    PROVE  IInv'
<1>1. NotToldBefore' /\ SaidOnce'
  BY TurnStays DEF CannotCreate, Crash, row
<1>2. NoPass \in PassType
  BY OccurrencesAreTimes, SchedulerAssumption DEF NoPass, PassType, Policies
<1>3. pass' \in [Workers -> PassType]
  BY <1>2 DEF CannotCreate, Crash, Stop, IInv, TypeOK
<1>4. upsets' \in 0 .. MaxUpsets /\ edits' = edits
  <2>1. edits' = edits /\ (upsets' = upsets \/ (Room /\ upsets' = upsets + 1))
    BY DEF CannotCreate, Crash, bounds
  <2> QED BY <2>1, SchedulerAssumption DEF Room, IInv, TypeOK
<1>5. enabled' \in BOOLEAN
  BY DEF CannotCreate, Crash, IInv, TypeOK, company, row
<1>6. TypeOK'
  BY <1>3, <1>4, <1>5 DEF CannotCreate, Crash, IInv, TypeOK, company, row, tasks
<1>7. PassIsDue'
  <2>1. pass' = [pass EXCEPT ![w] = NoPass] /\ UNCHANGED <<now, task>>
    BY DEF CannotCreate, Crash, Stop, tasks
  <2> QED BY <2>1 DEF IInv, TypeOK, PassIsDue, At, NoPass
<1> QED BY <1>1, <1>6, <1>7 DEF IInv

LEMMA OwnerKeeps ==
    ASSUME IInv, OwnerNext
    PROVE  IInv'
<1>1. CASE RunNow \/ RunNowCreates
  <2>1. NotToldBefore' /\ SaidOnce'
    BY <1>1, TurnStays DEF RunNow, RunNowCreates, row
  <2>2. TypeOK'
    BY <1>1, SchedulerAssumption DEF RunNow, RunNowCreates, Room, IInv, TypeOK, company, row, tasks, bounds
  <2>3. PassIsDue'
    BY <1>1 DEF RunNow, RunNowCreates, IInv, PassIsDue, At, tasks
  <2> QED BY <2>1, <2>2, <2>3 DEF IInv
<1>2. CASE Save \/ \E on \in BOOLEAN : Turn(on)
  <2>1. nextRun' \in {nextRun, NextOccurrence(now)} /\ UNCHANGED <<now, said>>
    BY <1>2 DEF Save, Turn
  <2>2. nextRun' \in Occurrences /\ NotToldBefore' /\ SaidOnce'
    BY <2>1, SetFromNow
  <2>3. overlap' \in Policies /\ {windowed', enabled', frozen', refused'} \subseteq BOOLEAN
    BY <1>2 DEF Save, Turn, company, IInv, TypeOK
  <2>4. {edits', upsets'} \subseteq 0 .. MaxUpsets
    BY <1>2, SchedulerAssumption DEF Save, Turn, Room, IInv, TypeOK
  <2>5. UNCHANGED <<now, tasks, pass, press, said>>
    BY <1>2 DEF Save, Turn
  <2>6. TypeOK'
    BY <2>2, <2>3, <2>4, <2>5 DEF IInv, TypeOK, company, tasks
  <2>7. PassIsDue'
    BY <2>5 DEF IInv, PassIsDue, At, tasks
  <2> QED BY <2>2, <2>6, <2>7 DEF IInv
<1>3. CASE \E on \in BOOLEAN : Freeze(on)
  <2>1. NotToldBefore' /\ SaidOnce'
    BY <1>3, TurnStays DEF Freeze, row
  <2>2. {edits', upsets'} \subseteq 0 .. MaxUpsets /\ frozen' \in BOOLEAN
    BY <1>3, SchedulerAssumption DEF Freeze, Room, IInv, TypeOK
  <2>3. TypeOK'
    BY <1>3, <2>2 DEF Freeze, IInv, TypeOK, company, row, tasks
  <2>4. PassIsDue'
    BY <1>3 DEF Freeze, IInv, PassIsDue, At, tasks
  <2> QED BY <2>1, <2>3, <2>4 DEF IInv
<1> QED BY <1>1, <1>2, <1>3 DEF OwnerNext

LEMMA EndTaskKeeps ==
    ASSUME IInv, EndTask
    PROVE  IInv'
<1>1. NotToldBefore' /\ SaidOnce'
  BY TurnStays DEF EndTask, row
<1>2. /\ task' \in [Occurrences -> {"none", "live", "ended"}] /\ ownerTask' \in {"none", "live", "ended"}
      /\ \A o \in Occurrences : task[o] # "none" => task'[o] # "none"
  BY DEF EndTask, IInv, TypeOK
<1>3. TypeOK'
  BY <1>2 DEF EndTask, IInv, TypeOK, company, row, bounds
<1>4. PassIsDue'
  BY <1>2 DEF EndTask, IInv, TypeOK, PassType, PassIsDue, At
<1> QED BY <1>1, <1>3, <1>4 DEF IInv

LEMMA RefusalKeeps ==
    ASSUME IInv, RefusalChanges
    PROVE  IInv'
<1>1. NotToldBefore' /\ SaidOnce'
  BY TurnStays DEF RefusalChanges, row
<1>2. TypeOK'
  BY DEF RefusalChanges, IInv, TypeOK, row, tasks, bounds
<1>3. PassIsDue'
  BY DEF RefusalChanges, IInv, PassIsDue, At, tasks
<1> QED BY <1>1, <1>2, <1>3 DEF IInv

LEMMA TickKeeps ==
    ASSUME IInv, Tick
    PROVE  IInv'
<1>1. now \in 0 .. MaxTime /\ now' \in 0 .. MaxTime /\ now <= now'
  BY SchedulerAssumption DEF Tick, IInv, TypeOK
<1>2. /\ NextOccurrence(now) <= NextOccurrence(now')
      /\ {NextOccurrence(now), NextOccurrence(now')} \subseteq Nat
  BY <1>1, NextGoesOn, NextIsLater, OccurrencesAreTimes
<1>3. NotToldBefore'
  <2>1. nextRun' = nextRun /\ said' = said /\ nextRun \in Nat
    BY OccurrencesAreTimes DEF Tick, company, row, IInv, TypeOK
  <2>2. nextRun' <= NextOccurrence(now')
    BY <1>2, <2>1 DEF IInv, NotToldBefore
  <2> QED BY <2>1, <2>2 DEF IInv, NotToldBefore
<1>4. TypeOK'
  BY <1>1 DEF Tick, IInv, TypeOK, company, row, tasks, bounds
<1>5. SaidOnce'
  BY DEF Tick, IInv, SaidOnce
<1>6. PassIsDue'
  BY <1>1 DEF Tick, IInv, TypeOK, PassType, PassIsDue, At, company, tasks
<1> QED BY <1>3, <1>4, <1>5, <1>6 DEF IInv

\* Drop, PassOver and Advance are ways to move on.
LEMMA MovesOn ==
    ASSUME IInv, NEW w \in Workers, Drop(w) \/ PassOver(w) \/ Advance(w)
    PROVE  \E v \in Verdicts :
              /\ MoveOn(w, v) /\ Stop(w) /\ ~At(w, "none")
              /\ v = "fired" => At(w, "created")
              /\ UNCHANGED <<now, company, tasks, press, bounds>>
<1>1. CASE Drop(w)
  <2>1. pass[w].why \in Verdicts \ {"fired"}
    BY <1>1 DEF Drop, IInv, TypeOK, PassType, PassIsDue, At, Verdicts
  <2> QED BY <1>1, <2>1 DEF Drop, At
<1>2. CASE PassOver(w)
  BY <1>2 DEF PassOver, At, Verdicts
<1>3. CASE Advance(w)
  BY <1>3 DEF Advance, At, Verdicts
<1> QED BY <1>1, <1>2, <1>3

LEMMA NextKeeps == IInv /\ [Next]_vars => IInv'
<1> SUFFICES ASSUME IInv, [Next]_vars PROVE IInv'
  OBVIOUS
<1>1. ASSUME NEW w \in Workers, Drop(w) \/ PassOver(w) \/ Advance(w)
      PROVE  IInv'
  BY <1>1, MovesOn, MoveOnKeeps
<1>2. ASSUME NEW w \in Workers, PassNext(w) \/ Crash(w)
      PROVE  IInv'
  BY <1>1, <1>2, ScanKeeps, JudgeKeeps, CreateKeeps, StopKeeps DEF PassNext
<1>3. CASE UNCHANGED vars
  <2>1. NotToldBefore' /\ SaidOnce'
    BY <1>3, TurnStays DEF vars, row
  <2>2. TypeOK' /\ PassIsDue'
    BY <1>3 DEF vars, company, row, tasks, bounds, IInv, TypeOK, PassIsDue, At
  <2> QED BY <2>1, <2>2 DEF IInv
<1> QED BY <1>2, <1>3, OwnerKeeps, RefusalKeeps, EndTaskKeeps, TickKeeps DEF Next

-----------------------------------------------------------------------------
(* One occurrence after another.                                           *)

\* What no step undoes.
Onward ==
    /\ edits' >= edits /\ nextRun' >= nextRun
    /\ \A o \in Occurrences : /\ Dropped(o) => Dropped(o)'
                              /\ task[o] # "none" => task'[o] # "none"
                              /\ task[o] = "ended" => task'[o] = "ended"

\* What is over stays over, for a pass only ever begins with the occurrence
\* whose turn it is.
LEMMA OverStays ==
    ASSUME IInv, Onward, NEW k \in Occurrences, Over(k),
           \A o \in Occurrences : task[o] = "none" /\ task'[o] # "none" =>
               \E w \in Workers : ~At(w, "none") /\ pass[w].occ = o,
           \A w \in Workers : ~At(w, "none")' =>
               \/ ~At(w, "none") /\ pass'[w].occ = pass[w].occ
               \/ pass'[w].occ # k
    PROVE  Over(k)'
<1>1. CASE Dropped(k) \/ task[k] = "ended"
  BY <1>1 DEF Over, Onward
<1>2. CASE task[k] = "none" /\ NobodyMakes(k)
  <2>1. task'[k] = "none"
    BY <1>2 DEF NobodyMakes
  <2>2. NobodyMakes(k)'
    BY <1>2 DEF NobodyMakes
  <2> QED BY <2>1, <2>2 DEF Over
<1> QED BY <1>1, <1>2 DEF Over

\* The passes of a step that keep their occurrence, and those it ends.
Kept(w) == pass'[w].occ = pass[w].occ /\ pass'[w].policy = pass[w].policy

\* The schedule stays where it is and no task is made.
LEMMA QuietKeepsTurn ==
    ASSUME IInv, PassedOrMade, Onward, nextRun' = nextRun, overlap' = overlap,
           overlap # "allow" => OneAfterAnother,
           \A o \in Occurrences : task'[o] # "none" => task[o] # "none",
           \A w \in Workers : ~At(w, "none")' => ~At(w, "none") /\ Kept(w),
           \A w \in Workers : pass'[w].at \in {"creating", "created"} =>
               \/ pass[w].at \in {"creating", "created"}
               \/ overlap = "allow"
               \/ \A k \in Occurrences : k < pass[w].occ => Over(k)
    PROVE  PassedOrMade' /\ (overlap' # "allow" => OneAfterAnother')
<1>1. ASSUME NEW k \in Occurrences, Over(k)
      PROVE  Over(k)'
  BY <1>1, OverStays DEF Kept
<1>2. PassedOrMade'
  <2>1. ASSUME NEW k \in Occurrences, k < nextRun'
        PROVE  (Dropped(k) \/ task[k] # "none" \/ NobodyMakes(k))'
    <3>1. Dropped(k) \/ task[k] # "none" \/ NobodyMakes(k)
      BY <2>1 DEF PassedOrMade
    <3>2. NobodyMakes(k) => NobodyMakes(k)'
      BY DEF NobodyMakes, Kept
    <3> QED BY <3>1, <3>2 DEF Onward
  <2> QED BY <2>1 DEF PassedOrMade, Kept
<1>3. overlap' # "allow" => OneAfterAnother'
  <2> SUFFICES ASSUME overlap # "allow" PROVE OneAfterAnother'
    OBVIOUS
  <2>1. ASSUME NEW w \in Workers, NEW k \in Occurrences,
               pass'[w].at \in {"creating", "created"}, k < pass'[w].occ
        PROVE  Over(k)'
    <3>1. pass'[w].occ = pass[w].occ
      BY <2>1 DEF At, Kept
    <3>2. Over(k)
      BY <2>1, <3>1 DEF OneAfterAnother
    <3> QED BY <1>1, <3>2
  <2>2. ASSUME NEW o \in Occurrences, NEW k \in Occurrences, task'[o] # "none", k < o
        PROVE  Over(k)'
    BY <1>1, <2>2 DEF OneAfterAnother
  <2> QED BY <2>1, <2>2 DEF OneAfterAnother
<1> QED BY <1>2, <1>3

LEMMA ScanKeepsTurn ==
    ASSUME IInv, PassedOrMade, overlap # "allow" => OneAfterAnother, NEW w \in Workers, Scan(w)
    PROVE  PassedOrMade' /\ (overlap' # "allow" => OneAfterAnother')
<1>1. /\ UNCHANGED <<nextRun, overlap, task, said, edits>> /\ nextRun \in Nat
      /\ At(w, "none") /\ pass'[w].occ = nextRun /\ pass'[w].policy = overlap /\ pass'[w].at = "scanned"
      /\ \A v \in Workers \ {w} : pass'[v] = pass[v]
  BY OccurrencesAreTimes DEF Scan, company, row, tasks, bounds, IInv, TypeOK
<1>2. Occurrences \subseteq Int
  BY OccurrencesAreTimes
<1>3. ASSUME NEW k \in Occurrences, k < nextRun, NobodyMakes(k)
      PROVE  NobodyMakes(k)'
  BY <1>1, <1>2, <1>3 DEF NobodyMakes, At
<1>4. ASSUME NEW k \in Occurrences, k < nextRun, Over(k)
      PROVE  Over(k)'
  BY <1>1, <1>3, <1>4 DEF Over, Dropped
<1>5. PassedOrMade'
  <2>1. ASSUME NEW k \in Occurrences, k < nextRun'
        PROVE  (Dropped(k) \/ task[k] # "none" \/ NobodyMakes(k))'
    BY <1>1, <1>3, <2>1 DEF PassedOrMade, Dropped
  <2>2. ASSUME NEW o \in Occurrences, task'[o] # "none"
        PROVE  o <= nextRun'
    BY <1>1, <2>2 DEF PassedOrMade
  <2>3. ASSUME NEW v \in Workers, pass'[v].at # "none"
        PROVE  pass'[v].occ <= nextRun' /\ pass'[v].policy = overlap'
    <3>1. CASE v = w
      BY <1>1, <3>1
    <3>2. CASE v # w
      BY <1>1, <2>3, <3>2 DEF PassedOrMade, At
    <3> QED BY <3>1, <3>2
  <2> QED BY <2>1, <2>2, <2>3 DEF PassedOrMade, At
<1>6. overlap' # "allow" => OneAfterAnother'
  <2> SUFFICES ASSUME overlap # "allow" PROVE OneAfterAnother'
    BY <1>1
  <2>1. ASSUME NEW v \in Workers, NEW k \in Occurrences,
               pass'[v].at \in {"creating", "created"}, k < pass'[v].occ
        PROVE  Over(k)'
    <3>1. v # w /\ pass'[v] = pass[v]
      BY <1>1, <2>1
    <3>2. pass[v].occ <= nextRun /\ pass[v].occ \in Int
      BY <1>2, <2>1, <3>1 DEF PassedOrMade, At, IInv, TypeOK, PassType
    <3>3. k < nextRun /\ Over(k)
      BY <1>1, <1>2, <2>1, <3>1, <3>2 DEF OneAfterAnother
    <3> QED BY <1>4, <3>3
  <2>2. ASSUME NEW o \in Occurrences, NEW k \in Occurrences, task'[o] # "none", k < o
        PROVE  Over(k)'
    <3>1. k < nextRun /\ Over(k)
      BY <1>1, <1>2, <2>2 DEF OneAfterAnother, PassedOrMade
    <3> QED BY <1>4, <3>1
  <2> QED BY <2>1, <2>2 DEF OneAfterAnother
<1> QED BY <1>5, <1>6

\* A pass goes on to make its task only when every earlier one is over.
LEMMA JudgeKeepsTurn ==
    ASSUME IInv, PassedOrMade, overlap # "allow" => OneAfterAnother, NEW w \in Workers, Judge(w)
    PROVE  PassedOrMade' /\ (overlap' # "allow" => OneAfterAnother')
<1>1. UNCHANGED <<nextRun, overlap, task, said, edits>> /\ At(w, "scanned")
  BY DEF Judge, row, tasks, bounds
<1>2. pass \in [Workers -> PassType] /\ edits \in Nat /\ nextRun \in Nat
  BY OccurrencesAreTimes, SchedulerAssumption DEF IInv, TypeOK
<1>3. Onward
  BY <1>1, <1>2 DEF Onward, Dropped
<1>4. \A v \in Workers : ~At(v, "none")' => ~At(v, "none") /\ Kept(v)
  BY <1>2, NoPass.at = "none" DEF Judge, Enter, Stop, At, Kept, PassType, NoPass
<1>5. ASSUME NEW v \in Workers, pass'[v].at \in {"creating", "created"},
             pass[v].at \notin {"creating", "created"}, overlap # "allow",
             NEW k \in Occurrences, k < pass[v].occ
      PROVE  Over(k)
  <2>1. v = w
    BY <1>2, <1>5 DEF Judge, Enter, Stop
  <2>2. LiveBeside(pass[w].occ) = {}
    <3>1. pass[w].policy = overlap
      BY <1>1 DEF PassedOrMade, At
    <3>2. ASSUME LiveBeside(pass[w].occ) # {}
          PROVE  \/ \E why \in {"missed", "skipped"} :
                       pass' = [pass EXCEPT ![w].at = "dropping", ![w].why = why]
                 \/ pass' = [pass EXCEPT ![w] = NoPass]
      BY <1>5, <3>1, <3>2 DEF Judge, Enter, Stop
    <3>3. ASSUME LiveBeside(pass[w].occ) # {}
          PROVE  pass'[w].at \in {"dropping", "none"}
      BY <1>2, <3>2, <3>3 DEF PassType, NoPass
    <3> QED BY <1>5, <2>1, <3>3
  <2>3. k < nextRun /\ task[k] # "live"
    <3>1. pass[w].occ \in Nat /\ k \in Nat /\ pass[w].occ <= nextRun /\ k < pass[w].occ
      BY <1>1, <1>2, <1>5, <2>1, OccurrencesAreTimes DEF PassedOrMade, At, PassType
    <3>2. k # pass[w].occ
      BY <3>1
    <3> QED BY <1>2, <2>2, <3>1, <3>2 DEF LiveBeside
  <2> QED BY <2>3 DEF PassedOrMade, Over, IInv, TypeOK
<1> QED BY <1>1, <1>3, <1>4, <1>5, QuietKeepsTurn

\* What a pass makes comes after others that are over.
LEMMA CreateKeepsTurn ==
    ASSUME IInv, PassedOrMade, overlap # "allow" => OneAfterAnother, NEW w \in Workers, Create(w)
    PROVE  PassedOrMade' /\ (overlap' # "allow" => OneAfterAnother')
<1> DEFINE occ == pass[w].occ
<1>1. /\ UNCHANGED <<nextRun, overlap, said, edits>> /\ At(w, "creating")
      /\ pass \in [Workers -> PassType] /\ occ \in Occurrences
      /\ edits \in Nat /\ nextRun \in Nat /\ occ <= nextRun
  BY OccurrencesAreTimes, SchedulerAssumption
     DEF Create, company, row, bounds, IInv, TypeOK, PassType, PassedOrMade, At
<1>2. \A v \in Workers : /\ Kept(v)
                         /\ pass'[v].at = IF v = w THEN "created" ELSE pass[v].at
  BY <1>1 DEF Create, Enter, PassType, Kept
<1>3. /\ \A o \in Occurrences : o # occ => task'[o] = task[o]
      /\ task'[occ] = IF task[occ] = "none" THEN "live" ELSE task[occ]
  BY <1>1 DEF Create, IInv, TypeOK
<1>4. Onward
  BY <1>1, <1>3 DEF Onward, Dropped
<1>5. ASSUME NEW k \in Occurrences, Over(k)
      PROVE  Over(k)'
  <2>1. \A v \in Workers : ~At(v, "none")' => ~At(v, "none") /\ pass'[v].occ = pass[v].occ
    BY <1>1, <1>2 DEF At, Kept
  <2>2. \A o \in Occurrences : task[o] = "none" /\ task'[o] # "none" =>
            \E v \in Workers : ~At(v, "none") /\ pass[v].occ = o
    BY <1>1, <1>3 DEF At
  <2> QED BY <1>4, <1>5, <2>1, <2>2, OverStays
<1>6. PassedOrMade'
  <2>1. ASSUME NEW k \in Occurrences, k < nextRun'
        PROVE  (Dropped(k) \/ task[k] # "none" \/ NobodyMakes(k))'
    <3>1. NobodyMakes(k) => NobodyMakes(k)'
      BY <1>1, <1>2 DEF NobodyMakes, At, Kept
    <3> QED BY <1>1, <1>4, <2>1, <3>1 DEF PassedOrMade, Onward
  <2>2. ASSUME NEW o \in Occurrences, task'[o] # "none"
        PROVE  o <= nextRun'
    BY <1>1, <1>3, <2>2 DEF PassedOrMade
  <2>3. ASSUME NEW v \in Workers, pass'[v].at # "none"
        PROVE  pass'[v].occ <= nextRun' /\ pass'[v].policy = overlap'
    BY <1>1, <1>2, <2>3 DEF PassedOrMade, At, Kept
  <2> QED BY <2>1, <2>2, <2>3 DEF PassedOrMade, At
<1>7. overlap' # "allow" => OneAfterAnother'
  <2> SUFFICES ASSUME overlap # "allow" PROVE OneAfterAnother'
    BY <1>1
  <2>1. ASSUME NEW v \in Workers, NEW k \in Occurrences,
               pass'[v].at \in {"creating", "created"}, k < pass'[v].occ
        PROVE  Over(k)'
    <3>1. Over(k)
      BY <1>1, <1>2, <2>1 DEF OneAfterAnother, At, Kept
    <3> QED BY <1>5, <3>1
  <2>2. ASSUME NEW o \in Occurrences, NEW k \in Occurrences, task'[o] # "none", k < o
        PROVE  Over(k)'
    <3>1. Over(k)
      BY <1>1, <1>3, <2>2 DEF OneAfterAnother, At
    <3> QED BY <1>5, <3>1
  <2> QED BY <2>1, <2>2 DEF OneAfterAnother
<1> QED BY <1>6, <1>7

\* What the schedule moves past was made or dropped, or nobody has begun it.
LEMMA MoveOnKeepsTurn ==
    ASSUME IInv, PassedOrMade, overlap # "allow" => OneAfterAnother,
           NEW w \in Workers, Drop(w) \/ PassOver(w) \/ Advance(w)
    PROVE  PassedOrMade' /\ (overlap' # "allow" => OneAfterAnother')
<1>1. PICK v \in Verdicts :
              /\ MoveOn(w, v) /\ Stop(w) /\ ~At(w, "none")
              /\ v = "fired" => At(w, "created")
              /\ UNCHANGED <<now, company, tasks, press, bounds>>
  BY MovesOn
<1>2. /\ nextRun' >= nextRun
      /\ nextRun' # nextRun => nextRun = pass[w].occ /\ said'[nextRun][v] = 1
      /\ \A o \in Occurrences, u \in Verdicts : said'[o][u] >= said[o][u]
      /\ IInv'
  BY <1>1, MoveOnKeeps
<1>3. /\ UNCHANGED <<overlap, task, edits>> /\ edits \in Nat
      /\ nextRun \in Occurrences /\ nextRun' \in Occurrences /\ pass \in [Workers -> PassType]
      /\ said \in [Occurrences -> [Verdicts -> Nat]] /\ said' \in [Occurrences -> [Verdicts -> Nat]]
  BY <1>1, <1>2, SchedulerAssumption DEF MoveOn, company, tasks, bounds, IInv, TypeOK
<1>4. Onward
  BY <1>2, <1>3, OccurrencesAreTimes DEF Onward, Dropped
<1>5. \A u \in Workers : ~At(u, "none")' => ~At(u, "none") /\ pass'[u] = pass[u]
  BY <1>1, <1>3, NoPass.at = "none" DEF Stop, At, NoPass
<1>6. ASSUME NEW k \in Occurrences, NobodyMakes(k)
      PROVE  NobodyMakes(k)'
  BY <1>5, <1>6 DEF NobodyMakes
<1>7. ASSUME NEW k \in Occurrences, Over(k)
      PROVE  Over(k)'
  BY <1>3, <1>4, <1>6, <1>7 DEF Over, Onward
<1>8. ASSUME NEW k \in Occurrences, k < nextRun'
      PROVE  (Dropped(k) \/ task[k] # "none" \/ NobodyMakes(k))'
  <2>1. CASE k < nextRun
    BY <1>4, <1>6, <2>1 DEF PassedOrMade, Onward
  <2>2. CASE nextRun <= k
    <3>1. nextRun = pass[w].occ /\ said'[nextRun][v] = 1
      BY <1>2, <1>3, <1>8, <2>2, OccurrencesAreTimes
    <3>2. CASE k = nextRun /\ v = "fired"
      BY <1>1, <1>3, <3>1, <3>2 DEF IInv, PassIsDue
    <3>3. CASE k = nextRun /\ v # "fired"
      BY <3>1, <3>3 DEF Dropped
    <3>4. CASE k # nextRun
      <4>1. \A u \in Workers : ~At(u, "none") => pass[u].occ <= nextRun
        BY DEF PassedOrMade
      <4>2. NobodyMakes(k)
        BY <1>3, <2>2, <3>4, <4>1, OccurrencesAreTimes DEF NobodyMakes, PassType
      <4> QED BY <1>6, <4>2
    <3> QED BY <3>2, <3>3, <3>4
  <2> QED BY <1>3, <2>1, <2>2, OccurrencesAreTimes
<1>9. PassedOrMade'
  <2>1. ASSUME NEW o \in Occurrences, task'[o] # "none"
        PROVE  o <= nextRun'
    BY <1>2, <1>3, <2>1, OccurrencesAreTimes DEF PassedOrMade
  <2>2. ASSUME NEW u \in Workers, ~At(u, "none")'
        PROVE  pass'[u].occ <= nextRun' /\ pass'[u].policy = overlap'
    <3>1. pass'[u] = pass[u] /\ pass[u].occ <= nextRun /\ pass[u].policy = overlap /\ pass[u].occ \in Nat
      BY <1>3, <1>5, <2>2, OccurrencesAreTimes DEF PassedOrMade, PassType
    <3> QED BY <1>2, <1>3, <3>1, OccurrencesAreTimes
  <2> QED BY <1>8, <2>1, <2>2 DEF PassedOrMade
<1>10. overlap' # "allow" => OneAfterAnother'
  <2> SUFFICES ASSUME overlap # "allow" PROVE OneAfterAnother'
    BY <1>3
  <2>1. ASSUME NEW u \in Workers, NEW k \in Occurrences,
               pass'[u].at \in {"creating", "created"}, k < pass'[u].occ
        PROVE  Over(k)'
    BY <1>5, <1>7, <2>1 DEF OneAfterAnother, At
  <2>2. ASSUME NEW o \in Occurrences, NEW k \in Occurrences, task'[o] # "none", k < o
        PROVE  Over(k)'
    BY <1>3, <1>7, <2>2 DEF OneAfterAnother
  <2> QED BY <2>1, <2>2 DEF OneAfterAnother
<1> QED BY <1>9, <1>10

LEMMA NextKeepsTurn == IInv /\ InTurn /\ [Next]_vars => InTurn'
<1> SUFFICES ASSUME IInv, InTurn, [Next]_vars, edits' = 0
             PROVE  PassedOrMade' /\ (overlap' # "allow" => OneAfterAnother')
  BY DEF InTurn
<1>1. edits \in Nat
  BY SchedulerAssumption DEF IInv, TypeOK
<1>2. ASSUME edits = 0, NEW w \in Workers, PassNext(w) \/ Crash(w)
      PROVE  PassedOrMade' /\ (overlap' # "allow" => OneAfterAnother')
  <2>1. CASE CannotCreate(w) \/ Crash(w)
    <3>1. UNCHANGED <<nextRun, overlap, task, said, edits>> /\ Stop(w)
      BY <2>1 DEF CannotCreate, Crash, row, tasks, bounds
    <3>2. Onward
      BY <1>1, <3>1, OccurrencesAreTimes DEF Onward, Dropped, IInv, TypeOK
    <3>3. /\ \A v \in Workers : ~At(v, "none")' => ~At(v, "none") /\ Kept(v)
          /\ \A v \in Workers : pass'[v].at \in {"creating", "created"} => pass[v].at \in {"creating", "created"}
      BY <3>1, NoPass.at = "none" DEF Stop, At, Kept, IInv, TypeOK, NoPass
    <3> QED BY <1>2, <3>1, <3>2, <3>3, QuietKeepsTurn DEF InTurn
  <2> QED BY <1>2, <2>1, ScanKeepsTurn, JudgeKeepsTurn, CreateKeepsTurn, MoveOnKeepsTurn
          DEF PassNext, InTurn
<1>3. ASSUME edits = 0, OwnerNext \/ RefusalChanges \/ EndTask \/ Tick \/ UNCHANGED vars
      PROVE  PassedOrMade' /\ (overlap' # "allow" => OneAfterAnother')
  <2>1. UNCHANGED <<nextRun, overlap, pass, said, edits>>
    <3>1. ~Save /\ ~\E on \in BOOLEAN : Turn(on)
      BY <1>3 DEF Save, Turn
    <3> QED BY <1>3, <3>1 DEF OwnerNext, RunNow, RunNowCreates, Freeze, RefusalChanges, EndTask, Tick, vars, row, bounds
  <2>2. task' = task \/ EndTask
    BY <1>3 DEF OwnerNext, RunNow, RunNowCreates, Save, Turn, Freeze, RefusalChanges, Tick, vars, tasks
  <2>3. \A o \in Occurrences : /\ task'[o] # "none" <=> task[o] # "none"
                               /\ task[o] = "ended" => task'[o] = "ended"
    BY <2>2 DEF EndTask, IInv, TypeOK
  <2>4. Onward
    BY <1>1, <2>1, <2>3, OccurrencesAreTimes DEF Onward, Dropped, IInv, TypeOK
  <2> QED BY <1>3, <2>1, <2>3, <2>4, QuietKeepsTurn DEF InTurn, At, Kept
<1>4. edits = 0
  <2>1. ASSUME \E w \in Workers : PassNext(w) \/ Crash(w)
        PROVE  edits' = edits
    BY <2>1 DEF PassNext, CannotCreate, Crash, Scan, Judge, Drop, PassOver, Create, Advance, bounds
  <2>2. ASSUME OwnerNext \/ RefusalChanges \/ EndTask \/ Tick \/ UNCHANGED vars
        PROVE  edits' = edits \/ edits' = edits + 1
    BY <2>2 DEF OwnerNext, RunNow, RunNowCreates, Save, Turn, Freeze, RefusalChanges, EndTask, Tick, vars, bounds
  <2> QED BY <1>1, <2>1, <2>2 DEF Next
<1> QED BY <1>2, <1>3, <1>4 DEF Next

-----------------------------------------------------------------------------
(* The theorems.                                                           *)

\* However many workers' passes meet an occurrence and wherever they break
\* off, it is told of once.
THEOREM ToldOnce == Spec => [](TypeOK /\ SaidOnce)
<1>1. IInv => TypeOK /\ SaidOnce
  BY DEF IInv
<1> QED BY <1>1, InitIInv, NextKeeps, PTL DEF Spec

\* Two occurrences of a schedule that may not overlap are not live together,
\* unless one of them was dropped before a slower pass made it.
THEOREM OneAtATime == Spec => []RunsAlone
<1>1. IInv /\ InTurn => RunsAlone
  <2> SUFFICES ASSUME IInv, InTurn, overlap # "allow", edits = 0,
                      NEW o \in Occurrences, NEW k \in Occurrences,
                      o # k, task[o] = "live", task[k] = "live"
               PROVE  Dropped(o) \/ Dropped(k)
    BY DEF RunsAlone
  <2>1. o < k \/ k < o
    BY OccurrencesAreTimes
  <2> QED BY <2>1 DEF InTurn, OneAfterAnother, Over
<1> QED BY <1>1, InitIInv, NextKeeps, NextKeepsTurn, PTL DEF Spec

\* The schedule is never moved past an occurrence that has neither its task
\* nor a reason told why it has none.
THEOREM NoneLost == Spec => NothingLost
<1>1. IInv /\ [Next]_vars =>
         [nextRun' # nextRun /\ edits' = edits
            => \/ task'[nextRun] # "none" /\ said'[nextRun]["fired"] = 1
               \/ \E v \in Verdicts \ {"fired"} : said'[nextRun][v] = 1]_vars
  <2> SUFFICES ASSUME IInv, Next, nextRun' # nextRun, edits' = edits
               PROVE  \/ task'[nextRun] # "none" /\ said'[nextRun]["fired"] = 1
                      \/ \E v \in Verdicts \ {"fired"} : said'[nextRun][v] = 1
    BY DEF vars, row
  <2>1. PICK w \in Workers : Drop(w) \/ PassOver(w) \/ Advance(w)
    <3>1. ~OwnerNext
      <4>1. edits \in Nat
        BY SchedulerAssumption DEF IInv, TypeOK
      <4> QED BY <4>1 DEF OwnerNext, RunNow, RunNowCreates, Save, Turn, Freeze, row
    <3> QED BY <3>1 DEF Next, PassNext, CannotCreate, Crash, Scan, Judge, Create, RefusalChanges, EndTask, Tick, row
  <2>2. PICK v \in Verdicts :
              /\ MoveOn(w, v) /\ Stop(w) /\ ~At(w, "none")
              /\ v = "fired" => At(w, "created")
              /\ UNCHANGED <<now, company, tasks, press, bounds>>
    BY <2>1, MovesOn
  <2>3. nextRun = pass[w].occ /\ said'[nextRun][v] = 1
    BY <2>2, MoveOnKeeps
  <2>4. v = "fired" => task'[nextRun] # "none"
    BY <2>2, <2>3 DEF IInv, PassIsDue, tasks
  <2> QED BY <2>3, <2>4
<1> QED BY <1>1, InitIInv, NextKeeps, PTL DEF Spec, NothingLost

\* A schedule's next occurrence is one of its rule, and a pass holds one of them.
THEOREM PassesAreTyped == Spec => []TypeOK
<1>1. IInv => TypeOK
  BY DEF IInv
<1> QED BY <1>1, InitIInv, NextKeeps, PTL DEF Spec

-----------------------------------------------------------------------------
(* Deliveries from outside.                                                *)

\* The requests that have seen room and have not yet recorded what they started.
Pending == {s \in Requests : request[s].at \in {"decided", "made"}}

\* What counts for the rate, and what is about to.
RateIsKept ==
    /\ IsFiniteSet(Counted)
    /\ Cardinality(Counted) + Cardinality(Pending) <= MaxPerHour + Cardinality(Requests) - 1

\* Whoever has made a task of a delivery has yet to record it, or was cut off there.
MadeIsRecorded ==
    \A k \in Hooks : taskOf[k] # "none" =>
        \/ delivery[k].is = "started" \/ crashes > 0
        \/ \E s \in Requests : request[s] = [at |-> "made", key |-> k]

DeliveriesInv == DeliveriesTypeOK /\ RateIsKept /\ MadeIsRecorded

LEMMA DeliveriesTypeStep == DeliveriesTypeOK /\ [DeliveriesNext]_deliveryVars => DeliveriesTypeOK'
<1> SUFFICES ASSUME DeliveriesTypeOK, [DeliveriesNext]_deliveryVars PROVE DeliveriesTypeOK'
  OBVIOUS
<1> USE DeliveryAssumption DEF DeliveriesTypeOK, work, NoRequest
<1>1. CASE UNCHANGED deliveryVars
  BY <1>1 DEF deliveryVars
<1>2. EnqueueWake => open' \subseteq Entries
  BY DEF EnqueueWake, FreeEntries
<1>3. Claimed => taskOf' \in [Hooks -> {"none", "waits", "claimed"}]
  BY DEF Claimed, Waiting
<1>4. ASSUME NEW s \in Requests, NEW k \in Hooks, Decide(s, k) PROVE DeliveriesTypeOK'
  <2>1. delivery' \in [Hooks -> [is : {"none", "limited", "started"}, old : BOOLEAN]]
    <3> DEFINE c == IF delivery[k].is = "none" THEN [is |-> "limited", old |-> FALSE] ELSE delivery[k]
    <3>1. c \in [is : {"none", "limited", "started"}, old : BOOLEAN]
      OBVIOUS
    <3>2. delivery' = delivery \/ delivery' = [delivery EXCEPT ![k] = c]
      BY <1>4 DEF Decide
    <3> HIDE DEF c
    <3> QED BY <3>1, <3>2
  <2>2. /\ request' \in [Requests -> [at : {"off", "decided", "made", "recorded"}, key : Hooks \cup {NoKey}]]
        /\ \A r \in Requests : request'[r].at \in {"off", "recorded"} <=> request'[r].key = NoKey
    <3>1. request' = request \/ request' = [request EXCEPT ![s] = [at |-> "decided", key |-> k]]
      BY <1>4 DEF Decide
    <3>2. CASE request' = request
      BY <3>2
    <3>3. CASE request' = [request EXCEPT ![s] = [at |-> "decided", key |-> k]]
      <4>1. request' \in [Requests -> [at : {"off", "decided", "made", "recorded"}, key : Hooks \cup {NoKey}]]
        BY <3>3
      <4>2. \A r \in Requests : request'[r] = IF r = s THEN [at |-> "decided", key |-> k] ELSE request[r]
        BY <3>3
      <4> QED BY <4>1, <4>2
    <3> QED BY <3>1, <3>2, <3>3
  <2> QED BY <1>4, <2>1, <2>2 DEF Decide
<1>5. ASSUME NEW s \in Requests, Server(s) PROVE DeliveriesTypeOK'
  <2>1. CASE Make(s)
    BY <2>1 DEF Make, MakeTask, Go
  <2>2. CASE Refused(s)
    BY <2>2 DEF Refused, Answered
  <2>3. CASE Record(s)
    BY <2>3 DEF Record
  <2>4. CASE Enqueue(s)
    BY <2>4, <1>2 DEF Enqueue, Answered
  <2> QED BY <1>5, <2>1, <2>2, <2>3, <2>4 DEF Server
<1>6. ASSUME NEW s \in Requests, CutOff(s) PROVE DeliveriesTypeOK'
  BY <1>6 DEF CutOff, Answered
<1>7. ASSUME NEW w \in Drainers, WorkerTick(w) PROVE DeliveriesTypeOK'
  <2>1. CASE QueueBeat(w)
    BY <2>1, <1>2 DEF QueueBeat
  <2>2. CASE List(w)
    BY <2>2 DEF List
  <2>3. CASE ClaimForWake(w)
    <3>1. worker' \in [Drainers -> [at : {"idle", "drain", "spend"}, left : SUBSET Entries, got : BOOLEAN]]
      <4>1. \E got \in BOOLEAN : worker' = [worker EXCEPT ![w] = [@ EXCEPT !.at = "spend", !.got = got]]
        BY <2>3 DEF ClaimForWake
      <4>2. \A got \in BOOLEAN : [worker[w] EXCEPT !.at = "spend", !.got = got]
                \in [at : {"idle", "drain", "spend"}, left : SUBSET Entries, got : BOOLEAN]
        OBVIOUS
      <4> QED BY <4>1, <4>2
    <3>2. taskOf' \in [Hooks -> {"none", "waits", "claimed"}]
      BY <2>3, <1>3 DEF ClaimForWake, NothingToClaim
    <3> QED BY <2>3, <3>1, <3>2 DEF ClaimForWake
  <2>4. CASE Spend(w)
    BY <2>4 DEF Spend, AfterSpending, Idle
  <2>5. CASE Claim(w)
    BY <2>5, <1>3 DEF Claim
  <2> QED BY <1>7, <2>1, <2>2, <2>3, <2>4, <2>5 DEF WorkerTick, Drain
<1>8. ASSUME NEW w \in Drainers, Stops(w) PROVE DeliveriesTypeOK'
  BY <1>8 DEF Stops, Idle
<1>9. CASE HourPasses
  <2>1. delivery' \in [Hooks -> [is : {"none", "limited", "started"}, old : BOOLEAN]]
    <3>1. PICK k \in Hooks : delivery' = [delivery EXCEPT ![k].old = TRUE]
      BY <1>9 DEF HourPasses
    <3>2. [delivery[k] EXCEPT !.old = TRUE] \in [is : {"none", "limited", "started"}, old : BOOLEAN]
      <4>1. delivery[k] \in [is : {"none", "limited", "started"}, old : BOOLEAN]
        OBVIOUS
      <4>2. ASSUME NEW d \in [is : {"none", "limited", "started"}, old : BOOLEAN]
            PROVE  [d EXCEPT !.old = TRUE] \in [is : {"none", "limited", "started"}, old : BOOLEAN]
        BY <4>2, ZenonT(30)
      <4> QED BY <4>1, <4>2
    <3>3. delivery' = [delivery EXCEPT ![k] = [delivery[k] EXCEPT !.old = TRUE]]
      BY <3>1
    <3> QED BY <3>2, <3>3
  <2> QED BY <1>9, <2>1 DEF HourPasses
<1>10. CASE BarChanges
  BY <1>10 DEF BarChanges
<1> QED BY <1>1, <1>4, <1>5, <1>6, <1>7, <1>8, <1>9, <1>10 DEF DeliveriesNext, Arrival

LEMMA RateStep == DeliveriesInv /\ [DeliveriesNext]_deliveryVars => RateIsKept'
<1> SUFFICES ASSUME DeliveriesInv, [DeliveriesNext]_deliveryVars PROVE RateIsKept'
  OBVIOUS
<1> USE DEF DeliveriesInv
<1> DEFINE C == Counted
           P == Pending
<1>1. /\ IsFiniteSet(C) /\ Cardinality(C) \in Nat
      /\ Cardinality(C) + Cardinality(P) <= MaxPerHour + Cardinality(Requests) - 1
  BY FS_CardinalityType DEF RateIsKept
<1>2. /\ P \subseteq Requests /\ P' \subseteq Requests /\ IsFiniteSet(P) /\ IsFiniteSet(P')
      /\ Cardinality(P) \in Nat /\ Cardinality(P') \in Nat /\ Cardinality(Requests) \in Nat
      /\ Cardinality(P') <= Cardinality(Requests) /\ MaxPerHour \in Nat
  <2>1. P \in SUBSET Requests /\ P' \in SUBSET Requests /\ IsFiniteSet(Requests)
    BY DeliveryAssumption DEF Pending
  <2> HIDE DEF P
  <2> QED BY <2>1, FS_Subset, FS_CardinalityType, DeliveryAssumption
<1>3. ASSUME C' \subseteq C, P' \subseteq P PROVE RateIsKept'
  <2>1. IsFiniteSet(C') /\ Cardinality(C') \in Nat /\ Cardinality(C') <= Cardinality(C)
    <3> HIDE DEF C
    <3> QED BY <1>1, <1>3, FS_Subset, FS_CardinalityType
  <2>2. Cardinality(P') <= Cardinality(P)
    <3> HIDE DEF P
    <3> QED BY <1>2, <1>3, FS_Subset
  <2> QED BY <1>1, <1>2, <2>1, <2>2 DEF RateIsKept
<1>4. ASSUME C' = C, Cardinality(C) < MaxPerHour PROVE RateIsKept'
  BY <1>1, <1>2, <1>4 DEF RateIsKept
<1>5. ASSUME NEW k, C' \subseteq C \cup {k}, NEW s \in P, P' \subseteq P \ {s} PROVE RateIsKept'
  <2>1. IsFiniteSet(C') /\ Cardinality(C') \in Nat /\ Cardinality(C') <= Cardinality(C) + 1
    <3> HIDE DEF C
    <3>1. /\ IsFiniteSet(C \cup {k})
          /\ Cardinality(C \cup {k}) = IF k \in C THEN Cardinality(C) ELSE Cardinality(C) + 1
      BY <1>1, FS_AddElement, Zenon
    <3>2. IsFiniteSet(C') /\ Cardinality(C') <= Cardinality(C \cup {k})
      BY <3>1, <1>5, FS_Subset
    <3> QED BY <1>1, <3>1, <3>2, FS_CardinalityType
  <2>2. Cardinality(P') <= Cardinality(P) - 1
    <3> HIDE DEF P
    <3>1. IsFiniteSet(P \ {s}) /\ Cardinality(P \ {s}) = Cardinality(P) - 1
      BY <1>2, <1>5, FS_RemoveElement
    <3> QED BY <3>1, <1>5, FS_Subset
  <2> QED BY <1>1, <1>2, <2>1, <2>2 DEF RateIsKept
<1>6. ASSUME UNCHANGED <<delivery, request>> PROVE RateIsKept'
  BY <1>6, <1>3 DEF Counted, Pending
<1>7. ASSUME NEW s \in Requests, NEW k \in Hooks, Decide(s, k) PROVE RateIsKept'
  <2>1. CASE UnderTheRate
    <3>1. C' = C /\ Cardinality(C) < MaxPerHour
      BY <1>7, <2>1 DEF Decide, UnderTheRate, Counted
    <3> QED BY <3>1, <1>4
  <2>2. CASE ~UnderTheRate
    <3>1. C' \subseteq C /\ P' \subseteq P
      BY <1>7, <2>2 DEF Decide, Counted, Pending, DeliveriesTypeOK
    <3> QED BY <3>1, <1>3
  <2> QED BY <2>1, <2>2
<1>8. ASSUME NEW s \in Requests, Make(s) \/ Refused(s) \/ Enqueue(s) \/ CutOff(s) PROVE RateIsKept'
  <2>1. C' \subseteq C
    BY <1>8 DEF Make, Refused, Enqueue, CutOff, Counted
  <2>2. P' \subseteq P
    BY <1>8 DEF Make, Refused, Enqueue, CutOff, Go, Answered, NoRequest, Pending, DeliveriesTypeOK
  <2> QED BY <2>1, <2>2, <1>3
<1>9. ASSUME NEW s \in Requests, Record(s) PROVE RateIsKept'
  <2> DEFINE k == request[s].key
  <2>1. C' \subseteq C \cup {k}
    BY <1>9 DEF Record, Counted, DeliveriesTypeOK
  <2>2. s \in P /\ P' \subseteq P \ {s}
    BY <1>9 DEF Record, Pending, DeliveriesTypeOK
  <2> QED BY <2>1, <2>2, <1>5
<1>10. CASE HourPasses
  <2>1. C' \subseteq C /\ P' \subseteq P
    BY <1>10 DEF HourPasses, Counted, Pending, DeliveriesTypeOK
  <2> QED BY <2>1, <1>3
<1>11. ASSUME NEW w \in Drainers, WorkerTick(w) \/ Stops(w) PROVE RateIsKept'
  <2>1. UNCHANGED <<delivery, request>>
    BY <1>11 DEF WorkerTick, Drain, QueueBeat, List, ClaimForWake, Spend, Claim, Stops, work
  <2> QED BY <2>1, <1>6
<1>12. CASE BarChanges \/ UNCHANGED deliveryVars
  BY <1>12, <1>6 DEF BarChanges, work, deliveryVars
<1> QED
  BY <1>7, <1>8, <1>9, <1>10, <1>11, <1>12 DEF DeliveriesNext, Arrival, Server

LEMMA MadeStep == DeliveriesInv /\ [DeliveriesNext]_deliveryVars => MadeIsRecorded'
<1> SUFFICES ASSUME DeliveriesInv, [DeliveriesNext]_deliveryVars, NEW k \in Hooks, taskOf'[k] # "none"
             PROVE  \/ delivery'[k].is = "started" \/ crashes' > 0
                    \/ \E s \in Requests : request'[s] = [at |-> "made", key |-> k]
  BY DEF MadeIsRecorded
<1> USE DEF DeliveriesInv
<1> DEFINE Goal == \/ delivery'[k].is = "started" \/ crashes' > 0
                   \/ \E s \in Requests : request'[s] = [at |-> "made", key |-> k]
<1>1. crashes \in Nat /\ crashes' \in Nat
  BY DeliveryAssumption, DeliveriesTypeStep DEF DeliveriesTypeOK
<1>2. taskOf[k] # "none" =>
         \/ delivery[k].is = "started" \/ crashes > 0
         \/ \E s \in Requests : request[s] = [at |-> "made", key |-> k]
  BY DEF MadeIsRecorded
<1>3. ASSUME taskOf[k] # "none", delivery[k].is = "started" => delivery'[k].is = "started",
             crashes' >= crashes,
             \A s \in Requests : request[s].at = "made" => \/ request'[s] = request[s]
                                                          \/ delivery'[request[s].key].is = "started"
      PROVE  Goal
  <2>1. CASE delivery[k].is = "started"
    BY <2>1, <1>3
  <2>2. CASE crashes > 0
    BY <2>2, <1>1, <1>3
  <2>3. ASSUME NEW s \in Requests, request[s] = [at |-> "made", key |-> k] PROVE Goal
    <3>1. request[s].at = "made" /\ request[s].key = k
      BY <2>3
    <3>2. CASE request'[s] = request[s]
      BY <2>3, <3>2
    <3>3. CASE delivery'[k].is = "started"
      BY <3>3
    <3> QED BY <3>1, <3>2, <3>3, <1>3
  <2> QED BY <2>1, <2>2, <2>3, <1>2, <1>3
<1>4. ASSUME UNCHANGED <<delivery, request, crashes>>, taskOf[k] # "none" PROVE Goal
  BY <1>4, <1>1, <1>3
<1>5. ASSUME NEW s \in Requests, NEW h \in Hooks, Decide(s, h) PROVE Goal
  <2>1. /\ delivery[k].is = "started" => delivery'[k].is = "started"
        /\ \A r \in Requests : request[r].at = "made" => request'[r] = request[r]
        /\ UNCHANGED <<taskOf, crashes>>
    BY <1>5 DEF Decide, DeliveriesTypeOK
  <2> QED BY <2>1, <1>1, <1>3
<1>6. ASSUME NEW s \in Requests, Make(s) PROVE Goal
  <2>1. /\ request[s].at = "decided" /\ request[s].key \in Hooks
        /\ request'[s] = [at |-> "made", key |-> request[s].key]
        /\ \A r \in Requests : r # s => request'[r] = request[r]
        /\ UNCHANGED <<delivery, crashes>>
    BY <1>6 DEF Make, Go, DeliveriesTypeOK
  <2>2. CASE request[s].key = k
    BY <2>1, <2>2
  <2>3. CASE request[s].key # k
    <3>1. taskOf'[k] = taskOf[k]
      BY <1>6, <2>1, <2>3 DEF Make, MakeTask, DeliveriesTypeOK
    <3> QED BY <3>1, <2>1, <1>1, <1>3
  <2> QED BY <2>2, <2>3
<1>7. ASSUME NEW s \in Requests, Refused(s) \/ Enqueue(s) PROVE Goal
  <2>1. /\ \A r \in Requests : request[r].at = "made" => request'[r] = request[r]
        /\ UNCHANGED <<delivery, taskOf, crashes>>
    BY <1>7 DEF Refused, Enqueue, Answered, DeliveriesTypeOK
  <2> QED BY <2>1, <1>1, <1>3
<1>8. ASSUME NEW s \in Requests, Record(s) PROVE Goal
  <2>1. /\ request[s].key \in Hooks /\ delivery'[request[s].key].is = "started"
        /\ delivery[k].is = "started" => delivery'[k].is = "started"
        /\ \A r \in Requests : r # s => request'[r] = request[r]
        /\ UNCHANGED <<taskOf, crashes>>
    BY <1>8 DEF Record, DeliveriesTypeOK
  <2> QED BY <2>1, <1>1, <1>3
<1>9. ASSUME NEW s \in Requests, CutOff(s) PROVE Goal
  BY <1>9, <1>1 DEF CutOff
<1>10. ASSUME NEW w \in Drainers, WorkerTick(w) \/ Stops(w) PROVE Goal
  <2>1. CASE UNCHANGED <<delivery, request>> /\ crashes' = crashes + 1
    BY <2>1, <1>1
  <2>2. CASE UNCHANGED <<delivery, request, crashes>>
    <3>1. taskOf' = taskOf \/ Claimed
      BY <1>10 DEF WorkerTick, Drain, QueueBeat, List, ClaimForWake, NothingToClaim, Spend, Claim, Stops, work
    <3>2. taskOf[k] # "none"
      BY <3>1 DEF Claimed, Waiting, DeliveriesTypeOK
    <3> QED BY <3>2, <2>2, <1>4
  <2> QED BY <2>1, <2>2, <1>10 DEF WorkerTick, Drain, QueueBeat, List, ClaimForWake, Spend, Claim, Stops, work
<1>11. CASE HourPasses
  <2>1. /\ delivery[k].is = "started" => delivery'[k].is = "started"
        /\ UNCHANGED <<taskOf, request, crashes>>
    BY <1>11 DEF HourPasses, DeliveriesTypeOK
  <2> QED BY <2>1, <1>1, <1>3
<1>12. CASE BarChanges \/ UNCHANGED deliveryVars
  BY <1>12, <1>4 DEF BarChanges, work, deliveryVars
<1> QED
  BY <1>5, <1>6, <1>7, <1>8, <1>9, <1>10, <1>11, <1>12 DEF DeliveriesNext, Arrival, Server

LEMMA DeliveriesInvariance == DeliveriesSpec => []DeliveriesInv
<1>1. DeliveriesInit => DeliveriesInv
  <2> SUFFICES ASSUME DeliveriesInit PROVE DeliveriesInv
    OBVIOUS
  <2>1. DeliveriesTypeOK
    BY DeliveryAssumption DEF DeliveriesInit, DeliveriesTypeOK, NoRequest, Idle
  <2>2. Counted = {} /\ Pending = {}
    BY DEF DeliveriesInit, Counted, Pending, NoRequest
  <2>3. Cardinality(Requests) \in Nat /\ Cardinality(Requests) # 0 /\ MaxPerHour \in Nat
    BY DeliveryAssumption, FS_CardinalityType, FS_EmptySet
  <2>4. RateIsKept
    BY <2>2, <2>3, FS_EmptySet DEF RateIsKept
  <2>5. MadeIsRecorded
    BY DEF DeliveriesInit, MadeIsRecorded
  <2> QED BY <2>1, <2>4, <2>5 DEF DeliveriesInv
<1>2. DeliveriesInv /\ [DeliveriesNext]_deliveryVars => DeliveriesInv'
  BY DeliveriesTypeStep, RateStep, MadeStep DEF DeliveriesInv
<1> QED BY <1>1, <1>2, PTL DEF DeliveriesSpec

\* Deliveries, requests, tasks and the wake queue keep their types, and a request
\* names a delivery just as long as it works on it (receiveHook, drainWakes).
THEOREM DeliveriesAreTyped == DeliveriesSpec => []DeliveriesTypeOK
<1>1. DeliveriesInv => DeliveriesTypeOK
  BY DEF DeliveriesInv
<1> QED BY <1>1, DeliveriesInvariance, PTL

\* The rate of a trigger is looked at under a lock that is given up before what
\* is started is recorded (receiveHook): of any number of deliveries, those that
\* count exceed it by the other requests of the moment at most.
THEOREM RateIsBounded == DeliveriesSpec => []RateOvershoot
<1>1. DeliveriesInv => RateOvershoot
  <2> SUFFICES ASSUME DeliveriesInv PROVE RateOvershoot
    OBVIOUS
  <2>1. Pending \in SUBSET Requests
    BY DEF Pending
  <2>2. Cardinality(Pending) \in Nat /\ Cardinality(Counted) \in Nat /\ Cardinality(Requests) \in Nat
    BY <2>1, DeliveryAssumption, FS_Subset, FS_CardinalityType DEF DeliveriesInv, RateIsKept
  <2> QED BY <2>2, DeliveryAssumption DEF DeliveriesInv, RateIsKept, RateOvershoot
<1> QED BY <1>1, DeliveriesInvariance, PTL

\* A sender told to try again later is not being served behind its own back,
\* unless a request of the same delivery is at that moment making its task, or
\* one was cut off there (receiveHook).
THEOREM RefusalsAreTrue == DeliveriesSpec => []RefusedIsNotStarted
<1>1. DeliveriesInv => RefusedIsNotStarted
  BY DEF DeliveriesInv, MadeIsRecorded, RefusedIsNotStarted
<1> QED BY <1>1, DeliveriesInvariance, PTL
=============================================================================
