--------------------------- MODULE CheckoutProofs ---------------------------
(* What holds of claims, runs and decisions for every number of tasks,     *)
(* workers, divisions and lanes.                                           *)
EXTENDS Checkout, FiniteSetTheorems, TLAPS

\* Only a child is looked at by a driving parent.
LookedIsChild == \A w \in Workers, t \in Tasks :
                    phase[w][t] = "looked" => Parent[t] # NoTask

\* A task without a parent that a worker has in hand is held by that worker,
\* until it ends: neither the owner's decisions nor another worker's claim
\* moves it from under the run.
HeldInHand ==
    \A w \in Workers, t \in Tasks :
       phase[w][t] \in InHandPhases /\ Parent[t] = NoTask
          => (holder[t] = w /\ status[t] \in Busy) \/ Ended(t)

IInv == TypeOK /\ EndedNamesNoWorker /\ LookedIsChild /\ HeldInHand

\* What the proofs use of the state machine: its edges join its statuses, and
\* none leaves a terminal one.
LEMMA Edges ==
    /\ \A from \in TS!Status : TS!Transitions[from] \subseteq TS!Status
    /\ \A from \in TS!Terminal : TS!Transitions[from] = {}
    /\ TS!Terminal \subseteq TS!Status
    /\ Busy \subseteq TS!Status \ TS!Terminal
    /\ Waiting \subseteq TS!Status \ TS!Terminal
  BY DEF TS!Status, TS!Transitions, TS!Terminal, Busy, Waiting

\* A step of a run leaves the types right, and moves nothing but its own task
\* and its own worker's phase.
LEMMA RunStep ==
    ASSUME TypeOK, NEW w \in Workers, NEW t \in Tasks, RunNext(w, t)
    PROVE  /\ TypeOK'
           /\ \A u \in Tasks \ {t} : status'[u] = status[u] /\ holder'[u] = holder[u]
           /\ \A v \in Workers, u \in Tasks :
                 v # w \/ u # t => phase'[v][u] = phase[v][u]
<1> USE DEF TypeOK
<1> DEFINE Goal ==
      /\ TypeOK'
      /\ \A u \in Tasks \ {t} : status'[u] = status[u] /\ holder'[u] = holder[u]
      /\ \A v \in Workers, u \in Tasks :
            v # w \/ u # t => phase'[v][u] = phase[v][u]
<1> DEFINE Typed ==
      /\ \E p \in Phases : phase' = [phase EXCEPT ![w][t] = p]
      /\ \E s \in TS!Status : status' = [status EXCEPT ![t] = s]
      /\ \E h \in Workers \cup {NoWorker} : holder' = [holder EXCEPT ![t] = h]
      /\ wake' \in [Tasks -> {"none", "later", "now"}]
      /\ attempt' \in [Tasks -> 0 .. AttemptMax]
      /\ late' \subseteq Timed
      /\ UNCHANGED room
<1>1. Typed => Goal
  <2> SUFFICES ASSUME Typed
               PROVE  Goal
    OBVIOUS
  <2>1. PICK p \in Phases : phase' = [phase EXCEPT ![w][t] = p]
    OBVIOUS
  <2>2. PICK s \in TS!Status : status' = [status EXCEPT ![t] = s]
    OBVIOUS
  <2>3. PICK h \in Workers \cup {NoWorker} : holder' = [holder EXCEPT ![t] = h]
    OBVIOUS
  <2>4. status' \in [Tasks -> TS!Status] /\ holder' \in [Tasks -> Workers \cup {NoWorker}]
    BY <2>2, <2>3
  <2>5. phase' \in [Workers -> [Tasks -> Phases]]
    BY <2>1
  <2>6. \A v \in Workers, u \in Tasks : v # w \/ u # t => phase'[v][u] = phase[v][u]
    BY <2>1
  <2> QED BY <2>2, <2>3, <2>4, <2>5, <2>6
<1>2. \A p \in Phases : Enter(w, t, p) => \E q \in Phases : phase' = [phase EXCEPT ![w][t] = q]
  BY DEF Enter
<1>3. {"none", "claimed", "looked", "adopted", "ready", "running", "leaving"} \subseteq Phases
  BY DEF Phases
<1>4. UNCHANGED status => \E s \in TS!Status : status' = [status EXCEPT ![t] = s]
  <2>1. status = [status EXCEPT ![t] = status[t]]
    OBVIOUS
  <2> QED BY <2>1
<1>5. UNCHANGED holder => \E h \in Workers \cup {NoWorker} : holder' = [holder EXCEPT ![t] = h]
  <2>1. holder = [holder EXCEPT ![t] = holder[t]]
    OBVIOUS
  <2> QED BY <2>1
<1>6. ASSUME NEW to, NEW until \in {"none", "later"}, Move(t, to, until)
      PROVE  /\ \E s \in TS!Status : status' = [status EXCEPT ![t] = s]
             /\ \E h \in Workers \cup {NoWorker} : holder' = [holder EXCEPT ![t] = h]
             /\ wake' \in [Tasks -> {"none", "later", "now"}]
             /\ late' \subseteq Timed
  <2>1. to \in TS!Status /\ status' = [status EXCEPT ![t] = to]
    BY <1>6, Edges DEF Move
  <2>2. \E h \in Workers \cup {NoWorker} : holder' = [holder EXCEPT ![t] = h]
    BY <1>5, <1>6 DEF Move
  <2>3. wake' \in [Tasks -> {"none", "later", "now"}] /\ late' \subseteq Timed
    <3>1. Forget({t}) => wake' \in [Tasks -> {"none", "later", "now"}] /\ late' \subseteq Timed
      BY DEF Forget
    <3> QED BY <1>6, <3>1 DEF Move
  <2> QED BY <2>1, <2>2, <2>3
<1>7. ASSUME TakeLease(w, t) PROVE
        /\ \E s \in TS!Status : status' = [status EXCEPT ![t] = s]
        /\ \E h \in Workers \cup {NoWorker} : holder' = [holder EXCEPT ![t] = h]
        /\ UNCHANGED <<wake, attempt, late, room>>
  <2>1. status[t] \in TS!Status /\ "checked_out" \in TS!Status
    BY Edges DEF Busy
  <2> QED BY <1>7, <2>1 DEF TakeLease
<1>8. ASSUME NEW s \in TS!Status, status' = [status EXCEPT ![t] = s],
             holder' = [holder EXCEPT ![t] = NoWorker]
      PROVE  /\ \E r \in TS!Status : status' = [status EXCEPT ![t] = r]
             /\ \E h \in Workers \cup {NoWorker} : holder' = [holder EXCEPT ![t] = h]
  BY <1>8
<1> HIDE DEF Goal
<1>10. Claim(w, t) => Typed
  BY <1>2, <1>3, <1>7 DEF Claim
<1>11. LookAtChild(w, t) => Typed
  BY <1>2, <1>3, <1>4, <1>5 DEF LookAtChild, rows
<1>12. Adopt(w, t) => Typed
  <2>1. ASSUME status[t] = "pending", CanClaim(w, t, TRUE), TakeLease(w, t), Enter(w, t, "adopted")
        PROVE  Typed
    BY <2>1, <1>2, <1>3, <1>7
  <2>2. ASSUME holder' = [holder EXCEPT ![t] = w], UNCHANGED <<status, wake, attempt, late, room>>,
               Enter(w, t, IF status[t] = "running" THEN "ready" ELSE "adopted")
        PROVE  Typed
    BY <2>2, <1>2, <1>3, <1>4
  <2> QED BY <2>1, <2>2 DEF Adopt
<1>13. NotClaimed(w, t) => Typed
  BY <1>2, <1>3, <1>4, <1>5 DEF NotClaimed, rows
<1>14. Start(w, t) => Typed
  BY <1>2, <1>3, <1>6 DEF Start
<1>15. ParkBeforeRun(w, t) => Typed
  BY <1>2, <1>3, <1>6 DEF ParkBeforeRun
<1>16. Unhealthy(w, t) => Typed
  BY <1>2, <1>3, <1>6 DEF Unhealthy
<1>17. BeginRun(w, t) => Typed
  BY <1>2, <1>3, <1>4, <1>5 DEF BeginRun, rows
<1>18. \A to : Finish(w, t, to) => Typed
  BY <1>2, <1>3, <1>6 DEF Finish
<1>19. \A to : \A until \in {"none", "later"} : Park(w, t, to, until) => Typed
  BY <1>2, <1>3, <1>6 DEF Park
<1>20. FailAttempt(w, t) => Typed
  <2>1. FailAttempt(w, t) => attempt' \in [Tasks -> 0 .. AttemptMax]
    BY TaskAssumption DEF FailAttempt
  <2> QED BY <2>1, <1>2, <1>3, <1>6 DEF FailAttempt
<1>21. Leave(w, t) => Typed
  BY <1>2, <1>3, <1>4, <1>5 DEF Leave
<1>22. TakenForLost(w, t) => Typed
  BY <1>2, <1>3, <1>4, <1>5 DEF TakenForLost, rows
<1>23. Displaced(w, t) => Typed
  BY <1>2, <1>3, <1>4, <1>5 DEF Displaced, rows
<1>24. HandBack(w, t) => Typed
  BY <1>2, <1>3, <1>8, Edges DEF HandBack, Busy, TS!Status
<1>25. Release(w, t) => Typed
  BY <1>2, <1>3, <1>4, <1>5, <1>8 DEF Release, TS!Status
<1>26. Typed
  BY <1>10, <1>11, <1>12, <1>13, <1>14, <1>15, <1>16, <1>17, <1>18, <1>19, <1>20,
     <1>21, <1>22, <1>23, <1>24, <1>25 DEF RunNext, RunEnds
<1> QED BY <1>1, <1>26 DEF Goal

\* A step from outside a run leaves the types right and no phase changed.
LEMMA OutsideStep ==
    ASSUME TypeOK, NEW t \in Tasks, OutsideNext(t)
    PROVE  TypeOK' /\ UNCHANGED phase
<1> USE Edges DEF TypeOK
<1>1. ASSUME NEW to, Move(t, to, "none")
      PROVE  /\ status' \in [Tasks -> TS!Status]
             /\ holder' \in [Tasks -> Workers \cup {NoWorker}]
             /\ wake' \in [Tasks -> {"none", "later", "now"}]
             /\ late' \subseteq Timed
  BY <1>1 DEF Move, Forget
<1>2. {"pending", "halted", "cancelled"} \subseteq TS!Status
  BY DEF TS!Status
<1>3. Create(t) => TypeOK' /\ UNCHANGED phase
  BY <1>2 DEF Create
<1>4. TimePasses(t) => TypeOK' /\ UNCHANGED phase
  BY DEF TimePasses
<1>5. Decide(t) => TypeOK' /\ UNCHANGED phase
  BY <1>1 DEF Decide
<1>6. ReviewFails(t) => TypeOK' /\ UNCHANGED phase
  BY <1>1 DEF ReviewFails
<1>7. CancelTree(t) => TypeOK' /\ UNCHANGED phase
  BY <1>2 DEF CancelTree, Forget
<1>8. Lapse(t) => TypeOK' /\ UNCHANGED phase
  BY <1>2 DEF Lapse, Forget
<1>9. DeadlinePasses(t) => TypeOK' /\ UNCHANGED phase
  BY DEF DeadlinePasses
<1>10. HaltPastDeadline(t) => TypeOK' /\ UNCHANGED phase
  BY <1>1 DEF HaltPastDeadline
<1> QED BY <1>3, <1>4, <1>5, <1>6, <1>7, <1>8, <1>9, <1>10 DEF OutsideNext

\* An account's change touches no row and no run.
LEMMA AccountStep == TypeOK /\ AccountChanges => TypeOK' /\ UNCHANGED <<rows, phase>>
  BY DEF AccountChanges, TypeOK, rows

\* The strengthening that is inductive.
LEMMA IInvInit == Init => IInv
  BY TaskAssumption DEF Init, IInv, TypeOK, EndedNamesNoWorker, LookedIsChild, HeldInHand,
     TS!Status, TS!Terminal, Phases, InHandPhases, Ended

\* A run never leaves a name on a task that has ended.
LEMMA EndedRunStep ==
    ASSUME IInv, NEW w \in Workers, NEW t \in Tasks, RunNext(w, t)
    PROVE  Ended(t)' => holder'[t] = NoWorker
<1> USE DEF IInv, TypeOK, EndedNamesNoWorker, Ended
<1>0. \A s \in TS!Terminal : s \notin Busy \cup Waiting \cup {"pending"}
  BY Edges DEF TS!Terminal
<1>1. \A to, until : Move(t, to, until) => (Ended(t)' => holder'[t] = NoWorker)
  BY Edges DEF Move
<1>2. TakeLease(w, t) /\ Queued(t) => ~Ended(t)'
  BY <1>0 DEF TakeLease, Queued, Busy, Waiting
<1>3. Claim(w, t) => ~Ended(t)'
  BY <1>2 DEF Claim, CanClaim
<1>4. Adopt(w, t) => ~Ended(t)'
  BY <1>0, <1>2 DEF Adopt, CanClaim
<1>5. Leave(w, t) \/ Release(w, t) \/ HandBack(w, t) => (Ended(t)' => holder'[t] = NoWorker)
  BY <1>0 DEF Leave, Release, HandBack
<1>6. ASSUME UNCHANGED rows PROVE Ended(t)' => holder'[t] = NoWorker
  BY <1>6 DEF rows
<1>7. LookAtChild(w, t) \/ NotClaimed(w, t) \/ BeginRun(w, t) \/ TakenForLost(w, t)
      \/ Displaced(w, t) => UNCHANGED rows
  BY DEF LookAtChild, NotClaimed, BeginRun, TakenForLost, Displaced
<1>8. RunEnds(w, t) => (Ended(t)' => holder'[t] = NoWorker)
  BY <1>1 DEF RunEnds, Finish, Park, FailAttempt
<1>9. Start(w, t) \/ ParkBeforeRun(w, t) \/ Unhealthy(w, t)
        => (Ended(t)' => holder'[t] = NoWorker)
  BY <1>1 DEF Start, ParkBeforeRun, Unhealthy
<1> QED BY <1>3, <1>4, <1>5, <1>6, <1>7, <1>8, <1>9 DEF RunNext

\* The worker at work on a task without a parent keeps it, whatever any worker
\* does with that task.
LEMMA HeldRunStep ==
    ASSUME IInv, NEW w \in Workers, NEW t \in Tasks, RunNext(w, t),
           NEW v \in Workers, phase'[v][t] \in InHandPhases, Parent[t] = NoTask
    PROVE  (holder'[t] = v /\ status'[t] \in Busy) \/ Ended(t)'
<1> USE DEF IInv, TypeOK, HeldInHand, LookedIsChild, Ended, InHandPhases
<1> DEFINE Kept == (holder'[t] = v /\ status'[t] \in Busy) \/ Ended(t)'
<1>0. NoWorker \notin Workers /\ (\A s \in TS!Terminal : s \notin Busy \cup Waiting \cup {"pending"})
  BY TaskAssumption, Edges DEF TS!Terminal
<1>1. CASE UNCHANGED rows /\ phase'[v][t] \in {phase[v][t], "running", "none"}
           /\ (phase'[v][t] = "running" => phase[v][t] \in InHandPhases)
  BY <1>1 DEF rows
<1>2. Claim(w, t) => Kept
  <2> SUFFICES ASSUME Claim(w, t) PROVE Kept
    OBVIOUS
  <2>1. Queued(t) /\ holder'[t] = w /\ status'[t] \in Busy
    BY DEF Claim, CanClaim, TakeLease, Busy
  <2>2. CASE v = w
    BY <2>1, <2>2
  <2>3. CASE v # w
    <3>1. phase[v][t] \in InHandPhases
      BY <2>3 DEF Claim, Enter
    <3>2. (holder[t] = v /\ status[t] \in Busy) \/ status[t] \in TS!Terminal
      BY <3>1
    <3>3. FALSE
      BY <2>1, <3>2, <1>0 DEF Queued, Busy, Waiting
    <3> QED BY <3>3
  <2> QED BY <2>2, <2>3
<1>3. Adopt(w, t) => Kept
  <2> SUFFICES ASSUME Adopt(w, t) PROVE Kept
    OBVIOUS
  <2>1. phase[w][t] = "claimed"
    BY DEF Adopt
  <2>2. (holder[t] = w /\ status[t] \in Busy) \/ Ended(t)
    BY <2>1
  <2>3. holder[t] = w /\ status[t] \in Busy /\ status[t] # "pending"
    BY <2>2, <1>0 DEF Adopt, Busy
  <2>4. holder'[t] = w /\ UNCHANGED status
    BY <2>3 DEF Adopt
  <2>5. v = w
    BY <2>3, <1>0 DEF Adopt, Enter
  <2> QED BY <2>3, <2>4, <2>5
<1>4. Start(w, t) => Kept
  <2> SUFFICES ASSUME Start(w, t) PROVE Kept
    OBVIOUS
  <2>1. phase[w][t] = "adopted" /\ status[t] \notin TS!Terminal
    BY Edges DEF Start, Move
  <2>2. holder[t] = w /\ "running" \notin TS!Terminal
    BY <2>1, Edges DEF Busy
  <2>3. holder'[t] = w /\ status'[t] \in Busy
    BY <2>2 DEF Start, Move, Busy
  <2>4. CASE v # w
    BY <2>1, <2>2, <2>4, <1>0 DEF Start, Enter
  <2> QED BY <2>3, <2>4
<1>5. ParkBeforeRun(w, t) => Kept
  BY <1>0, Edges DEF ParkBeforeRun, Move, Enter
<1>6. Unhealthy(w, t) => Kept
  BY <1>0, Edges DEF Unhealthy, Move, Enter
<1>7. \A to : \A until : Park(w, t, to, until) => Kept
  BY <1>0, Edges DEF Park, Move, Enter
<1>8. \A to \in {"completed", "failed", "halted"} : Finish(w, t, to) => Kept
  BY DEF Finish, Move, TS!Terminal
<1>9. FailAttempt(w, t) => Kept
  BY <1>0, Edges DEF FailAttempt, Move, Enter
<1>10. Leave(w, t) => Kept
  BY <1>0, Edges DEF Leave, Enter
<1>11. HandBack(w, t) => Kept
  BY <1>0, Edges DEF HandBack, Enter
<1>12. Release(w, t) => Kept
  <2> SUFFICES ASSUME Release(w, t) PROVE Kept
    OBVIOUS
  <2>1. v # w /\ phase[v][t] \in InHandPhases /\ phase[w][t] \in InHandPhases
    BY DEF Release, Enter
  <2>2. status[t] \in TS!Terminal
    BY <2>1
  <2> QED BY <2>2, <1>0 DEF Release, Busy
<1>13. LookAtChild(w, t) \/ NotClaimed(w, t) \/ BeginRun(w, t) \/ TakenForLost(w, t)
       \/ Displaced(w, t) => Kept
  BY <1>1 DEF LookAtChild, NotClaimed, BeginRun, TakenForLost, Displaced, Enter
<1> QED BY <1>2, <1>3, <1>4, <1>5, <1>6, <1>7, <1>8, <1>9, <1>10, <1>11, <1>12, <1>13
        DEF RunNext, RunEnds

\* Whatever moves a task, a worker's step, the owner's or the sweep's, moves it
\* along an edge.
LEMMA StatusStep ==
    ASSUME IInv, NEW t \in Tasks, OutsideNext(t) \/ (\E w \in Workers : RunNext(w, t)),
           NEW u \in Tasks, status'[u] # status[u]
    PROVE  status'[u] \in TS!Transitions[status[u]]
<1> USE DEF IInv, TypeOK
<1> DEFINE Along == status'[u] # status[u] => status'[u] \in TS!Transitions[status[u]]
<1>1. \A to, until : Move(t, to, until) => Along
  BY DEF Move
<1>2. /\ "pending" \in TS!Transitions["new"]
      /\ {"checked_out", "cancelled"} \subseteq TS!Transitions["pending"]
      /\ {"checked_out", "cancelled"} \subseteq TS!Transitions["waiting_window"]
      /\ \A s \in Busy : {"pending", "halted"} \subseteq TS!Transitions[s]
      /\ \A s \in TS!Status \ (TS!Terminal \cup {"new"}) : "cancelled" \in TS!Transitions[s]
  BY DEF TS!Transitions, TS!Status, TS!Terminal, Busy
<1>3. CASE OutsideNext(t)
  <2>1. Create(t) => Along
    BY <1>2 DEF Create
  <2>2. TimePasses(t) => Along
    BY DEF TimePasses
  <2>3. Decide(t) \/ ReviewFails(t) => Along
    BY <1>1 DEF Decide, ReviewFails
  <2>4. CancelTree(t) => Along
    BY <1>2 DEF CancelTree, Live
  <2>5. Lapse(t) => Along
    BY <1>2 DEF Lapse
  <2>6. DeadlinePasses(t) \/ HaltPastDeadline(t) => Along
    BY <1>1 DEF DeadlinePasses, HaltPastDeadline
  <2> QED BY <1>3, <2>1, <2>2, <2>3, <2>4, <2>5, <2>6 DEF OutsideNext
<1>4. CASE \E w \in Workers : RunNext(w, t)
  <2> PICK w \in Workers : RunNext(w, t)
    BY <1>4
  <2>1. TakeLease(w, t) /\ Queued(t) => Along
    BY <1>2 DEF TakeLease, Queued
  <2>2. Claim(w, t) \/ Adopt(w, t) => Along
    BY <2>1 DEF Claim, Adopt, CanClaim
  <2>3. UNCHANGED rows => Along
    BY DEF rows
  <2>4. LookAtChild(w, t) \/ NotClaimed(w, t) \/ BeginRun(w, t) \/ TakenForLost(w, t)
        \/ Displaced(w, t) => UNCHANGED rows
    BY DEF LookAtChild, NotClaimed, BeginRun, TakenForLost, Displaced
  <2>5. RunEnds(w, t) => Along
    BY <1>1 DEF RunEnds, Finish, Park, FailAttempt
  <2>6. Start(w, t) \/ ParkBeforeRun(w, t) \/ Unhealthy(w, t) => Along
    BY <1>1 DEF Start, ParkBeforeRun, Unhealthy
  <2>7. Leave(w, t) => Along
    BY DEF Leave
  <2>8. HandBack(w, t) => Along
    BY <1>2 DEF HandBack
  <2>9. Release(w, t) => Along
    BY <1>2 DEF Release, Busy
  <2> QED BY <2>2, <2>3, <2>4, <2>5, <2>6, <2>7, <2>8, <2>9 DEF RunNext
<1> QED BY <1>3, <1>4

LEMMA IInvStep == IInv /\ [Next]_vars => IInv'
<1> SUFFICES ASSUME IInv, [Next]_vars
             PROVE  IInv'
  OBVIOUS
<1> USE DEF IInv
<1>1. CASE UNCHANGED vars
  BY <1>1 DEF vars, rows, TypeOK, EndedNamesNoWorker, LookedIsChild, HeldInHand, Ended
<1>2. ASSUME NEW t \in Tasks, OutsideNext(t)
      PROVE  IInv'
  <2>1. TypeOK' /\ UNCHANGED phase
    BY <1>2, OutsideStep
  <2>2. \A u \in Tasks : Ended(u)' => holder'[u] = NoWorker
    <3> USE DEF EndedNamesNoWorker, Ended, TypeOK
    <3>1. \A to : Move(t, to, "none") => \A u \in Tasks : Ended(u)' => holder'[u] = NoWorker
      BY DEF Move
    <3>2. "pending" \notin TS!Terminal
      BY DEF TS!Terminal
    <3>3. Create(t) \/ TimePasses(t) \/ Lapse(t)
            => \A u \in Tasks : Ended(u)' => holder'[u] = NoWorker
      BY <3>2 DEF Create, TimePasses, Lapse
    <3>4. CancelTree(t) => \A u \in Tasks : Ended(u)' => holder'[u] = NoWorker
      BY DEF CancelTree
    <3>5. DeadlinePasses(t) => \A u \in Tasks : Ended(u)' => holder'[u] = NoWorker
      BY DEF DeadlinePasses
    <3>6. Decide(t) \/ ReviewFails(t) \/ HaltPastDeadline(t)
            => \A u \in Tasks : Ended(u)' => holder'[u] = NoWorker
      BY <3>1 DEF Decide, ReviewFails, HaltPastDeadline
    <3> QED BY <1>2, <3>3, <3>4, <3>5, <3>6 DEF OutsideNext
  <2>3. ASSUME NEW v \in Workers, NEW u \in Tasks, phase[v][u] \in InHandPhases, Parent[u] = NoTask
        PROVE  (holder'[u] = v /\ status'[u] \in Busy) \/ Ended(u)'
    <3>1. (holder[u] = v /\ status[u] \in Busy) \/ Ended(u)
      BY <2>3 DEF HeldInHand
    <3>2. CASE Ended(u)
      BY <3>2, <1>2, StatusStep, Edges DEF Ended
    <3>3. CASE holder[u] = v /\ status[u] \in Busy
      <4> USE <3>3, <1>2, <2>3, TaskAssumption, Edges DEF TypeOK, Ended, Busy
      <4>1. Create(t) \/ TimePasses(t) => holder'[u] = v /\ status'[u] \in Busy
        BY DEF Create, TimePasses
      <4>2. Decide(t) \/ ReviewFails(t) => holder'[u] = v /\ status'[u] \in Busy
        BY DEF Decide, ReviewFails, Move, Waiting
      <4>3. CancelTree(t) => (holder'[u] = v /\ status'[u] \in Busy) \/ Ended(u)'
        BY DEF CancelTree, TS!Terminal
      <4>4. Lapse(t) => holder'[u] = v /\ status'[u] \in Busy
        BY DEF Lapse, MayHaveLapsed, InHandPhases
      <4>5. DeadlinePasses(t) => holder'[u] = v /\ status'[u] \in Busy
        BY DEF DeadlinePasses
      <4>6. HaltPastDeadline(t) => (holder'[u] = v /\ status'[u] \in Busy) \/ Ended(u)'
        BY DEF HaltPastDeadline, Move, TS!Terminal
      <4> QED BY <4>1, <4>2, <4>3, <4>4, <4>5, <4>6 DEF OutsideNext
    <3> QED BY <3>1, <3>2, <3>3
  <2> QED BY <2>1, <2>2, <2>3 DEF EndedNamesNoWorker, LookedIsChild, HeldInHand, Ended
<1>3. ASSUME NEW t \in Tasks, NEW w \in Workers, RunNext(w, t)
      PROVE  IInv'
  <2>1. TypeOK'
    BY <1>3, RunStep
  <2>2. ASSUME NEW u \in Tasks PROVE Ended(u)' => holder'[u] = NoWorker
    BY <1>3, RunStep, EndedRunStep DEF EndedNamesNoWorker, Ended
  <2>3. ASSUME NEW v \in Workers, NEW u \in Tasks, phase'[v][u] = "looked"
        PROVE  Parent[u] # NoTask
    <3>1. CASE v # w \/ u # t
      BY <1>3, <2>3, <3>1, RunStep DEF LookedIsChild
    <3>2. CASE v = w /\ u = t
      BY <1>3, <2>3, <3>2 DEF LookedIsChild, TypeOK, RunNext, Claim, LookAtChild, Adopt,
         NotClaimed, Start, ParkBeforeRun, Unhealthy, BeginRun, RunEnds, Finish, Park,
         FailAttempt, Leave, TakenForLost, Displaced, HandBack, Release, Enter
    <3> QED BY <3>1, <3>2
  <2>4. ASSUME NEW v \in Workers, NEW u \in Tasks, phase'[v][u] \in InHandPhases,
               Parent[u] = NoTask
        PROVE  (holder'[u] = v /\ status'[u] \in Busy) \/ Ended(u)'
    <3>1. CASE u # t
      BY <1>3, <2>4, <3>1, RunStep DEF HeldInHand, Ended
    <3>2. CASE u = t
      BY <1>3, <2>4, <3>2, HeldRunStep
    <3> QED BY <3>1, <3>2
  <2> QED BY <2>1, <2>2, <2>3, <2>4 DEF EndedNamesNoWorker, LookedIsChild, HeldInHand
<1>4. CASE AccountChanges
  BY <1>4, AccountStep DEF rows, EndedNamesNoWorker, LookedIsChild, HeldInHand, Ended
<1> QED BY <1>1, <1>2, <1>3, <1>4 DEF Next

\* A task without a parent comes in hand by a claim and by nothing else.
LEMMA InHandByClaim ==
    ASSUME IInv, [Next]_vars, NEW u \in Tasks, Parent[u] = NoTask, InHand(u)', ~InHand(u)
    PROVE  \E w \in Workers : Claim(w, u)
<1> USE DEF IInv, TypeOK
<1>1. PICK v \in Workers : status'[u] \in Busy /\ holder'[u] = v /\ phase'[v][u] \in InHandPhases
  BY DEF InHand
<1>2. ~UNCHANGED vars
  BY <1>1 DEF vars, rows, InHand
<1>3. PICK t \in Tasks : OutsideNext(t) \/ \E w \in Workers : RunNext(w, t)
  BY <1>1, <1>2, AccountStep DEF Next, rows, InHand
<1>4. phase[v][u] \notin InHandPhases
  <2> SUFFICES ASSUME phase[v][u] \in InHandPhases PROVE FALSE
    OBVIOUS
  <2>1. Ended(u)
    BY <1>1 DEF HeldInHand, InHand
  <2>2. Ended(u)'
    BY <2>1, <1>3, StatusStep, Edges DEF Ended
  <2> QED BY <2>2, <1>1, Edges DEF Ended
<1>5. PICK w \in Workers : RunNext(w, t)
  BY <1>1, <1>3, <1>4, OutsideStep
<1>6. v = w /\ u = t
  BY <1>1, <1>4, <1>5, RunStep
<1>7. phase[w][t] # "looked"
  BY <1>6 DEF LookedIsChild
<1>8. phase[w][t] \in {"none", "leaving"}
  BY <1>4, <1>6, <1>7 DEF Phases, InHandPhases
<1>9. phase'[w][t] \in InHandPhases
  BY <1>1, <1>6
<1>10. ~Adopt(w, t) /\ ~NotClaimed(w, t) /\ ~Displaced(w, t) /\ ~Release(w, t)
  BY <1>8 DEF Adopt, NotClaimed, Displaced, Release
<1>11. ~Start(w, t) /\ ~ParkBeforeRun(w, t) /\ ~Unhealthy(w, t) /\ ~BeginRun(w, t) /\ ~HandBack(w, t)
  BY <1>8 DEF Start, ParkBeforeRun, Unhealthy, BeginRun, HandBack
<1>12. ~RunEnds(w, t)
  BY <1>8 DEF RunEnds, Finish, Park, FailAttempt
<1>13. ~LookAtChild(w, t) /\ ~Leave(w, t) /\ ~TakenForLost(w, t)
  BY <1>8, <1>9 DEF LookAtChild, Leave, TakenForLost, Enter, InHandPhases
<1>14. Claim(w, t)
  BY <1>5, <1>6, <1>10, <1>11, <1>12, <1>13 DEF RunNext
<1> QED BY <1>6, <1>14

\* What is in hand besides t when t is claimed counts against t's places.
LEMMA InHandIsBusy ==
    ASSUME NEW t \in Tasks, NEW u \in Tasks \ {t}, InHand(u)
    PROVE  u \in OthersBusy(t)
  BY DEF InHand, OthersBusy

LEMMA LaneStep == IInv /\ LaneWorksOne /\ [Next]_vars => LaneWorksOne'
<1> SUFFICES ASSUME IInv, LaneWorksOne, [Next]_vars, NEW t \in Tasks, NEW u \in Tasks,
                    t # u, Lane[t] = Lane[u], Lane[t] # NoLane, InHand(t)', InHand(u)'
             PROVE  FALSE
  BY DEF LaneWorksOne
<1>1. Parent[t] = NoTask /\ Parent[u] = NoTask
  BY TaskAssumption
<1>2. ASSUME NEW x \in Tasks, NEW y \in Tasks, x # y, Lane[x] = Lane[y], Lane[x] # NoLane,
             Parent[x] = NoTask, InHand(x)', ~InHand(x)
      PROVE  ~InHand(y) /\ UNCHANGED <<status[y], holder[y]>>
             /\ (\A v \in Workers : phase'[v][y] = phase[v][y])
  <2>1. PICK w \in Workers : Claim(w, x)
    BY <1>2, InHandByClaim
  <2>2. LaneFree(x)
    BY <2>1 DEF Claim, CanClaim
  <2>3. ~InHand(y)
    BY <2>2, <1>2, InHandIsBusy DEF LaneFree
  <2> QED BY <2>1, <2>3, <1>2, RunStep DEF RunNext, IInv
<1>3. ~InHand(t) \/ ~InHand(u)
  BY DEF LaneWorksOne
<1>4. \A y \in Tasks : ~InHand(y) /\ UNCHANGED <<status[y], holder[y]>>
         /\ (\A v \in Workers : phase'[v][y] = phase[v][y]) => ~InHand(y)'
  BY DEF InHand
<1> QED BY <1>1, <1>2, <1>3, <1>4

LEMMA DivisionStep == IInv /\ DivisionWithinLimit /\ [Next]_vars => DivisionWithinLimit'
<1> SUFFICES ASSUME IInv, DivisionWithinLimit, [Next]_vars, NEW d \in DOMAIN MaxConcurrency
             PROVE  Cardinality({t \in Tasks : Division[t] = d /\ Parent[t] = NoTask /\ InHand(t)'})
                       <= MaxConcurrency[d]
  BY DEF DivisionWithinLimit
<1> DEFINE Worked == {t \in Tasks : Division[t] = d /\ Parent[t] = NoTask /\ InHand(t)}
           Then == {t \in Tasks : Division[t] = d /\ Parent[t] = NoTask /\ InHand(t)'}
<1>1. IsFiniteSet(Worked) /\ Cardinality(Worked) \in Nat /\ MaxConcurrency[d] \in Nat
  BY TaskAssumption, FS_Subset, FS_CardinalityType
<1>2. CASE Then \subseteq Worked
  <2>1. Cardinality(Then) <= Cardinality(Worked) /\ Cardinality(Then) \in Nat
    BY <1>1, <1>2, FS_Subset, FS_CardinalityType
  <2>2. Cardinality(Worked) <= MaxConcurrency[d]
    BY DEF DivisionWithinLimit
  <2> QED BY <1>1, <2>1, <2>2
<1>3. CASE ~(Then \subseteq Worked)
  <2>1. PICK t \in Then : t \notin Worked
    BY <1>3
  <2>2. PICK w \in Workers : Claim(w, t)
    BY <2>1, InHandByClaim
  <2> DEFINE Others == {u \in OthersBusy(t) : Division[u] = Division[t]}
  <2>3. Cardinality(Others) < MaxConcurrency[d]
    BY <2>1, <2>2 DEF Claim, CanClaim, PlaceFree
  <2>4. IsFiniteSet(Others) /\ t \notin Others
    BY TaskAssumption, FS_Subset DEF OthersBusy
  <2>5. Then \subseteq Others \cup {t}
    <3>1. \A u \in Then : u # t => InHand(u)
      BY <2>2, RunStep DEF InHand, RunNext, IInv
    <3> QED BY <2>1, <3>1, InHandIsBusy
  <2>6. IsFiniteSet(Others \cup {t}) /\ Cardinality(Others \cup {t}) = Cardinality(Others) + 1
    BY <2>4, FS_AddElement
  <2>7. Cardinality(Then) <= Cardinality(Others \cup {t}) /\ Cardinality(Then) \in Nat
    BY <2>5, <2>6, FS_Subset, FS_CardinalityType
  <2>8. Cardinality(Others) \in Nat
    BY <2>4, FS_CardinalityType
  <2> QED BY <1>1, <2>3, <2>6, <2>7, <2>8
<1> QED BY <1>2, <1>3

-----------------------------------------------------------------------------
\* The types, and a task that ended, or was cancelled from under a run, is
\* never given to a worker again (adoptLease, claimTask).
THEOREM EndedIsFree == Spec => [](TypeOK /\ EndedNamesNoWorker)
<1>1. IInv => TypeOK /\ EndedNamesNoWorker
  BY DEF IInv
<1> QED BY IInvInit, IInvStep, <1>1, PTL DEF Spec

\* F5.13: two tasks of one lane are never at work at once (CLAIM_SQL).
THEOREM OneOfALane == Spec => []LaneWorksOne
<1>1. Init => LaneWorksOne
  BY TaskAssumption DEF Init, LaneWorksOne, InHand
<1> QED BY IInvInit, IInvStep, LaneStep, <1>1, PTL DEF Spec

\* F5.7: a division has no more tasks of its own at work than its limit
\* (CLAIM_SQL).
THEOREM DivisionLimit == Spec => []DivisionWithinLimit
<1>1. Init => DivisionWithinLimit
  <2> SUFFICES ASSUME Init, NEW d \in DOMAIN MaxConcurrency
               PROVE  Cardinality({t \in Tasks : Division[t] = d /\ Parent[t] = NoTask /\ InHand(t)})
                         <= MaxConcurrency[d]
    BY DEF DivisionWithinLimit
  <2>1. {t \in Tasks : Division[t] = d /\ Parent[t] = NoTask /\ InHand(t)} = {}
    BY TaskAssumption DEF Init, InHand
  <2> QED BY <2>1, FS_EmptySet, TaskAssumption
<1> QED BY IInvInit, IInvStep, DivisionStep, <1>1, PTL DEF Spec

\* The claim's, the sweep's and the cancellation's own SQL implement the state
\* machine of domain/task.ts.
THEOREM EnginesFollowTheTable == Spec => StatusMachine
<1>1. Init => TS!Init
  BY DEF Init, TS!Init
<1>2. IInv /\ [Next]_vars => [TS!Next]_status
  <2> SUFFICES ASSUME IInv, [Next]_vars PROVE [TS!Next]_status
    OBVIOUS
  <2>1. CASE UNCHANGED vars
    BY <2>1 DEF vars, rows
  <2>2. CASE AccountChanges
    BY <2>2 DEF AccountChanges, rows
  <2>3. CASE Next /\ ~AccountChanges
    BY <2>3, StatusStep, IInvStep DEF Next, TS!Next, IInv, TypeOK
  <2> QED BY <2>1, <2>2, <2>3
<1> QED BY IInvInit, IInvStep, <1>1, <1>2, PTL DEF Spec, StatusMachine, TS!Spec

\* A row is one the schema takes: a task's lease, its holder and its status.
THEOREM RowsAreTyped == Spec => []TypeOK
<1>1. IInv => TypeOK
  BY DEF IInv
<1> QED BY <1>1, IInvInit, IInvStep, PTL DEF Spec
=============================================================================
