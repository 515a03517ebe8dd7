----------------------------- MODULE Deliveries -----------------------------
(***************************************************************************)
(* How work comes in from outside and is looked at: deliveries to one      *)
(* trigger (scheduler/triggers.ts receiveHook), the wake queue of the role *)
(* they are for (scheduler/wake.ts enqueueWake, scheduleHeartbeats,        *)
(* drainWakes), and the claim stage of the worker's tick beside it.        *)
(*                                                                         *)
(* Every action is one transaction.  A delivery is its key, which is also  *)
(* the idempotency key of its task, so the two have one name.  The hour of *)
(* the rate slides: a row is counted or is older than that.                *)
(***************************************************************************)
EXTENDS Integers, FiniteSets

CONSTANTS
    Hooks,          \* deliveries, by their key
    NoKey,
    Requests,       \* requests the server handles at once
    Drainers,       \* workers
    Entries,        \* bound: places of the wake queue
    MaxPerHour,     \* triggers.max_per_hour
    MaxCrashes      \* bound: requests and passes that are cut off

ASSUME DeliveryAssumption ==
    /\ NoKey \notin Hooks
    /\ {MaxPerHour, MaxCrashes} \subseteq Nat
    /\ IsFiniteSet(Requests) /\ Requests # {}

VARIABLES
    delivery,   \* trigger_deliveries: outcome, and whether received_at is over an hour ago
    taskOf,     \* the task of a key: whether it waits or was claimed
    request,    \* how far a request has come, and with which key
    open,       \* wake_queue: entries neither consumed nor folded into another
    worker,     \* how far a worker has come with the queue, the entries it read, and
                \* whether the claim for the one at hand found a task
    barred,     \* the claim passes over the role's tasks: their account is short, their
                \* division's places are taken, or more urgent work goes first
    crashes

deliveryVars == <<delivery, taskOf, request, open, worker, barred, crashes>>
work == <<delivery, taskOf, request>>

NoRequest == [at |-> "off", key |-> NoKey]
Idle == [at |-> "idle", left |-> {}, got |-> FALSE]

DeliveriesInit ==
    /\ delivery = [k \in Hooks |-> [is |-> "none", old |-> FALSE]]
    /\ taskOf = [k \in Hooks |-> "none"]
    /\ request = [s \in Requests |-> NoRequest]
    /\ open = {}
    /\ worker = [w \in Drainers |-> Idle]
    /\ barred \in BOOLEAN
    /\ crashes = 0

-----------------------------------------------------------------------------
(* The wake queue.                                                         *)

\* An entry a worker has read is not another one yet.
FreeEntries == Entries \ (open \cup UNION {worker[w].left : w \in Drainers})

\* A new entry, or a fold into an open one less than a minute away.
EnqueueWake ==
    \/ open # {} /\ UNCHANGED open
    \/ FreeEntries # {} /\ open' = open \cup {CHOOSE i \in FreeEntries : TRUE}

-----------------------------------------------------------------------------
(* receiveHook.                                                            *)

Go(s, at) == request' = [request EXCEPT ![s].at = at]
Answered(s) == request' = [request EXCEPT ![s] = NoRequest]

Counted == {k \in Hooks : delivery[k].is = "started" /\ ~delivery[k].old}

\* Mutated: one more than the rate.
RoomForOneMore == Cardinality(Counted) <= MaxPerHour

UnderTheRate == Cardinality(Counted) < MaxPerHour

\* Under the trigger's row lock; one that was started is answered with its task.
Decide(s, k) ==
    /\ request[s].at = "off" /\ delivery[k].is # "started"
    /\ IF UnderTheRate
       THEN request' = [request EXCEPT ![s] = [at |-> "decided", key |-> k]] /\ UNCHANGED delivery
       ELSE /\ delivery' = [delivery EXCEPT ![k] = IF @.is = "none" THEN [is |-> "limited", old |-> FALSE]
                                                 ELSE @]
            /\ UNCHANGED request
    /\ UNCHANGED <<taskOf, open, worker, barred, crashes>>

\* createRootTask: by its key, the task that is there or a new one.
MakeTask(k) == taskOf' = [taskOf EXCEPT ![k] = IF @ = "none" THEN "waits" ELSE @]

Make(s) ==
    /\ request[s].at = "decided"
    /\ MakeTask(request[s].key) /\ Go(s, "made")
    /\ UNCHANGED <<delivery, open, worker, barred, crashes>>

\* The role is frozen, spending is paused or the budget is spent.
Refused(s) ==
    /\ request[s].at = "decided"
    /\ Answered(s)
    /\ UNCHANGED <<delivery, taskOf, open, worker, barred, crashes>>

\* Mutated: a row that is there is left as it is.
RecordOnce(s) ==
    LET k == request[s].key IN
    /\ request[s].at = "made"
    /\ delivery' = [delivery EXCEPT ![k] = IF @.is = "none" THEN [is |-> "started", old |-> FALSE] ELSE @]
    /\ request' = [request EXCEPT ![s] = [at |-> "recorded", key |-> NoKey]]
    /\ UNCHANGED <<taskOf, open, worker, barred, crashes>>

\* A row that is there keeps its received_at.
Record(s) ==
    LET k == request[s].key IN
    /\ request[s].at = "made"
    /\ delivery' = [delivery EXCEPT ![k] = [@ EXCEPT !.is = "started"]]
    /\ request' = [request EXCEPT ![s] = [at |-> "recorded", key |-> NoKey]]
    /\ UNCHANGED <<taskOf, open, worker, barred, crashes>>

Enqueue(s) ==
    /\ request[s].at = "recorded"
    /\ EnqueueWake
    /\ Answered(s)
    /\ UNCHANGED <<delivery, taskOf, worker, barred, crashes>>

\* The server dies, or the database refuses a statement.
CutOff(s) ==
    /\ request[s].at # "off" /\ crashes < MaxCrashes
    /\ crashes' = crashes + 1
    /\ Answered(s)
    /\ UNCHANGED <<delivery, taskOf, open, worker, barred>>

-----------------------------------------------------------------------------
(* The worker: heartbeats, wakes, claim.                                   *)

\* scheduleHeartbeats queues a wake for a role that is due.  When it is
\* (roles.dormant_until) is left open: nothing else reads it.
QueueBeat(w) ==
    /\ worker[w].at = "idle"
    /\ EnqueueWake
    /\ UNCHANGED <<work, worker, barred, crashes>>

Waiting == {k \in Hooks : taskOf[k] = "waits"}

\* claimTask, as Checkout has it: one of the role's tasks, unless CLAIM_SQL bars
\* them all.  They are of one account, division and reservation, and have no
\* deadline.
Claimed == ~barred /\ \E k \in Waiting : taskOf' = [taskOf EXCEPT ![k] = "claimed"]
NothingToClaim == UNCHANGED taskOf

\* drainWakes: the due entries are read.
List(w) ==
    /\ worker[w].at = "idle" /\ open # {}
    /\ worker' = [worker EXCEPT ![w] = [at |-> "drain", left |-> open, got |-> FALSE]]
    /\ UNCHANGED <<work, open, barred, crashes>>

\* For each of them a claim ...
ClaimForWake(w) ==
    /\ worker[w].at = "drain"
    /\ \/ Claimed /\ worker' = [worker EXCEPT ![w].at = "spend", ![w].got = TRUE]
       \/ NothingToClaim /\ worker' = [worker EXCEPT ![w].at = "spend", ![w].got = FALSE]
    /\ UNCHANGED <<delivery, request, open, barred, crashes>>

AfterSpending(got, rest) ==
    IF got \/ rest = {} THEN Idle ELSE [at |-> "drain", left |-> rest, got |-> FALSE]

\* Mutated: a wake that found nothing stays due.
SpendIfClaimed(w) ==
    /\ worker[w].at = "spend"
    /\ \E i \in worker[w].left :
          LET rest == worker[w].left \ {i} IN
          /\ open' = IF worker[w].got THEN open \ {i} ELSE open
          /\ worker' = [worker EXCEPT ![w] = AfterSpending(worker[w].got, rest)]
    /\ UNCHANGED <<work, barred, crashes>>

\* ... and the entry is consumed (consumeWake), whether or not it found a task;
\* a pass ends when the tick has the tasks it will run.
Spend(w) ==
    /\ worker[w].at = "spend"
    /\ \E i \in worker[w].left :
          LET rest == worker[w].left \ {i} IN
          /\ open' = open \ {i}
          /\ worker' = [worker EXCEPT ![w] = AfterSpending(worker[w].got, rest)]
    /\ UNCHANGED <<work, barred, crashes>>

\* Mutated: the queue is the only reason to look.
ClaimWhenWoken(w) ==
    /\ worker[w].at = "idle" /\ open # {}
    /\ Claimed
    /\ UNCHANGED <<delivery, request, open, worker, barred, crashes>>

\* The claim stage, which looks at every role.
Claim(w) ==
    /\ worker[w].at = "idle"
    /\ Claimed
    /\ UNCHANGED <<delivery, request, open, worker, barred, crashes>>

\* The worker dies, or its stage fails.
Stops(w) ==
    /\ worker[w].at # "idle" /\ crashes < MaxCrashes
    /\ crashes' = crashes + 1
    /\ worker' = [worker EXCEPT ![w] = Idle]
    /\ UNCHANGED <<work, open, barred>>

-----------------------------------------------------------------------------
\* A delivery leaves the hour that counts.
HourPasses ==
    /\ \E k \in Hooks : /\ delivery[k].is # "none" /\ ~delivery[k].old
                        /\ delivery' = [delivery EXCEPT ![k].old = TRUE]
    /\ UNCHANGED <<taskOf, request, open, worker, barred, crashes>>

\* Other work takes and gives back places, and spends what the account has; the
\* owner raises ceilings, or does not.
BarChanges ==
    /\ barred' = ~barred
    /\ UNCHANGED <<work, open, worker, crashes>>

Server(s) == Make(s) \/ Refused(s) \/ Record(s) \/ Enqueue(s)

Arrival(s) == \E k \in Hooks : Decide(s, k)

Drain(w) == List(w) \/ ClaimForWake(w) \/ Spend(w)

WorkerTick(w) == QueueBeat(w) \/ Drain(w) \/ Claim(w)

DeliveriesNext ==
    \/ \E s \in Requests : Arrival(s) \/ Server(s) \/ CutOff(s)
    \/ \E w \in Drainers : WorkerTick(w) \/ Stops(w)
    \/ HourPasses \/ BarChanges

DeliveriesSpec == DeliveriesInit /\ [][DeliveriesNext]_deliveryVars

\* A tick comes to each of its stages, and a claim that goes on being possible is
\* made.  Nothing is assumed of senders, who may never try again, of heartbeats,
\* nor of a claim becoming possible.
Fairness ==
    \A w \in Drainers : WF_deliveryVars(Drain(w)) /\ SF_deliveryVars(List(w)) /\ SF_deliveryVars(Claim(w))

DeliveriesFairSpec == DeliveriesSpec /\ Fairness

-----------------------------------------------------------------------------
(* Properties.                                                             *)

DeliveriesTypeOK ==
    /\ delivery \in [Hooks -> [is : {"none", "limited", "started"}, old : BOOLEAN]]
    /\ taskOf \in [Hooks -> {"none", "waits", "claimed"}]
    /\ request \in [Requests -> [at : {"off", "decided", "made", "recorded"}, key : Hooks \cup {NoKey}]]
    /\ \A s \in Requests : request[s].at \in {"off", "recorded"} <=> request[s].key = NoKey
    /\ open \subseteq Entries
    /\ worker \in [Drainers -> [at : {"idle", "drain", "spend"},
                               left : SUBSET Entries, got : BOOLEAN]]
    /\ barred \in BOOLEAN
    /\ crashes \in 0 .. MaxCrashes

\* The rate is looked at under a lock and what was started is recorded after it
\* is gone: the rate is exceeded by no more than the other requests of the moment.
RateOvershoot == Cardinality(Counted) <= MaxPerHour + Cardinality(Requests) - 1

\* A delivery that is down as refused, so that its sender will try again, is not
\* being worked on: unless a request of the same delivery is just making its
\* task, or one was cut off there.
RefusedIsNotStarted ==
    \A k \in Hooks : delivery[k].is = "limited" /\ taskOf[k] # "none" =>
        crashes > 0 \/ \E s \in Requests : request[s] = [at |-> "made", key |-> k]

\* A task is claimed, though the request that made it was cut off before it
\* queued a wake, or its wake was folded into one whose look was over: as there
\* are finitely many, again and again none is left waiting.  It waits as long as
\* the claim is barred, for good or ever anew: nothing else keeps it.
MadeIsClaimed == []<>(Waiting = {}) \/ []<>barred

\* An entry of the queue is spent, whether or not there was anything to do, and
\* whichever worker read it and died.
WakesAreSpent == \A i \in Entries : i \in open ~> i \notin open
=============================================================================
