------------------------------ MODULE TaskTree ------------------------------
(***************************************************************************)
(* The tree of tasks and what bounds it: a run makes sub-tasks             *)
(* (engine/tasks.ts createSubTask), a worker hands completed tasks over to *)
(* the role that comes next (engine/handoff.ts), and the owner cancels a   *)
(* task with everything under it (engine/owner-control.ts).                *)
(*                                                                         *)
(* Tasks are all the tasks there could be; the key of a sub-task is made   *)
(* of its parent, role and input, so a task of the model is one key.       *)
(* A parent is read and its children are counted without a lock, and a     *)
(* handoff is decided in one transaction and recorded in another.          *)
(***************************************************************************)
EXTENDS Integers, FiniteSets, Sequences

CONSTANTS
    Tasks, Root, NoTask,
    Parent,         \* tasks.parent_task_id
    Above,          \* a task and its ancestors: the tree upwards
    Successors,     \* made by a handoff, when the parent completes
    Cyclic,         \* a task with the role and input of one above it
    Runs,           \* steps of runs in flight, each making one sub-task
    Workers,        \* workers that hand off
    HopMax,         \* hop_max
    FanOutMax,      \* DEFAULT_FAN_OUT_MAX
    Batch,          \* HANDOFF_BATCH
    MaxCrashes      \* bound: passes that are cut off, and makings that fail

ASSUME TreeAssumption ==
    /\ NoTask \notin Tasks /\ Root \in Tasks /\ Runs \cap Workers = {} /\ IsFiniteSet(Runs)
    /\ Parent \in [Tasks -> Tasks \cup {NoTask}]
    /\ \A t \in Tasks : Parent[t] = NoTask <=> t = Root
    /\ \A t \in Tasks : Above[t] = {t} \cup (IF t = Root THEN {} ELSE Above[Parent[t]])
    /\ Successors \subseteq Tasks /\ Cyclic \subseteq Tasks
    \* One rule for each role: a task has one successor at most.
    /\ \A s, t \in Successors : Parent[s] = Parent[t] => s = t
    /\ {HopMax, FanOutMax, MaxCrashes} \subseteq Nat /\ Batch \in Nat \ {0}

Makers == Runs \cup Workers

VARIABLES
    status,     \* tasks.status; "none" until it is made
    finished,   \* completed tasks with a handoff to come, by finished_at
    aged,       \* how many of them, the first, are older than HANDOFF_LOOKBACK_MS
    ledger,     \* task_handoffs.outcome by the completed task
    refusing,   \* "paused": the spend pause, or a frozen role; "poor": the budget
                \* funds no further task; else "no"
    call,       \* how far a call of createSubTask has come, and the handoff around it
    crashes

vars == <<status, finished, aged, ledger, refusing, call, crashes>>

\* "completed" is one with a handoff to come, "ended" any other end.
TaskStatuses == {"none", "live", "completed", "ended", "cancelled"}

\* A refusal "lifts" by MAY_LIFT, or is for good: "final" is of a limit or a cycle,
\* "failed" is any other error.
Outcomes == {"none", "created", "lifts", "final", "failed"}
Steps == {"off", "next", "look", "insert", "record"}

\* What a pass read of an owed completion: its place by finished_at, and its row.
Rows == [at : Nat, row : Outcomes]

Off == [at |-> "off", of |-> NoTask, child |-> NoTask, list |-> {}, says |-> "none"]

Init ==
    /\ status = [t \in Tasks |-> IF t = Root THEN "live" ELSE "none"]
    /\ finished = <<>> /\ aged = 0
    /\ ledger = [t \in Tasks |-> "none"]
    /\ refusing = "no"
    /\ call = [m \in Makers |-> Off]
    /\ crashes = 0

-----------------------------------------------------------------------------
(* createSubTask.                                                          *)

HopDepth(t) == Cardinality(Above[t]) - 1

Children(p) == {t \in Tasks : Parent[t] = p /\ status[t] # "none"}

\* Mutated: the count lets one more through.
RoomForOneMore(p) == Cardinality(Children(p)) <= FanOutMax

Room(p) == Cardinality(Children(p)) < FanOutMax

\* What forbids a task for as long as the tree is as it is.
Limited(t) == HopDepth(t) > HopMax \/ ~Room(Parent[t]) \/ t \in Cyclic

\* Mutated: a refusal of the pause is for good.
FoundForGood(t) ==
    CASE refusing = "paused" -> "final"
      [] refusing # "paused" /\ status[t] # "none" -> "created"
      [] refusing # "paused" /\ status[t] = "none" /\ Limited(t) -> "final"
      [] OTHER -> "room"

\* What is found, in the order it is looked for, before the reservation.
Found(t) ==
    CASE refusing = "paused" -> "lifts"
      [] refusing # "paused" /\ status[t] # "none" -> "created"
      [] refusing # "paused" /\ status[t] = "none" /\ Limited(t) -> "final"
      [] OTHER -> "room"

\* The reservation and the insert; of two inserts of one key the later adopts
\* the task of the earlier.
Inserted(t) == IF refusing = "poor" THEN "lifts" ELSE "created"
Insert(t) ==
    status' = IF refusing # "poor" /\ status[t] = "none" THEN [status EXCEPT ![t] = "live"] ELSE status

-----------------------------------------------------------------------------
(* A run's step that makes a sub-task.                                     *)

\* Mutated: the step does not renew its lease first.
HeldOrNot(t) == status[Parent[t]] # "none"

\* lease.confirm, which a task that has ended refuses: the lease went with it.
Confirmed(t) == status[Parent[t]] = "live"

Ask(m, t) ==
    /\ call[m].at = "off"
    /\ t \notin Successors /\ t # Root /\ Confirmed(t)
    /\ call' = [call EXCEPT ![m] = [Off EXCEPT !.at = "look", !.child = t]]
    /\ UNCHANGED <<status, finished, aged, ledger, refusing, crashes>>

Look(m) ==
    /\ call[m].at = "look"
    /\ call' = IF Found(call[m].child) = "room" THEN [call EXCEPT ![m].at = "insert"]
               ELSE [call EXCEPT ![m] = Off]
    /\ UNCHANGED <<status, finished, aged, ledger, refusing, crashes>>

Make(m) ==
    /\ call[m].at = "insert"
    /\ Insert(call[m].child)
    /\ call' = [call EXCEPT ![m] = Off]
    /\ UNCHANGED <<finished, aged, ledger, refusing, crashes>>

-----------------------------------------------------------------------------
(* processHandoffs.                                                        *)

Successor(p) == {s \in Successors : Parent[s] = p}

\* Mutated: a refusal is never looked at again.
OwedOnce(p) == status[p] = "completed" /\ ledger[p] = "none"

\* Not decided, or refused for a reason that may lift.
Owed(p) == status[p] = "completed" /\ ledger[p] \in {"none", "lifts"}

OwedPlaces == {i \in aged + 1 .. Len(finished) : Owed(finished[i])}

\* HANDOFF_BATCH of them, by finished_at, which is looked back on for a week.
BatchOf(owed) == {i \in owed : Cardinality({j \in owed : j < i}) < Batch}

\* A pass takes the first of them, with the refusal each row shows by then.
List(w) ==
    LET taken == BatchOf(OwedPlaces) IN
    /\ call[w].at = "off" /\ taken # {}
    /\ call' = [call EXCEPT ![w] = [Off EXCEPT !.at = "next",
                    !.list = {[at |-> i, row |-> ledger[finished[i]]] : i \in taken}]]
    /\ UNCHANGED <<status, finished, aged, ledger, refusing, crashes>>

Say(w, s, says) == call' = [call EXCEPT ![w].at = "record", ![w].child = s, ![w].says = says]

\* The next of them, in order.  A successor that is there while no row was: handed
\* over before.
TakeUp(w) ==
    /\ call[w].at = "next"
    /\ \E x \in call[w].list : \E s \in Successor(finished[x.at]) :
          /\ \A y \in call[w].list : x.at <= y.at
          /\ LET there == x.row = "none" /\ status[s] # "none" IN
             call' = [call EXCEPT ![w] =
                [at |-> IF there THEN "record" ELSE "look", of |-> finished[x.at], child |-> s,
                 list |-> call[w].list \ {x}, says |-> IF there THEN "created" ELSE "none"]]
    /\ UNCHANGED <<status, finished, aged, ledger, refusing, crashes>>

LookHandoff(w) ==
    LET s == call[w].child IN
    /\ call[w].at = "look"
    /\ IF Found(s) = "room" THEN call' = [call EXCEPT ![w].at = "insert"] ELSE Say(w, s, Found(s))
    /\ UNCHANGED <<status, finished, aged, ledger, refusing, crashes>>

MakeSuccessor(w) ==
    LET s == call[w].child IN
    /\ call[w].at = "insert"
    /\ Insert(s) /\ Say(w, s, Inserted(s))
    /\ UNCHANGED <<finished, aged, ledger, refusing, crashes>>

\* createSubTask throws what may not lift and is no limit: the role is incomplete,
\* the database refused a statement, the answer to the commit is lost.
Fails(w) ==
    LET s == call[w].child IN
    /\ call[w].at \in {"look", "insert"} /\ crashes < MaxCrashes
    /\ crashes' = crashes + 1
    /\ UNCHANGED status \/ (call[w].at = "insert" /\ Insert(s))
    /\ Say(w, s, "failed")
    /\ UNCHANGED <<finished, aged, ledger, refusing>>

\* The row is written over whatever it says by now.
Record(w) ==
    /\ call[w].at = "record"
    /\ ledger' = [ledger EXCEPT ![call[w].of] = call[w].says]
    /\ call' = [call EXCEPT ![w] = IF call[w].list = {} THEN Off
                                   ELSE [Off EXCEPT !.at = "next", !.list = call[w].list]]
    /\ UNCHANGED <<status, finished, aged, refusing, crashes>>

\* A pass is cut off: the worker dies, or the database refuses a statement around
\* createSubTask.
CutOff(w) ==
    /\ call[w].at # "off" /\ crashes < MaxCrashes
    /\ crashes' = crashes + 1
    /\ call' = [call EXCEPT ![w] = Off]
    /\ UNCHANGED <<status, finished, aged, ledger, refusing>>

-----------------------------------------------------------------------------
(* The tasks, and the owner.                                               *)

\* A task that can have nothing under it is left live, but for what it is under:
\* its end would change no count, and a live one is what a cancellation can miss.
Ends(t) == status[t] = "live" /\ \E u \in Tasks : Parent[u] = t

End(t) ==
    /\ Ends(t)
    /\ \/ /\ Successor(t) # {}
          /\ status' = [status EXCEPT ![t] = "completed"]
          /\ finished' = Append(finished, t)
       \/ status' = [status EXCEPT ![t] = "ended"] /\ UNCHANGED finished
    /\ UNCHANGED <<aged, ledger, refusing, call, crashes>>

\* cancelTask: whatever is live under the task, one statement.
Cancel(t) ==
    /\ Ends(t)
    /\ status' = [u \in Tasks |-> IF t \in Above[u] /\ status[u] = "live" THEN "cancelled"
                                  ELSE status[u]]
    /\ UNCHANGED <<finished, aged, ledger, refusing, call, crashes>>

\* A ceiling or a pause is met, raised or lifted; a role frozen or thawed.
Refuse ==
    /\ refusing' \in {"no", "paused", "poor"} \ {refusing}
    /\ UNCHANGED <<status, finished, aged, ledger, call, crashes>>

\* A completion is seven days old.
Ages ==
    /\ aged < Len(finished)
    /\ aged' = aged + 1
    /\ UNCHANGED <<status, finished, ledger, refusing, call, crashes>>

-----------------------------------------------------------------------------
Pass(w) == List(w) \/ TakeUp(w) \/ LookHandoff(w) \/ MakeSuccessor(w) \/ Record(w)

Next ==
    \/ \E m \in Runs : Look(m) \/ Make(m) \/ \E t \in Tasks : Ask(m, t)
    \/ \E w \in Workers : Pass(w) \/ Fails(w) \/ CutOff(w)
    \/ \E t \in Tasks : End(t) \/ Cancel(t)
    \/ Refuse \/ Ages

Spec == Init /\ [][Next]_vars

\* Every tick of a worker hands off; nobody else owes anything.
Fairness == \A w \in Workers : WF_vars(Pass(w))

FairSpec == Spec /\ Fairness

-----------------------------------------------------------------------------
(* Properties.                                                             *)

CallType == [at : Steps, of : Tasks \cup {NoTask}, child : Tasks \cup {NoTask},
             list : SUBSET Rows, says : Outcomes]

TypeOK ==
    /\ status \in [Tasks -> TaskStatuses]
    /\ ledger \in [Tasks -> Outcomes]
    /\ refusing \in {"no", "paused", "poor"} /\ crashes \in 0 .. MaxCrashes
    /\ finished \in Seq(Tasks) /\ aged \in 0 .. Len(finished)
    /\ \A i \in DOMAIN finished : status[finished[i]] = "completed"
    /\ call \in [Makers -> CallType]
    \* Of what a pass has read it has a batch before it.
    /\ \A w \in Workers : \A x \in call[w].list :
          /\ x.at \in DOMAIN finished
          /\ Cardinality({y \in call[w].list : y.at < x.at}) < Batch

\* The fan-out is counted without a lock, and exceeded by no more than the calls
\* that may be past the count with the last one to keep within it: the steps in
\* flight, or one fewer and the handoff, which is one however many workers do it.
FanOutOvershoot ==
    \A t \in Tasks : Cardinality(Children(t)) <= FanOutMax + Cardinality(Runs)

\* Of the sub-tasks of a cancelled task only those are live whose making was
\* under way, one for each step in flight: a run that lost its task so starts
\* no other.
LeftBehindWereUnderWay ==
    \A t \in Tasks : status[t] = "cancelled" =>
        Cardinality({u \in Children(t) : status[u] = "live"}) <= Cardinality(Runs)

\* What the ledger says is so: a successor recorded is there, and a refusal for
\* good is of a limit that is reached or a cycle, neither of which will lift,
\* unless the making failed in some other way (which is for good as well).
LedgerIsTrue ==
    \A p \in Tasks : \A s \in Successor(p) :
        /\ ledger[p] = "created" => status[s] # "none"
        /\ ledger[p] = "final" => Limited(s)

\* A week has passed since p completed.
Stale(p) == \E i \in 1 .. aged : finished[i] = p

Before(p) == {finished[j] : j \in {j \in DOMAIN finished :
                 \E i \in DOMAIN finished : finished[i] = p /\ aged < j /\ j < i}}

\* As many refusals that may lift come before p as a pass takes.
Crowded(p) == Cardinality({q \in Before(p) : ledger[q] = "lifts"}) >= Batch

Undecided(p) == status[p] = "completed" /\ ledger[p] \notin {"created", "final", "failed"}

\* A completion owed a successor is decided within its week (F6.3), however often
\* passes are cut off and two workers decide at once: unless again and again the
\* owner's limits refuse it, or refusals before it fill the pass.
HandoffsAreDecided ==
    \A p \in {Parent[s] : s \in Successors} :
       Undecided(p) ~> \/ ~Undecided(p) \/ Stale(p)
                       \/ []<>(refusing # "no" \/ Crowded(p))
=============================================================================
