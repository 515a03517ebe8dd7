----------------------------- MODULE Approvals -----------------------------
(***************************************************************************)
(* One task whose run makes one call that needs the owner's yes: the       *)
(* journal that claims and commits the step (engine/journal.ts), the       *)
(* broker's way to the vendor (broker.ts), and the owner's cards           *)
(* (inbox.ts), with several workers, of which all but one have lost the    *)
(* task and may not know it yet.                                           *)
(*                                                                         *)
(* A proposal is a capability with its input: it is what a card is about   *)
(* (actionFingerprint), what the step is found by, and what the vendor's   *)
(* key is made from (callKey).  A card makes way for another proposal of   *)
(* its capability, not for one of another.  Taking a task is one action    *)
(* here; Checkout and Leases have its steps.                               *)
(***************************************************************************)
EXTENDS Integers, Sequences

CONSTANTS
    Workers, NoWorker,
    Proposals, NoProposal,
    CapabilityOf, \* the capability of each proposal
    AttemptMax,   \* task.attempt_max
    First,        \* bound: what the model proposes before any question
    MaxLost,      \* bound: how many workers lose the task
    MaxAsks       \* bound: how often the owner asks instead of deciding

ASSUME ApprovalsAssumption ==
    /\ NoWorker \notin Workers /\ NoProposal \notin Proposals
    /\ AttemptMax \in Nat \ {0} /\ First \subseteq Proposals /\ {MaxLost, MaxAsks} \subseteq Nat

VARIABLES
    status, holder,
    failures,     \* task.attempt
    turn,         \* the proposal of the journalled model turn
    step,         \* task_steps of each proposal's call
    cards,        \* the task's approvals in inbox_items, oldest first
    call,         \* how far each worker's run has come
    crashes,      \* workers that died with the task
    stalls,       \* and that stood still until its lease was lost
    asks          \* questions the owner asked

task == <<status, holder, failures>>
bounds == <<crashes, stalls, asks>>
vars == <<task, turn, step, cards, call, bounds>>

\* The state machine of domain/task.ts, for the one task there is.
TS == INSTANCE TaskStatus WITH Tasks <- {"task"}, status <- [t \in {"task"} |-> status]

Terminal == {"completed", "failed", "halted", "cancelled"}
Unfinished == {"deciding", "claiming", "gate", "yes", "ask", "asking", "parked", "acting",
               "acted", "returning", "failing", "committing", "answered"}

\* The phases of a run that has claimed the step and not said how it went.
ToVendor == {"gate", "yes", "ask", "asking", "acting", "acted", "returning", "committing"}

NoCall == [phase |-> "idle", of |-> NoProposal, attempt |-> 0, yes |-> 0, told |-> FALSE]

Init ==
    /\ status = "pending" /\ holder = NoWorker /\ failures = 0
    /\ turn = NoProposal
    /\ step = [p \in Proposals |-> [status |-> "none", attempt |-> 0]]
    /\ cards = <<>>
    /\ call = [w \in Workers |-> NoCall]
    /\ crashes = 0 /\ stalls = 0 /\ asks = 0

At(w, p) == call[w].phase = p
Enter(w, p) == call' = [call EXCEPT ![w].phase = p]
Leave(w) == call' = [call EXCEPT ![w] = NoCall]

-----------------------------------------------------------------------------
(* The cards.                                                              *)

Open == {i \in DOMAIN cards : cards[i].status = "open"}
Approved(c) == c.status = "decided" /\ c.decision = "approve"

\* findGrantedApproval: the yeses to this very proposal that are not used.
\* One card of a proposal is open at a time: the first decided is the oldest.
Yeses(p) == {i \in DOMAIN cards : cards[i].of = p /\ Approved(cards[i]) /\ ~cards[i].used}

\* spentByInterruptedStep.
Interrupted(p) == \E i \in DOMAIN cards : cards[i].of = p /\ cards[i].used

\* Open cards among these that are withdrawn.
Withdrawn(cs, these) ==
    [i \in DOMAIN cs |-> IF i \in these /\ cs[i].status = "open"
                         THEN [cs[i] EXCEPT !.status = "withdrawn"] ELSE cs[i]]

\* Mutated: no trigger withdraws the open approvals of a task that ends.
EndAndLeaveCards(to) == status' = to /\ holder' = NoWorker /\ UNCHANGED cards

\* transitionWithin to a terminal status: the task holds no lease, and the
\* trigger of 0036 withdraws the approvals still open.
EndWith(to, cs) == status' = to /\ holder' = NoWorker /\ cards' = Withdrawn(cs, DOMAIN cs)
End(to) == EndWith(to, cards)

-----------------------------------------------------------------------------
(* A worker's run.                                                         *)

\* The task is taken, and the journalled turn replayed or the model asked.
Begin(w) ==
    /\ At(w, "idle") /\ holder = NoWorker
    /\ status \in {"pending", "running", "waiting_window"}
    /\ status' = "running" /\ holder' = w
    /\ turn' \in (IF turn # NoProposal THEN {turn} ELSE IF asks = 0 THEN First ELSE Proposals)
    /\ call' = [call EXCEPT ![w].phase = "deciding", ![w].of = turn']
    /\ UNCHANGED <<failures, step, cards, bounds>>

\* lease.confirm() before the step.
Confirm(w) ==
    /\ At(w, "deciding")
    /\ IF holder = w /\ status = "running" THEN Enter(w, "claiming") ELSE Leave(w)
    /\ UNCHANGED <<task, turn, step, cards, bounds>>

\* runStep's first transaction: a committed step is replayed, any other claimed.
ClaimStep(w) ==
    LET p == call[w].of IN
    /\ At(w, "claiming")
    /\ IF step[p].status = "committed"
       THEN Enter(w, "answered") /\ UNCHANGED step
       ELSE /\ step' = [step EXCEPT ![p] = [status |-> "started", attempt |-> step[p].attempt + 1]]
            /\ call' = [call EXCEPT ![w].phase = "gate", ![w].attempt = step[p].attempt + 1]
    /\ UNCHANGED <<task, turn, cards, bounds>>

\* Mutated: the resumed run does not look for the answer it waited for.
AskAgain(w) ==
    /\ At(w, "gate")
    /\ Enter(w, "ask")
    /\ UNCHANGED <<task, turn, step, cards, bounds>>

FindGrantedApproval(w) ==
    LET yeses == Yeses(call[w].of) IN
    /\ At(w, "gate")
    /\ \/ yeses = {} /\ Enter(w, "ask")
       \/ \E i \in yeses :
             /\ \A j \in yeses : i <= j
             /\ call' = [call EXCEPT ![w].phase = "yes", ![w].yes = i]
    /\ UNCHANGED <<task, turn, step, cards, bounds>>

\* Mutated: the yes is used without looking whether another run used it first.
SpendWithoutLooking(w) ==
    /\ At(w, "yes")
    /\ cards' = [cards EXCEPT ![call[w].yes].used = TRUE]
    /\ Enter(w, "acting")
    /\ UNCHANGED <<task, turn, step, bounds>>

\* spendApproval: one yes carries one attempt.
SpendApproval(w) ==
    LET i == call[w].yes IN
    /\ At(w, "yes")
    /\ IF cards[i].used THEN Enter(w, "ask") /\ UNCHANGED cards
       ELSE cards' = [cards EXCEPT ![i].used = TRUE] /\ Enter(w, "acting")
    /\ UNCHANGED <<task, turn, step, bounds>>

\* Mutated: the owner is not told that an earlier attempt may have acted.
AskWithoutLooking(w) ==
    /\ At(w, "ask")
    /\ call' = [call EXCEPT ![w].phase = "asking", ![w].yes = 0, ![w].told = FALSE]
    /\ UNCHANGED <<task, turn, step, cards, bounds>>

\* askOwner's reading of what the card will say, in its own transaction.
AskOwner(w) ==
    /\ At(w, "ask")
    /\ call' = [call EXCEPT ![w].phase = "asking", ![w].yes = 0,
                            ![w].told = Interrupted(call[w].of)]
    /\ UNCHANGED <<task, turn, step, cards, bounds>>

Card(w) == [of |-> call[w].of, status |-> "open", decision |-> "none", used |-> FALSE,
            told |-> call[w].told, did |-> <<>>, unclear |-> 0]

\* requestApproval: the card already open for the capability is the one, unless
\* it is about another proposal; a task that is not running cannot be made to
\* wait, and then the whole transaction is undone.
RequestApproval(w) ==
    LET same  == {i \in Open : cards[i].of = call[w].of}
        other == {i \in Open : CapabilityOf[cards[i].of] = CapabilityOf[call[w].of]} IN
    /\ At(w, "asking")
    /\ \/ /\ same # {}
          /\ cards' = [i \in DOMAIN cards |->
                         IF i \in same THEN [cards[i] EXCEPT !.decision = "none"] ELSE cards[i]]
          /\ status' = IF status = "running" THEN "waiting_approval" ELSE status
          /\ Enter(w, "parked")
       \/ /\ same = {} /\ status = "running"
          /\ cards' = Append(Withdrawn(cards, other), Card(w))
          /\ status' = "waiting_approval"
          /\ Enter(w, "parked")
       \/ /\ same = {} /\ status # "running"
          /\ UNCHANGED <<status, cards>>
          /\ Enter(w, "failing")
    /\ UNCHANGED <<holder, failures, turn, step, bounds>>

\* The vendor does it; or does it, and the answer is an error.
Act(w) ==
    LET i == call[w].yes IN
    /\ At(w, "acting")
    /\ \E fails \in BOOLEAN :
          /\ cards' = [cards EXCEPT ![i].did = Append(@, call[w].of),
                                    ![i].unclear = IF fails THEN @ + 1 ELSE @]
          /\ Enter(w, IF fails THEN "returning" ELSE "acted")
    /\ UNCHANGED <<task, turn, step, bounds>>

\* The vendor refuses before it did anything.
Refuse(w) ==
    /\ At(w, "acting")
    /\ Enter(w, "returning")
    /\ UNCHANGED <<task, turn, step, cards, bounds>>

ReturnApproval(w) ==
    /\ At(w, "returning")
    /\ cards' = [cards EXCEPT ![call[w].yes].used = FALSE]
    /\ Enter(w, "failing")
    /\ UNCHANGED <<task, turn, step, bounds>>

Claimed(w) == step[call[w].of] = [status |-> "started", attempt |-> call[w].attempt]

\* markFailed: this claim of the step and nobody else's.
MarkFailed(w) == step' = IF Claimed(w) THEN [step EXCEPT ![call[w].of].status = "failed"] ELSE step

\* beforeCommit: the task has not ended and the lease is still this worker's;
\* else the run is over, and says nothing of the task.
ConfirmCommit(w) ==
    /\ At(w, "acted")
    /\ IF holder = w /\ status = "running"
       THEN Enter(w, "committing") /\ UNCHANGED step
       ELSE Leave(w) /\ MarkFailed(w)
    /\ UNCHANGED <<task, turn, cards, bounds>>

\* The read-back is not what was asked for, or the answer may not be kept:
\* the task halts, if this worker has not found its lease lost.
Unverified(w) ==
    /\ At(w, "acted")
    /\ MarkFailed(w)
    /\ \/ status = "running" /\ End("halted")
       \/ (status # "running" \/ holder # w) /\ UNCHANGED <<status, holder, cards>>
    /\ Leave(w)
    /\ UNCHANGED <<failures, turn, bounds>>

\* Mutated: a step another run has claimed again is committed all the same.
CommitWhosever(w) ==
    /\ At(w, "committing")
    /\ step' = [step EXCEPT ![call[w].of].status = "committed"]
    /\ Enter(w, "answered")
    /\ UNCHANGED <<task, turn, cards, bounds>>

\* runStep's last transaction.
Commit(w) ==
    /\ At(w, "committing")
    /\ IF Claimed(w)
       THEN step' = [step EXCEPT ![call[w].of].status = "committed"] /\ Enter(w, "answered")
       ELSE UNCHANGED step /\ Enter(w, "failing")
    /\ UNCHANGED <<task, turn, cards, bounds>>

\* approval.required: the step failed, classifyFailure leaves the status as it
\* is, and the lease is cleared.
Park(w) ==
    /\ At(w, "parked")
    /\ MarkFailed(w)
    /\ holder' = IF holder = w THEN NoWorker ELSE holder
    /\ Leave(w)
    /\ UNCHANGED <<status, failures, turn, cards, bounds>>

\* The run ends with an answer: a running task is completed, one that ended is
\* left alone, and any other is where it cannot be completed from.
Answer(w) ==
    /\ At(w, "answered")
    /\ IF status = "running" THEN End("completed") ELSE UNCHANGED <<status, holder, cards>>
    /\ IF status \in Terminal \cup {"running"} THEN Leave(w) ELSE Enter(w, "failing")
    /\ UNCHANGED <<failures, turn, step, bounds>>

\* classifyFailure of an error that may be tried again, by a worker that has
\* not found its lease lost: the attempt is charged to the task whoever holds
\* it by now, and moved on only from running.
Charged(w) ==
    /\ status \notin Terminal
    /\ failures' = failures + 1
    /\ \/ status # "running" /\ UNCHANGED <<status, holder, cards>>
       \/ status = "running" /\ failures' >= AttemptMax /\ End("failed")
       \/ /\ status = "running" /\ failures' < AttemptMax
          /\ status' = "waiting_window"
          /\ holder' = IF holder = w THEN NoWorker ELSE holder
          /\ UNCHANGED cards

\* The run ends on an error.
Fail(w) ==
    /\ At(w, "failing")
    /\ MarkFailed(w)
    /\ Charged(w) \/ (holder # w /\ UNCHANGED <<task, cards>>)
    /\ Leave(w)
    /\ UNCHANGED <<turn, bounds>>

-----------------------------------------------------------------------------
(* Losing the task.                                                        *)

\* A worker dies; a worker started after it has a name of its own, which is
\* this one again here, because nothing of the dead one is left but its lease.
Crash(w) ==
    /\ crashes + stalls < MaxLost /\ call[w].phase \in Unfinished
    /\ crashes' = crashes + 1
    /\ call' = [call EXCEPT ![w] = [NoCall EXCEPT !.phase = "dead"]]
    /\ UNCHANGED <<task, turn, step, cards, stalls, asks>>

\* Mutated: also a task that waits is put back in the queue.
TakeBackWaiting ==
    /\ status' = IF status \in Terminal THEN status ELSE "pending"
    /\ holder' = NoWorker

\* The lease runs out and a sweep takes the task back.
TakeBack ==
    /\ status' = IF status = "running" THEN "pending" ELSE status
    /\ holder' = NoWorker

\* Of a worker that is gone, or whose run ended without clearing it.
LeaseRunsOut ==
    /\ holder # NoWorker /\ call[holder].phase \in {"idle", "dead"}
    /\ TakeBack
    /\ UNCHANGED <<failures, turn, step, cards, call, bounds>>

\* Of a worker that stands still, and goes on afterwards.
LeaseIsLost ==
    /\ crashes + stalls < MaxLost
    /\ holder # NoWorker /\ call[holder].phase \in Unfinished
    /\ stalls' = stalls + 1
    /\ TakeBack
    /\ UNCHANGED <<failures, turn, step, cards, call, crashes, asks>>

Restart(w) ==
    /\ At(w, "dead") /\ holder # w
    /\ Leave(w)
    /\ UNCHANGED <<task, turn, step, cards, bounds>>

-----------------------------------------------------------------------------
(* The owner.                                                              *)

\* settleTask(running): a task that waits goes on, with its lease as it was.
GoesOn == status' = (IF status \in {"waiting_approval", "waiting_window"} THEN "running" ELSE status)
          /\ UNCHANGED holder

Approve(i) ==
    /\ i \in Open
    /\ cards' = [cards EXCEPT ![i].status = "decided", ![i].decision = "approve"]
    /\ GoesOn
    /\ UNCHANGED <<failures, turn, step, call, bounds>>

\* settleTask(cancelled): a task that has ended stays as it ended.
CancelWith(cs) ==
    IF status \in Terminal THEN UNCHANGED <<status, holder>> /\ cards' = cs ELSE EndWith("cancelled", cs)

Deny(i) ==
    /\ i \in Open
    /\ CancelWith([cards EXCEPT ![i].status = "decided", ![i].decision = "deny"])
    /\ UNCHANGED <<failures, turn, step, call, bounds>>

\* A question: the card stays open, and the model is asked again unless what
\* it had asked for is done (reopenForQuestionWithin).
Ask(i) ==
    /\ i \in Open /\ asks < MaxAsks
    /\ asks' = asks + 1
    /\ cards' = [cards EXCEPT ![i].decision = "ask"]
    /\ turn' = IF turn # NoProposal /\ step[turn].status = "committed" THEN turn ELSE NoProposal
    /\ GoesOn
    /\ UNCHANGED <<failures, step, call, crashes, stalls>>

\* expireOverdue.
Expire(i) ==
    /\ i \in Open
    /\ CancelWith([cards EXCEPT ![i].status = "expired"])
    /\ UNCHANGED <<failures, turn, step, call, bounds>>

\* stopEverything.
StopEverything ==
    /\ status \notin Terminal
    /\ End("cancelled")
    /\ UNCHANGED <<failures, turn, step, call, bounds>>

-----------------------------------------------------------------------------
Work(w) ==
    \/ Confirm(w) \/ ClaimStep(w) \/ FindGrantedApproval(w) \/ SpendApproval(w) \/ AskOwner(w)
    \/ RequestApproval(w) \/ Act(w) \/ Refuse(w) \/ ReturnApproval(w) \/ ConfirmCommit(w) \/ Unverified(w)
    \/ Commit(w) \/ Park(w) \/ Answer(w) \/ Fail(w)

Owner == StopEverything \/ \E i \in DOMAIN cards : Approve(i) \/ Deny(i) \/ Ask(i) \/ Expire(i)

Next ==
    \/ \E w \in Workers : Begin(w) \/ Work(w) \/ Crash(w) \/ Restart(w)
    \/ LeaseRunsOut \/ LeaseIsLost \/ Owner

Spec == Init /\ [][Next]_vars

\* Workers poll and finish what they do, leases of the gone run out; nothing
\* is asked of the owner.
FairSpec == Spec /\ WF_vars(LeaseRunsOut)
                 /\ \A w \in Workers : WF_vars(Work(w)) /\ WF_vars(Restart(w)) /\ WF_vars(Begin(w))

-----------------------------------------------------------------------------
(* Properties.                                                             *)

CardType == [of: Proposals, status: {"open", "decided", "expired", "withdrawn"},
             decision: {"none", "approve", "deny", "ask"}, used: BOOLEAN, told: BOOLEAN,
             did: Seq(Proposals), unclear: Nat]

StepType == [status: {"none", "started", "failed", "committed"}, attempt: Nat]

CallType == [phase: Unfinished \cup {"idle", "dead"}, of: Proposals \cup {NoProposal},
             attempt: Nat, yes: Nat, told: BOOLEAN]

TypeOK ==
    /\ status \in Terminal \cup {"pending", "running", "waiting_approval", "waiting_window"}
    /\ holder \in Workers \cup {NoWorker} /\ failures \in Nat
    /\ turn \in Proposals \cup {NoProposal}
    /\ step \in [Proposals -> StepType]
    /\ cards \in Seq(CardType)
    /\ call \in [Workers -> CallType]
    /\ {crashes, stalls, asks} \subseteq Nat

\* The vendor does what the owner said yes to, and nothing else, and once for
\* each yes, however many workers think the task is theirs; a vendor that did
\* it and answered with an error is the one case in which a yes is used again.
OneYesOneAct ==
    \A i \in DOMAIN cards :
        /\ Len(cards[i].did) <= (IF Approved(cards[i]) THEN 1 ELSE 0) + cards[i].unclear
        /\ \A n \in DOMAIN cards[i].did : cards[i].did[n] = cards[i].of

\* A card the owner has still to answer says that it may have happened, when
\* an earlier yes to the same was used and nobody recorded how it went: as
\* long as the runs that stopped in the middle are of workers that died, and
\* the owner asked one question: at a second, the yes of a card before it may
\* be used while one that was already made stays open.
ToldItMayHaveHappened ==
    stalls = 0 /\ asks <= 1 => \A i \in Open : \A j \in DOMAIN cards :
        cards[j].of = cards[i].of /\ cards[j].used => cards[i].told

\* A task that waits for the owner has a card open they have not answered with
\* a question, one that ended has none open, and no two are open for one
\* capability, whatever was asked and proposed instead meanwhile.
WaitsOnACard ==
    /\ status = "waiting_approval" => \E i \in Open : cards[i].decision = "none"
    /\ status \in Terminal => Open = {}
    /\ \A i, j \in Open : CapabilityOf[cards[i].of] = CapabilityOf[cards[j].of] => i = j

\* The task moves along edges of the state machine, whoever moves it: the owner,
\* whose answer may find it anywhere, a run that has lost it, or a sweep.
StatusMachine == [][TS!Next]_status

\* A step is committed by the last run that claimed it: no later claim of it
\* is still on its way to the vendor, which would do it again.
CommittedIsLast ==
    \A w \in Workers :
        call[w].phase \in ToVendor /\ step[call[w].of].status = "committed"
            => call[w].attempt < step[call[w].of].attempt

\* The yeses to what the model asked for.
YesesForTurn == IF turn = NoProposal THEN {} ELSE Yeses(turn)

\* An approved action is carried out, and the owner is not asked for it again
\* first: unless the task comes to another end, the model wants something else
\* after a question, or a run was already about to ask when the yes was given
\* (after a question, or of a worker that stood still).
ApprovedIsUsed ==
    (status \notin Terminal /\ YesesForTurn # {})
        ~> \/ YesesForTurn = {} \/ status \in Terminal
           \/ stalls + asks > 0 /\ status = "waiting_approval"
=============================================================================
