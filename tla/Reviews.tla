------------------------------ MODULE Reviews -------------------------------
(***************************************************************************)
(* Adversarial review (review/review.ts): a task proposes an action, a     *)
(* reviewer of another role judges exactly that action, and a verdict is   *)
(* recorded and lets the proposer go on.  With what is under it: the sweep *)
(* for tasks nothing will move (engine/liveness.ts) and the owner's answer *)
(* to an escalation (inbox.ts settleTask).                                 *)
(*                                                                         *)
(* One proposing task.  Two runs of it may overlap, when a lease was lost  *)
(* unnoticed; several workers settle reviews at once; each may die between *)
(* any two transactions.  Every action is one transaction, or one read of  *)
(* one that the code makes without a lock.                                 *)
(***************************************************************************)
EXTENDS Integers, FiniteSets

CONSTANTS
    Actions,        \* what may be proposed: the fingerprints (fingerprintAction)
    StageMoves,     \* those of stage.propose, which a no does not stop the task for
    Runs, Workers,  \* of the proposing task; those that settle reviews
    NoAction,
    MaxRevisions,   \* MAX_REVISIONS
    MaxCrashes,     \* bound: deaths of settling workers
    MaxCards        \* bound: open escalations told apart

ASSUME ReviewAssumption ==
    /\ NoAction \notin Actions
    /\ StageMoves \subseteq Actions
    /\ MaxRevisions \in Nat /\ MaxCrashes \in Nat /\ MaxCards \in Nat \ {0}

Limit == MaxRevisions + 1
Rounds == 1 .. Limit

VARIABLES
    row,        \* review_requests.status by action and round
    answer,     \* the review task of a round, and what it came to
    decided,    \* decision_records: action, round and decision
    task,       \* the proposing task's status
    run,        \* how far a run of it has come, and with which action
    settler,    \* how far a settling worker has come, and with which review
    cards,      \* open escalations about the task
    asked,      \* the event task.stranded, of shape review_missing, exists
    acted,      \* the actions that were carried out
    crashes

reviews == <<row, answer, decided>>
vars == <<reviews, task, run, settler, cards, asked, acted, crashes>>

RowStatus == {"none", "pending", "approved", "revise", "rejected", "escalated"}
Decisions == {"approve", "revise", "reject"}

\* "halted" is a reviewer its budget stopped; "unreadable" one that failed, was
\* cancelled, or completed with no decision that can be read.
Answers == {"none", "working", "halted", "unreadable"} \cup Decisions

RunSteps == {"off", "on", "cleared", "failing", "brief", "open", "deadlock", "tell", "parking"}
SettleSteps == {"idle", "listed", "reading", "recorded", "moving", "refused", "tell", "found"}

Idle == [at |-> "off", act |-> NoAction, round |-> 0]
Free == [at |-> "idle", act |-> NoAction, round |-> 0, says |-> "none"]

Init ==
    /\ row = [a \in Actions |-> [r \in Rounds |-> "none"]]
    /\ answer = [a \in Actions |-> [r \in Rounds |-> "none"]]
    /\ decided = {}
    /\ task = "queued"
    /\ run = [p \in Runs |-> Idle]
    /\ settler = [w \in Workers |-> Free]
    /\ cards = 0 /\ asked = FALSE /\ acted = {} /\ crashes = 0

-----------------------------------------------------------------------------
\* Round r is the latest row of an action (latestReview); 0 when there is none.
Latest(a, r) ==
    /\ r > 0 => row[a][r] # "none"
    /\ \A s \in Rounds : s > r => row[a][s] = "none"

\* Mutated: one the owner was asked about counts as approved.
IsApprovedOrTheOwners(a) == \E r \in Rounds : row[a][r] \in {"approved", "escalated"}

\* isApproved: some row of exactly this action is approved.
IsApproved(a) == \E r \in Rounds : row[a][r] = "approved"

\* raiseEscalation.
RaiseCard == cards' = IF cards < MaxCards THEN cards + 1 ELSE cards

\* transition: the edges of domain/task.ts between what is told apart here.
\* "queued" is pending, claimed or parked for a time; "ended" is terminal.
MayMove(to) == CASE to = "running" -> task \in {"queued", "waiting_review"}
                 [] to = "ended"   -> task \in {"running", "waiting_review"}
                 [] to = "waiting_review" -> task = "running"
                 [] to = "queued" -> task = "running"

GoRun(p, to) == run' = [run EXCEPT ![p].at = to]
Off(p) == run' = [run EXCEPT ![p] = Idle]

-----------------------------------------------------------------------------
(* A run of the proposing task.                                            *)

\* A worker takes the task: from the queue, after an answer moved it to running
\* with nobody holding it, or because another's lease lapsed.
Start(p) ==
    /\ run[p].at = "off" /\ task \in {"queued", "running"}
    /\ task' = "running"
    /\ GoRun(p, "on")
    /\ UNCHANGED <<reviews, settler, cards, asked, acted, crashes>>

\* Mutated: a rejected action is put to the reviewer again.
AnswerFoundAgain(a, r) ==
    CASE IsApproved(a) -> "cleared"
      [] ~IsApproved(a) /\ r > 0 /\ row[a][r] \in {"pending", "escalated"} -> "parking"
      [] OTHER -> IF r < Limit THEN "brief" ELSE "deadlock"

\* What the broker and openReview make of the action's latest row.
AnswerFound(a, r) ==
    CASE IsApproved(a) -> "cleared"
      [] ~IsApproved(a) /\ r > 0 /\ row[a][r] = "rejected" -> "failing"
      [] ~IsApproved(a) /\ r > 0 /\ row[a][r] \in {"pending", "escalated"} -> "parking"
      [] OTHER -> IF r < Limit THEN "brief" ELSE "deadlock"

\* The agent proposes an action a policy asks a review of.
Propose(p, a) ==
    /\ run[p].at = "on"
    /\ \E r \in 0 .. Limit :
          /\ Latest(a, r)
          /\ LET at == AnswerFound(a, r) IN
             run' = [run EXCEPT ![p] = [at |-> at, act |-> a,
                                        round |-> IF at = "brief" THEN r + 1 ELSE r]]
    /\ UNCHANGED <<reviews, task, settler, cards, asked, acted, crashes>>

\* The action is carried out.
Act(p) ==
    /\ run[p].at = "cleared"
    /\ acted' = acted \cup {run[p].act}
    /\ GoRun(p, "on")
    /\ UNCHANGED <<reviews, task, settler, cards, asked, crashes>>

\* Past the rounds: every row of the action becomes the owner's.
EscalateAll(p) ==
    /\ run[p].at = "deadlock"
    /\ row' = [row EXCEPT ![run[p].act] =
                  [r \in Rounds |-> IF @[r] = "none" THEN "none" ELSE "escalated"]]
    /\ GoRun(p, "tell")
    /\ UNCHANGED <<answer, decided, task, settler, cards, asked, acted, crashes>>

TellDeadlock(p) ==
    /\ run[p].at = "tell"
    /\ RaiseCard
    /\ GoRun(p, "parking")
    /\ UNCHANGED <<reviews, task, settler, asked, acted, crashes>>

\* createSubTask: the review task, or the one a run that died here made.
Brief(p) ==
    /\ run[p].at = "brief"
    /\ answer' = [answer EXCEPT ![run[p].act][run[p].round] = IF @ = "none" THEN "working" ELSE @]
    /\ GoRun(p, "open")
    /\ UNCHANGED <<row, decided, task, settler, cards, asked, acted, crashes>>

\* No place under the task or no budget for it; or no such reviewer, which is
\* review.required too, and the task waits for a review nobody opened.
BriefRefused(p) ==
    /\ run[p].at = "brief"
    /\ GoRun(p, "failing") \/ GoRun(p, "parking")
    /\ UNCHANGED <<reviews, task, settler, cards, asked, acted, crashes>>

\* An agent is told of what was refused, and works on.
GoOn(p) ==
    /\ run[p].at = "failing"
    /\ GoRun(p, "on")
    /\ UNCHANGED <<reviews, task, settler, cards, asked, acted, crashes>>

\* The review request is inserted, unless another run's of this round is there.
Open(p) ==
    /\ run[p].at = "open"
    /\ IF row[run[p].act][run[p].round] = "none"
       THEN /\ row' = [row EXCEPT ![run[p].act][run[p].round] = "pending"]
            /\ GoRun(p, "parking")
       ELSE GoRun(p, "failing") /\ UNCHANGED row
    /\ UNCHANGED <<answer, decided, task, settler, cards, asked, acted, crashes>>

\* review.required: the task waits, if it is still running by then.
Park(p) ==
    /\ run[p].at = "parking"
    /\ task' = IF MayMove("waiting_review") THEN "waiting_review" ELSE task
    /\ Off(p)
    /\ UNCHANGED <<reviews, settler, cards, asked, acted, crashes>>

\* The attempt failed, at this or at anything else: again later, or for good.
FailAttempt(p) ==
    /\ run[p].at \in {"failing", "on"}
    /\ IF task = "running" THEN task' \in {"queued", "ended"} ELSE UNCHANGED task
    /\ Off(p)
    /\ UNCHANGED <<reviews, settler, cards, asked, acted, crashes>>

\* The worker dies, or notices that the task is no longer its own.
RunStops(p) ==
    /\ run[p].at # "off"
    /\ Off(p)
    /\ UNCHANGED <<reviews, task, settler, cards, asked, acted, crashes>>

-----------------------------------------------------------------------------
(* The review task, and the owner.                                         *)

Review(a, r) ==
    /\ answer[a][r] = "working"
    /\ \E v \in Decisions \cup {"unreadable"} : answer' = [answer EXCEPT ![a][r] = v]
    /\ UNCHANGED <<row, decided, task, run, settler, cards, asked, acted, crashes>>

\* Its budget stops the reviewer.
Halt(a, r) ==
    /\ answer[a][r] = "working"
    /\ answer' = [answer EXCEPT ![a][r] = "halted"]
    /\ UNCHANGED <<row, decided, task, run, settler, cards, asked, acted, crashes>>

\* continueHalted: a reviewer its budget stopped goes on.
Continue(a, r) ==
    /\ answer[a][r] = "halted"
    /\ answer' = [answer EXCEPT ![a][r] = "working"]
    /\ UNCHANGED <<row, decided, task, run, settler, cards, asked, acted, crashes>>

\* decide on an escalation: a yes moves a task that waits, a no ends a live one.
Decide(yes) ==
    /\ cards > 0
    /\ cards' = cards - 1
    /\ task' = IF yes THEN IF task = "waiting_review" THEN "running" ELSE task
               ELSE "ended"
    /\ UNCHANGED <<reviews, run, settler, asked, acted, crashes>>

\* cancelTask: the task, and the review tasks under it.
Cancel ==
    /\ task # "ended"
    /\ task' = "ended"
    /\ answer' = [a \in Actions |-> [r \in Rounds |->
                     IF answer[a][r] = "working" THEN "unreadable" ELSE answer[a][r]]]
    /\ UNCHANGED <<row, decided, run, settler, cards, asked, acted, crashes>>

-----------------------------------------------------------------------------
(* settleCompletedReviews and recordVerdict, on one review of a pass.      *)

\* Mutated: an answer that cannot be read is a yes.
VerdictOrYes(v) == IF v \in Decisions THEN v ELSE "approve"

Verdict(v) == IF v \in Decisions THEN v ELSE "none"

\* A pending review whose task has ended, with what the task says now.
List(w, a, r) ==
    /\ settler[w].at = "idle"
    /\ row[a][r] = "pending" /\ answer[a][r] \notin {"none", "working"}
    /\ settler' = [settler EXCEPT ![w] = [at |-> "listed", act |-> a, round |-> r,
                                          says |-> Verdict(answer[a][r])]]
    /\ UNCHANGED <<reviews, task, run, cards, asked, acted, crashes>>

GoSettle(w, to) == settler' = [settler EXCEPT ![w].at = to]
Done(w) == settler' = [settler EXCEPT ![w] = Free]

\* No verdict to read: the owner's, whatever the row says by now.
EscalateUnread(w) ==
    LET s == settler[w] IN
    /\ s.at = "listed" /\ s.says = "none"
    /\ row' = [row EXCEPT ![s.act][s.round] = "escalated"]
    /\ GoSettle(w, "tell")
    /\ UNCHANGED <<answer, decided, task, run, cards, asked, acted, crashes>>

\* recordVerdict reads the review, without a lock.
Read(w) ==
    LET s == settler[w] IN
    /\ s.at = "listed" /\ s.says # "none"
    /\ GoSettle(w, IF row[s.act][s.round] = "pending" THEN "reading" ELSE "refused")
    /\ UNCHANGED <<reviews, task, run, cards, asked, acted, crashes>>

StatusOf(v) == CASE v = "approve" -> "approved" [] v = "reject" -> "rejected"
                 [] v = "revise" -> "revise"

\* ... and writes it with its decision record, whatever became of it since.
Record(w) ==
    LET s == settler[w] IN
    /\ s.at = "reading"
    /\ row' = [row EXCEPT ![s.act][s.round] = StatusOf(s.says)]
    /\ decided' = decided \cup {<<s.act, s.round, s.says>>}
    /\ GoSettle(w, "recorded")
    /\ UNCHANGED <<answer, task, run, cards, asked, acted, crashes>>

\* The proposer is read in a transaction of its own ...
LookAtProposer(w) ==
    /\ settler[w].at = "recorded"
    /\ IF task = "waiting_review" THEN GoSettle(w, "moving") ELSE Done(w)
    /\ UNCHANGED <<reviews, task, run, cards, asked, acted, crashes>>

\* ... and moved in another, which the state machine may refuse by then.
MoveProposer(w) ==
    LET s == settler[w]
        to == IF s.says = "reject" /\ s.act \notin StageMoves THEN "ended" ELSE "running" IN
    /\ s.at = "moving"
    /\ IF MayMove(to) THEN task' = to /\ Done(w) ELSE UNCHANGED task /\ GoSettle(w, "refused")
    /\ UNCHANGED <<reviews, run, cards, asked, acted, crashes>>

\* recordVerdict threw: the review is the owner's if it is still pending.
EscalateRefused(w) ==
    LET s == settler[w] IN
    /\ s.at = "refused"
    /\ row' = [row EXCEPT ![s.act][s.round] = IF @ = "pending" THEN "escalated" ELSE @]
    /\ GoSettle(w, "tell")
    /\ UNCHANGED <<answer, decided, task, run, cards, asked, acted, crashes>>

Tell(w) ==
    /\ settler[w].at = "tell"
    /\ RaiseCard /\ Done(w)
    /\ UNCHANGED <<reviews, task, run, asked, acted, crashes>>

-----------------------------------------------------------------------------
(* findStranded and askAboutStranded.                                      *)

PendingReview == \E a \in Actions, r \in Rounds : row[a][r] = "pending"

\* Mutated: a decided review counts as something to wait for.
StrandedUnreviewed ==
    /\ task = "waiting_review" /\ cards = 0
    /\ \A a \in Actions, r \in Rounds : row[a][r] = "none"

Stranded == task = "waiting_review" /\ ~PendingReview /\ cards = 0

\* A minute has passed since the task began to wait.  To find one that was
\* already asked about changes nothing and is left out.
Find(w) ==
    /\ settler[w].at = "idle" /\ Stranded /\ ~asked
    /\ settler' = [settler EXCEPT ![w] = [Free EXCEPT !.at = "found"]]
    /\ UNCHANGED <<reviews, task, run, cards, asked, acted, crashes>>

\* Once per task and shape, whatever became of the task since the listing; the
\* event and the card in one transaction, under a lock.
Ask(w) ==
    /\ settler[w].at = "found"
    /\ IF asked THEN UNCHANGED <<asked, cards>> ELSE asked' = TRUE /\ RaiseCard
    /\ Done(w)
    /\ UNCHANGED <<reviews, task, run, acted, crashes>>

\* A settling worker dies.
SettlerDies(w) ==
    /\ settler[w].at # "idle" /\ crashes < MaxCrashes
    /\ crashes' = crashes + 1
    /\ Done(w)
    /\ UNCHANGED <<reviews, task, run, cards, asked, acted>>

-----------------------------------------------------------------------------
RunNext(p) ==
    \/ Start(p) \/ Act(p) \/ EscalateAll(p) \/ TellDeadlock(p) \/ Brief(p) \/ BriefRefused(p)
    \/ GoOn(p) \/ Open(p) \/ Park(p) \/ FailAttempt(p) \/ RunStops(p)
    \/ \E a \in Actions : Propose(p, a)

ReviewerNext == \E a \in Actions, r \in Rounds : Review(a, r) \/ Halt(a, r) \/ Continue(a, r)

OwnerNext == Cancel \/ \E yes \in BOOLEAN : Decide(yes)

\* What a settling worker's tick does, stage after stage.
Tick(w) ==
    \/ EscalateUnread(w) \/ Read(w) \/ Record(w) \/ LookAtProposer(w) \/ MoveProposer(w)
    \/ EscalateRefused(w) \/ Tell(w) \/ Find(w) \/ Ask(w)
    \/ \E a \in Actions, r \in Rounds : List(w, a, r)

Next ==
    \/ \E p \in Runs : RunNext(p)
    \/ ReviewerNext \/ OwnerNext
    \/ \E w \in Workers : Tick(w) \/ SettlerDies(w)

Spec == Init /\ [][Next]_vars

\* A worker's tick comes round again and again, and a review task ends: its run
\* has a time limit, its attempts are counted, and every time it goes on after
\* a halt it spends more of a budget that ends.  The owner owes nothing.
Fairness ==
    /\ \A w \in Workers : WF_vars(Tick(w))
    /\ \A a \in Actions, r \in Rounds : SF_vars(Review(a, r))

FairSpec == Spec /\ Fairness

-----------------------------------------------------------------------------
(* Properties.                                                             *)

TypeOK ==
    /\ row \in [Actions -> [Rounds -> RowStatus]]
    /\ answer \in [Actions -> [Rounds -> Answers]]
    /\ decided \subseteq Actions \X Rounds \X Decisions
    /\ task \in {"queued", "running", "waiting_review", "ended"}
    /\ run \in [Runs -> [at : RunSteps, act : Actions \cup {NoAction}, round : 0 .. Limit]]
    /\ settler \in [Workers -> [at : SettleSteps, act : Actions \cup {NoAction},
                                round : 0 .. Limit, says : Decisions \cup {"none"}]]
    /\ cards \in 0 .. MaxCards /\ asked \in BOOLEAN
    /\ acted \subseteq Actions /\ crashes \in 0 .. MaxCrashes

\* What is carried out is what the reviewer said yes to, exactly (F7.1): not
\* another action of the task, nor one whose review could not be read, however
\* many workers record, escalate and crash over it.
ActsOnApproval ==
    \A a \in acted : \E r \in Rounds : answer[a][r] = "approve" /\ <<a, r, "approve">> \in decided

\* A round is asked for only after a revision was recorded of every round
\* before it, so an approved or a rejected action is never put to the reviewer
\* again, and an action cannot gather both a yes and a no.
RoundsFollowRevisions ==
    /\ \A a \in Actions, r, s \in Rounds :
          row[a][r] # "none" /\ s < r => <<a, s, "revise">> \in decided
    /\ \A a \in Actions, r, s \in Rounds :
          ~(<<a, r, "approve">> \in decided /\ <<a, s, "reject">> \in decided)

\* What is recorded of a round is what its reviewer answered, whoever records it
\* and however often: two workers never record two verdicts of one review.
OneVerdictOfAReview == \A d \in decided : answer[d[1]][d[2]] = d[3]

\* A task that waits for a review is let go by the verdict, or the owner has a
\* card about it: the reviewer fails, a verdict comes before the task waits, a
\* worker dies between a verdict and the move, and one of the two still comes.
\* Once the one question a task gets was asked, nothing is owed it any more.
WaitingIsAnswered ==
    task = "waiting_review" ~> (task # "waiting_review" \/ cards > 0 \/ asked)
=============================================================================
