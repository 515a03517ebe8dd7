---------------------------- MODULE ReviewsProofs ----------------------------
(* What a review is worth, for every number of actions, runs, workers and  *)
(* rounds.                                                                 *)
EXTENDS Reviews, TLAPS

\* A verdict in hand is the reviewer's own answer.
SaysTheAnswer ==
    \A w \in Workers :
       settler[w].at \in {"listed", "reading"} /\ settler[w].says # "none"
          => answer[settler[w].act][settler[w].round] = settler[w].says

\* A row's verdict was recorded.
RowsAreRecorded ==
    \A a \in Actions, r \in Rounds :
       /\ row[a][r] = "approved" => <<a, r, "approve">> \in decided
       /\ row[a][r] = "revise" => <<a, r, "revise">> \in decided
       /\ row[a][r] = "rejected" => <<a, r, "reject">> \in decided

\* Every round before is one the proposer was sent back in.
RevisedBefore(a, r) == \A s \in Rounds : s < r => <<a, s, "revise">> \in decided

RowsFollow == \A a \in Actions, r \in Rounds : row[a][r] # "none" => RevisedBefore(a, r)

\* Nothing is judged or settled that was not asked for.
AskedFor ==
    /\ \A d \in decided : row[d[1]][d[2]] # "none"
    /\ \A w \in Workers : settler[w].at \notin {"idle", "found"} =>
          row[settler[w].act][settler[w].round] # "none"

RunsFollow ==
    \A p \in Runs :
       /\ run[p].at \in {"brief", "open"} => RevisedBefore(run[p].act, run[p].round)
       /\ run[p].at = "cleared" => \E r \in Rounds : <<run[p].act, r, "approve">> \in decided

ActsAreRecorded == \A a \in acted : \E r \in Rounds : <<a, r, "approve">> \in decided

RunType == [at : RunSteps, act : Actions \cup {NoAction}, round : 0 .. Limit]
SettlerType == [at : SettleSteps, act : Actions \cup {NoAction},
                round : 0 .. Limit, says : Decisions \cup {"none"}]

\* The type invariant, and what is in whose hands, part by part.
TableTyped ==
    /\ row \in [Actions -> [Rounds -> RowStatus]]
    /\ answer \in [Actions -> [Rounds -> Answers]]
    /\ decided \subseteq Actions \X Rounds \X Decisions

RunsTyped ==
    /\ run \in [Runs -> RunType]
    /\ \A p \in Runs : run[p].at \notin {"off", "on"} => run[p].act \in Actions
    /\ \A p \in Runs : run[p].at \in {"brief", "open"} => run[p].round \in Rounds

SettlersTyped ==
    /\ settler \in [Workers -> SettlerType]
    /\ \A w \in Workers : settler[w].at \notin {"idle", "found"} =>
          settler[w].act \in Actions /\ settler[w].round \in Rounds
    /\ \A w \in Workers : settler[w].at = "reading" => settler[w].says \in Decisions

OthersTyped ==
    /\ task \in {"queued", "running", "waiting_review", "ended"}
    /\ cards \in 0 .. MaxCards /\ asked \in BOOLEAN
    /\ acted \subseteq Actions /\ crashes \in 0 .. MaxCrashes

Typed == TableTyped /\ RunsTyped /\ SettlersTyped /\ OthersTyped
Recorded == SaysTheAnswer /\ OneVerdictOfAReview /\ RowsAreRecorded
Followed == RowsFollow /\ AskedFor /\ RunsFollow /\ ActsAreRecorded

-----------------------------------------------------------------------------
LEMMA Rows == Limit \in Nat /\ Limit >= 1 /\ Rounds \subseteq 0 .. Limit
                /\ \A r \in 0 .. Limit : r # 0 => r \in Rounds
  BY ReviewAssumption DEF Limit, Rounds

LEMMA TypedMeans == Typed => TypeOK
  BY DEF Typed, TypeOK, TableTyped, RunsTyped, SettlersTyped, OthersTyped, RunType, SettlerType

\* A run goes to a step of its own.
LEMMA GoRunTyped ==
    ASSUME RunsTyped, NEW p \in Runs, NEW to \in RunSteps, GoRun(p, to),
           to \notin {"off", "on"} => run[p].act \in Actions,
           to \in {"brief", "open"} => run[p].round \in Rounds
    PROVE  RunsTyped'
<1>1. [run[p] EXCEPT !.at = to] \in RunType
  BY DEF RunsTyped, RunType
<1>2. run' = [run EXCEPT ![p] = [run[p] EXCEPT !.at = to]]
  BY DEF GoRun
<1>3. run' \in [Runs -> RunType]
  BY <1>1, <1>2 DEF RunsTyped
<1>4. \A q \in Runs : run'[q] = IF q = p THEN [run[p] EXCEPT !.at = to] ELSE run[q]
  BY <1>2 DEF RunsTyped
<1>5. run'[p].at = to /\ run'[p].act = run[p].act /\ run'[p].round = run[p].round
  BY <1>4 DEF RunsTyped, RunType
<1> QED BY <1>3, <1>4, <1>5 DEF RunsTyped

LEMMA OffTyped ==
    ASSUME RunsTyped, NEW p \in Runs, Off(p)
    PROVE  RunsTyped'
<1>1. Idle \in RunType
  BY Rows DEF Idle, RunType, RunSteps
<1> QED BY <1>1 DEF RunsTyped, Off, Idle

\* A settling worker goes to a step of its own.
LEMMA GoSettleTyped ==
    ASSUME SettlersTyped, NEW w \in Workers, NEW to \in SettleSteps, GoSettle(w, to),
           to \notin {"idle", "found"} => settler[w].at \notin {"idle", "found"},
           to = "reading" => settler[w].says \in Decisions
    PROVE  SettlersTyped'
<1>1. [settler[w] EXCEPT !.at = to] \in SettlerType
  BY DEF SettlersTyped, SettlerType
<1>2. settler' = [settler EXCEPT ![w] = [settler[w] EXCEPT !.at = to]]
  BY DEF GoSettle
<1>3. settler' \in [Workers -> SettlerType]
  BY <1>1, <1>2 DEF SettlersTyped
<1>4. \A v \in Workers : settler'[v] = IF v = w THEN [settler[w] EXCEPT !.at = to] ELSE settler[v]
  BY <1>2 DEF SettlersTyped
<1>5. /\ settler'[w].at = to /\ settler'[w].act = settler[w].act
      /\ settler'[w].round = settler[w].round /\ settler'[w].says = settler[w].says
  BY <1>4 DEF SettlersTyped, SettlerType
<1> QED BY <1>3, <1>4, <1>5 DEF SettlersTyped

LEMMA DoneTyped ==
    ASSUME SettlersTyped, NEW w \in Workers, Done(w)
    PROVE  SettlersTyped'
<1>1. Free \in SettlerType
  BY Rows DEF Free, SettlerType, SettleSteps
<1> QED BY <1>1 DEF SettlersTyped, Done, Free

\* One row, or one answer, is written.
LEMMA RowTyped ==
    ASSUME TableTyped, NEW a \in Actions, NEW r \in Rounds, NEW st \in RowStatus,
           row' = [row EXCEPT ![a][r] = st]
    PROVE  row' \in [Actions -> [Rounds -> RowStatus]]
  BY DEF TableTyped

LEMMA RunTyped ==
    ASSUME Typed, NEW p \in Runs, RunNext(p)
    PROVE  Typed'
<1> USE DEF Typed, reviews
<1>1. CASE Start(p)
  <2>1. RunsTyped'
    BY <1>1, GoRunTyped DEF Start, RunSteps
  <2> QED BY <1>1, <2>1 DEF Start, TableTyped, SettlersTyped, OthersTyped
<1>2. CASE Act(p)
  <2>1. RunsTyped'
    BY <1>2, GoRunTyped DEF Act, RunSteps
  <2>2. run[p].act \in Actions
    BY <1>2 DEF Act, RunsTyped
  <2> QED BY <1>2, <2>1, <2>2 DEF Act, TableTyped, SettlersTyped, OthersTyped
<1>3. CASE EscalateAll(p)
  <2>1. run[p].act \in Actions
    BY <1>3 DEF EscalateAll, RunsTyped
  <2>2. RunsTyped'
    BY <1>3, <2>1, GoRunTyped DEF EscalateAll, RunSteps
  <2>3. row' \in [Actions -> [Rounds -> RowStatus]]
    BY <1>3, <2>1 DEF EscalateAll, TableTyped, RowStatus
  <2> QED BY <1>3, <2>2, <2>3 DEF EscalateAll, TableTyped, SettlersTyped, OthersTyped
<1>4. CASE TellDeadlock(p)
  <2>1. RunsTyped'
    BY <1>4, GoRunTyped DEF TellDeadlock, RunsTyped, RunSteps
  <2>2. cards' \in 0 .. MaxCards
    BY <1>4, ReviewAssumption DEF TellDeadlock, RaiseCard, OthersTyped
  <2> QED BY <1>4, <2>1, <2>2 DEF TellDeadlock, TableTyped, SettlersTyped, OthersTyped
<1>5. CASE Brief(p)
  <2>1. run[p].act \in Actions /\ run[p].round \in Rounds
    BY <1>5 DEF Brief, RunsTyped
  <2>2. RunsTyped'
    BY <1>5, <2>1, GoRunTyped DEF Brief, RunSteps
  <2>3. answer' \in [Actions -> [Rounds -> Answers]]
    BY <1>5, <2>1 DEF Brief, TableTyped, Answers
  <2> QED BY <1>5, <2>2, <2>3 DEF Brief, TableTyped, SettlersTyped, OthersTyped
<1>6. CASE BriefRefused(p) \/ GoOn(p)
  <2>1. RunsTyped'
    BY <1>6, GoRunTyped DEF BriefRefused, GoOn, RunsTyped, RunSteps
  <2> QED BY <1>6, <2>1 DEF BriefRefused, GoOn, TableTyped, SettlersTyped, OthersTyped
<1>7. CASE Open(p)
  <2>1. run[p].act \in Actions /\ run[p].round \in Rounds
    BY <1>7 DEF Open, RunsTyped
  <2>2. RunsTyped'
    BY <1>7, <2>1, GoRunTyped DEF Open, RunSteps
  <2>3. row' \in [Actions -> [Rounds -> RowStatus]]
    BY <1>7, <2>1, RowTyped DEF Open, TableTyped, RowStatus
  <2> QED BY <1>7, <2>2, <2>3 DEF Open, TableTyped, SettlersTyped, OthersTyped
<1>8. CASE Park(p) \/ FailAttempt(p) \/ RunStops(p)
  <2>1. RunsTyped'
    BY <1>8, OffTyped DEF Park, FailAttempt, RunStops
  <2> QED BY <1>8, <2>1 DEF Park, FailAttempt, RunStops, TableTyped, SettlersTyped, OthersTyped
<1>9. ASSUME NEW a \in Actions, Propose(p, a) PROVE Typed'
  <2>1. PICK r \in 0 .. Limit :
           run' = [run EXCEPT ![p] = [at |-> AnswerFound(a, r), act |-> a,
                        round |-> IF AnswerFound(a, r) = "brief" THEN r + 1 ELSE r]]
    BY <1>9 DEF Propose
  <2> DEFINE rec == [at |-> AnswerFound(a, r), act |-> a,
                     round |-> IF AnswerFound(a, r) = "brief" THEN r + 1 ELSE r]
  <2>2. /\ AnswerFound(a, r) \in {"cleared", "failing", "parking", "brief", "deadlock"}
        /\ AnswerFound(a, r) = "brief" => r < Limit
    BY DEF AnswerFound
  <2>3. AnswerFound(a, r) = "brief" => r + 1 \in Rounds
    BY <2>2, Rows DEF Rounds
  <2>4. rec \in RunType
    BY <2>2, <2>3, Rows DEF RunType, RunSteps
  <2>5. RunsTyped'
    BY <2>1, <2>2, <2>3, <2>4 DEF RunsTyped
  <2> QED BY <1>9, <2>5 DEF Propose, TableTyped, SettlersTyped, OthersTyped
<1> QED BY <1>1, <1>2, <1>3, <1>4, <1>5, <1>6, <1>7, <1>8, <1>9 DEF RunNext

LEMMA TickTyped ==
    ASSUME Typed, NEW w \in Workers, Tick(w) \/ SettlerDies(w)
    PROVE  Typed'
<1> USE DEF Typed, reviews
<1> DEFINE s == settler[w]
<1>1. CASE EscalateUnread(w) \/ Record(w) \/ EscalateRefused(w)
  <2>1. s.act \in Actions /\ s.round \in Rounds
    BY <1>1 DEF EscalateUnread, Record, EscalateRefused, SettlersTyped
  <2>2. /\ row' \in [Actions -> [Rounds -> RowStatus]]
        /\ decided' \subseteq Actions \X Rounds \X Decisions
    <3>1. CASE Record(w)
      <4>1. s.says \in Decisions
        BY <3>1 DEF Record, SettlersTyped
      <4>2. StatusOf(s.says) \in RowStatus
        BY <4>1 DEF StatusOf, RowStatus, Decisions
      <4> QED BY <2>1, <3>1, <4>1, <4>2, RowTyped DEF Record, TableTyped
    <3>2. CASE EscalateUnread(w)
      <4>1. row' = [row EXCEPT ![s.act][s.round] = "escalated"] /\ decided' = decided
        BY <3>2 DEF EscalateUnread
      <4> QED BY <2>1, <4>1 DEF TableTyped, RowStatus
    <3>3. CASE EscalateRefused(w)
      <4>1. /\ row' = [row EXCEPT ![s.act][s.round] =
                          IF row[s.act][s.round] = "pending" THEN "escalated" ELSE row[s.act][s.round]]
            /\ decided' = decided
        BY <3>3 DEF EscalateRefused
      <4> QED BY <2>1, <4>1 DEF TableTyped, RowStatus
    <3> QED BY <1>1, <3>1, <3>2, <3>3
  <2>3. SettlersTyped'
    BY <1>1, GoSettleTyped DEF EscalateUnread, Record, EscalateRefused, SettleSteps
  <2> QED BY <1>1, <2>2, <2>3
          DEF EscalateUnread, Record, EscalateRefused, TableTyped, RunsTyped, OthersTyped
<1>2. CASE Read(w) \/ LookAtProposer(w)
  <2>1. SettlersTyped'
    <3>1. CASE Read(w)
      <4>1. s.says \in Decisions
        BY <3>1 DEF Read, SettlersTyped, SettlerType
      <4> QED BY <3>1, <4>1, GoSettleTyped DEF Read, SettleSteps
    <3> QED BY <1>2, <3>1, GoSettleTyped, DoneTyped DEF LookAtProposer, SettleSteps
  <2> QED BY <1>2, <2>1 DEF Read, LookAtProposer, TableTyped, RunsTyped, OthersTyped
<1>3. CASE MoveProposer(w)
  <2>1. SettlersTyped'
    BY <1>3, GoSettleTyped, DoneTyped DEF MoveProposer, SettleSteps
  <2> QED BY <1>3, <2>1 DEF MoveProposer, TableTyped, RunsTyped, OthersTyped
<1>4. CASE Tell(w) \/ Ask(w) \/ SettlerDies(w)
  <2>1. SettlersTyped'
    BY <1>4, DoneTyped DEF Tell, Ask, SettlerDies
  <2>2. OthersTyped'
    <3>1. CASE SettlerDies(w)
      BY <3>1, ReviewAssumption DEF SettlerDies, OthersTyped
    <3>2. CASE Tell(w) \/ Ask(w)
      <4>1. cards' \in {cards, cards + 1} /\ cards' \in 0 .. MaxCards
        BY <3>2, ReviewAssumption DEF Tell, Ask, RaiseCard, OthersTyped
      <4>2. asked' \in BOOLEAN /\ UNCHANGED <<task, acted, crashes>>
        BY <3>2 DEF Tell, Ask, OthersTyped
      <4> QED BY <4>1, <4>2 DEF OthersTyped
    <3> QED BY <1>4, <3>1, <3>2
  <2> QED BY <1>4, <2>1, <2>2 DEF Tell, Ask, SettlerDies, TableTyped, RunsTyped
<1>5. CASE Find(w)
  <2>1. [Free EXCEPT !.at = "found"] \in SettlerType
    BY Rows DEF Free, SettlerType, SettleSteps
  <2>2. SettlersTyped'
    BY <1>5, <2>1 DEF Find, Free, SettlersTyped
  <2> QED BY <1>5, <2>2 DEF Find, TableTyped, RunsTyped, OthersTyped
<1>6. ASSUME NEW a \in Actions, NEW r \in Rounds, List(w, a, r) PROVE Typed'
  <2>1. [at |-> "listed", act |-> a, round |-> r, says |-> Verdict(answer[a][r])] \in SettlerType
    BY Rows DEF SettlerType, SettleSteps, Verdict
  <2>2. SettlersTyped'
    BY <1>6, <2>1 DEF List, SettlersTyped
  <2> QED BY <1>6, <2>2 DEF List, TableTyped, RunsTyped, OthersTyped
<1> QED BY <1>1, <1>2, <1>3, <1>4, <1>5, <1>6 DEF Tick

LEMMA TypeStep == Typed /\ [Next]_vars => Typed'
<1> SUFFICES ASSUME Typed, [Next]_vars PROVE Typed'
  OBVIOUS
<1> USE DEF Typed, TableTyped, OthersTyped
<1>1. CASE UNCHANGED vars
  BY <1>1 DEF vars, reviews, RunsTyped, SettlersTyped
<1>2. ASSUME NEW a \in Actions, NEW r \in Rounds,
             Review(a, r) \/ Halt(a, r) \/ Continue(a, r)
      PROVE  Typed'
  <2>1. PICK v \in Answers : answer' = [answer EXCEPT ![a][r] = v]
    BY <1>2 DEF Review, Halt, Continue, Answers
  <2>2. answer' \in [Actions -> [Rounds -> Answers]]
    BY <2>1
  <2> QED BY <1>2, <2>2 DEF Review, Halt, Continue, RunsTyped, SettlersTyped
<1>3. CASE Cancel
  <2>1. answer' \in [Actions -> [Rounds -> Answers]]
    BY <1>3 DEF Cancel, Answers
  <2> QED BY <1>3, <2>1 DEF Cancel, RunsTyped, SettlersTyped
<1>4. ASSUME NEW yes \in BOOLEAN, Decide(yes) PROVE Typed'
  BY <1>4, ReviewAssumption DEF Decide, reviews, RunsTyped, SettlersTyped
<1> QED BY <1>1, <1>2, <1>3, <1>4, RunTyped, TickTyped DEF Next, ReviewerNext, OwnerNext

-----------------------------------------------------------------------------
Trace == Typed /\ Recorded /\ Followed

\* An answer once given stays, a row that is there stays, and a record too.
LEMMA Stays ==
    ASSUME Typed, [Next]_vars
    PROVE  /\ \A a \in Actions, r \in Rounds :
                 answer[a][r] \in Decisions => answer'[a][r] = answer[a][r]
           /\ \A a \in Actions, r \in Rounds : row[a][r] # "none" => row'[a][r] # "none"
           /\ decided \subseteq decided'
<1> USE DEF Typed, TableTyped, reviews
<1>1. CASE UNCHANGED vars
  BY <1>1 DEF vars
<1>2. ASSUME NEW p \in Runs, RunNext(p)
      PROVE  /\ \A a \in Actions, r \in Rounds :
                   answer[a][r] \in Decisions => answer'[a][r] = answer[a][r]
             /\ \A a \in Actions, r \in Rounds : row[a][r] # "none" => row'[a][r] # "none"
             /\ decided \subseteq decided'
  <2>1. CASE EscalateAll(p)
    BY <2>1 DEF EscalateAll, RunsTyped
  <2>2. CASE Brief(p)
    BY <2>2 DEF Brief, RunsTyped, Decisions
  <2>3. CASE Open(p)
    BY <2>3 DEF Open, RunsTyped
  <2> QED BY <1>2, <2>1, <2>2, <2>3
          DEF RunNext, Start, Act, TellDeadlock, BriefRefused, GoOn, Park, FailAttempt, RunStops, Propose
<1>3. ASSUME NEW w \in Workers, Tick(w) \/ SettlerDies(w)
      PROVE  /\ answer' = answer
             /\ \A a \in Actions, r \in Rounds : row[a][r] # "none" => row'[a][r] # "none"
             /\ decided \subseteq decided'
  <2>1. CASE EscalateUnread(w)
    BY <2>1 DEF EscalateUnread, SettlersTyped
  <2>2. CASE Record(w)
    BY <2>2 DEF Record, SettlersTyped, StatusOf, Decisions
  <2>3. CASE EscalateRefused(w)
    BY <2>3 DEF EscalateRefused, SettlersTyped
  <2> QED BY <1>3, <2>1, <2>2, <2>3
          DEF Tick, Read, LookAtProposer, MoveProposer, Tell, Find, Ask, List, SettlerDies
<1>4. CASE ReviewerNext
  BY <1>4 DEF ReviewerNext, Review, Halt, Continue, Decisions
<1>5. CASE OwnerNext
  BY <1>5 DEF OwnerNext, Cancel, Decide, Decisions
<1> QED BY <1>1, <1>2, <1>3, <1>4, <1>5 DEF Next

\* How a settling worker's hands change in a step.
LEMMA SettlerMoves ==
    ASSUME Typed, [Next]_vars, NEW w \in Workers
    PROVE  \/ settler'[w] = settler[w]
           \/ settler'[w].at \in {"idle", "found"}
           \/ \E a \in Actions, r \in Rounds : List(w, a, r)
           \/ /\ settler[w].at \notin {"idle", "found"} /\ settler'[w].at # "listed"
              /\ settler'[w].act = settler[w].act /\ settler'[w].round = settler[w].round
              /\ settler'[w].says = settler[w].says
              /\ settler'[w].at = "reading" => settler[w].at = "listed"
<1> DEFINE Goal == \/ settler'[w] = settler[w]
                   \/ settler'[w].at \in {"idle", "found"}
                   \/ \E a \in Actions, r \in Rounds : List(w, a, r)
                   \/ /\ settler[w].at \notin {"idle", "found"} /\ settler'[w].at # "listed"
                      /\ settler'[w].act = settler[w].act /\ settler'[w].round = settler[w].round
                      /\ settler'[w].says = settler[w].says
                      /\ settler'[w].at = "reading" => settler[w].at = "listed"
<1>1. CASE UNCHANGED settler
  BY <1>1
<1>2. ASSUME NEW v \in Workers, v # w, Tick(v) \/ SettlerDies(v) PROVE Goal
  BY <1>2 DEF Tick, EscalateUnread, Read, Record, LookAtProposer, MoveProposer, EscalateRefused,
              Tell, Find, Ask, List, SettlerDies, GoSettle, Done, Typed, SettlersTyped
<1>3. ASSUME NEW to \in SettleSteps \ {"listed", "reading"}, GoSettle(w, to),
             settler[w].at \notin {"idle", "found"}
      PROVE  Goal
  BY <1>3 DEF GoSettle, Typed, SettlersTyped, SettlerType
<1>4. CASE Read(w)
  BY <1>4 DEF Read, GoSettle, Typed, SettlersTyped, SettlerType
<1>5. CASE Done(w) \/ Find(w)
  BY <1>5 DEF Done, Find, Free, Typed, SettlersTyped, SettlerType
<1>6. CASE Tick(w) \/ SettlerDies(w)
  <2>1. CASE EscalateUnread(w) \/ Record(w) \/ EscalateRefused(w) \/ LookAtProposer(w) \/ MoveProposer(w)
    BY <2>1, <1>3, <1>5 DEF EscalateUnread, Record, EscalateRefused, LookAtProposer, MoveProposer, SettleSteps
  <2>2. CASE Tell(w) \/ Ask(w) \/ SettlerDies(w)
    BY <2>2, <1>5 DEF Tell, Ask, SettlerDies
  <2> QED BY <1>4, <1>5, <1>6, <2>1, <2>2 DEF Tick
<1>7. CASE \/ \E p \in Runs : RunNext(p)
           \/ ReviewerNext \/ OwnerNext
  BY <1>1, <1>7 DEF RunNext, Start, Act, EscalateAll, TellDeadlock, Brief, BriefRefused, GoOn, Open, Park,
        FailAttempt, RunStops, Propose, ReviewerNext, Review, Halt, Continue, OwnerNext, Cancel, Decide
<1> QED BY <1>1, <1>2, <1>6, <1>7 DEF Next, vars

\* How a row changes in a step.
LEMMA RowMoves ==
    ASSUME Typed, [Next]_vars, NEW a \in Actions, NEW r \in Rounds
    PROVE  \/ row'[a][r] = row[a][r]
           \/ row'[a][r] = "escalated" /\ row[a][r] # "none"
           \/ \E p \in Runs : Open(p) /\ run[p].act = a /\ run[p].round = r /\ row'[a][r] = "pending"
           \/ \E w \in Workers : /\ settler[w].act = a /\ settler[w].round = r
                                 /\ \/ Record(w) /\ row'[a][r] = StatusOf(settler[w].says)
                                    \/ settler[w].at = "listed" /\ row'[a][r] = "escalated"
<1> USE DEF Typed, TableTyped, reviews
<1>1. CASE UNCHANGED row
  BY <1>1
<1>2. ASSUME NEW p \in Runs, EscalateAll(p)
      PROVE  row'[a][r] = row[a][r] \/ (row'[a][r] = "escalated" /\ row[a][r] # "none")
  BY <1>2 DEF EscalateAll, RunsTyped
<1>3. ASSUME NEW p \in Runs, Open(p)
      PROVE  \/ row'[a][r] = row[a][r]
             \/ run[p].act = a /\ run[p].round = r /\ row'[a][r] = "pending"
  BY <1>3 DEF Open, RunsTyped
<1>4. ASSUME NEW w \in Workers, EscalateUnread(w) \/ EscalateRefused(w)
      PROVE  \/ row'[a][r] = row[a][r]
             \/ row'[a][r] = "escalated" /\ row[a][r] # "none"
             \/ /\ settler[w].act = a /\ settler[w].round = r
                /\ settler[w].at = "listed" /\ row'[a][r] = "escalated"
  <2>1. CASE EscalateUnread(w)
    BY <2>1 DEF EscalateUnread, SettlersTyped
  <2>2. CASE EscalateRefused(w)
    BY <2>2 DEF EscalateRefused, SettlersTyped
  <2> QED BY <1>4, <2>1, <2>2
<1>5. ASSUME NEW w \in Workers, Record(w)
      PROVE  \/ row'[a][r] = row[a][r]
             \/ /\ settler[w].act = a /\ settler[w].round = r
                /\ row'[a][r] = StatusOf(settler[w].says)
  BY <1>5 DEF Record, SettlersTyped
<1>6. \/ UNCHANGED row
      \/ \E p \in Runs : EscalateAll(p) \/ Open(p)
      \/ \E w \in Workers : EscalateUnread(w) \/ EscalateRefused(w) \/ Record(w)
  BY DEF Next, vars, RunNext, Start, Act, TellDeadlock, Brief, BriefRefused, GoOn, Park, FailAttempt,
     RunStops, Propose, ReviewerNext, Review, Halt, Continue, OwnerNext, Cancel, Decide,
     Tick, Read, LookAtProposer, MoveProposer, Tell, Find, Ask, List, SettlerDies
<1> QED BY <1>1, <1>2, <1>3, <1>4, <1>5, <1>6

-----------------------------------------------------------------------------
\* What is in hand, what is recorded and what the rows say stay in step.
LEMMA RecordedStep == Trace /\ [Next]_vars => Recorded'
<1> SUFFICES ASSUME Trace, [Next]_vars PROVE Recorded'
  OBVIOUS
<1>0. Typed /\ Typed' /\ Recorded /\ Followed
  BY TypeStep DEF Trace
<1>1. SaysTheAnswer'
  <2> SUFFICES ASSUME NEW w \in Workers,
                      (settler[w].at)' \in {"listed", "reading"}, (settler[w].says)' # "none"
               PROVE  answer'[settler'[w].act][settler'[w].round] = settler'[w].says
    BY DEF SaysTheAnswer
  <2>1. CASE settler'[w] = settler[w]
    BY <1>0, <2>1, Stays DEF Recorded, SaysTheAnswer, Typed, SettlersTyped, SettlerType
  <2>2. ASSUME NEW a \in Actions, NEW r \in Rounds, List(w, a, r)
        PROVE  answer'[settler'[w].act][settler'[w].round] = settler'[w].says
    <3>1. /\ answer' = answer
          /\ settler'[w] = [at |-> "listed", act |-> a, round |-> r, says |-> Verdict(answer[a][r])]
      BY <1>0, <2>2 DEF List, reviews, Typed, SettlersTyped
    <3> QED BY <3>1 DEF Verdict
  <2>3. CASE /\ settler[w].at = "listed"
             /\ settler'[w].act = settler[w].act /\ settler'[w].round = settler[w].round
             /\ settler'[w].says = settler[w].says
    BY <1>0, <2>3, Stays DEF Recorded, SaysTheAnswer, Typed, SettlersTyped, SettlerType
  <2> QED BY <1>0, <2>1, <2>2, <2>3, SettlerMoves
<1>2. OneVerdictOfAReview'
  <2> SUFFICES ASSUME NEW d \in decided' PROVE answer'[d[1]][d[2]] = d[3]
    BY DEF OneVerdictOfAReview
  <2>1. CASE d \in decided
    BY <1>0, <2>1, Stays DEF Recorded, OneVerdictOfAReview, Typed, TableTyped
  <2>2. CASE d \notin decided
    <3>1. PICK w \in Workers : Record(w)
      BY <2>2 DEF Next, vars, reviews, RunNext, Start, Act, EscalateAll, TellDeadlock, Brief, BriefRefused, GoOn,
         Open, Park, FailAttempt, RunStops, Propose, ReviewerNext, Review, Halt, Continue, OwnerNext,
         Cancel, Decide, Tick, EscalateUnread, Read, LookAtProposer, MoveProposer, EscalateRefused,
         Tell, Find, Ask, List, SettlerDies
    <3>2. d = <<settler[w].act, settler[w].round, settler[w].says>> /\ answer' = answer
      BY <2>2, <3>1 DEF Record
    <3>3. /\ settler[w].says \in Decisions /\ settler[w].says # "none"
          /\ settler[w].at \in {"listed", "reading"}
      BY <1>0, <3>1 DEF Record, Typed, SettlersTyped, Decisions
    <3> QED BY <1>0, <3>2, <3>3 DEF Recorded, SaysTheAnswer
  <2> QED BY <2>1, <2>2
<1>3. RowsAreRecorded'
  <2> SUFFICES ASSUME NEW a \in Actions, NEW r \in Rounds
               PROVE  /\ row'[a][r] = "approved" => <<a, r, "approve">> \in decided'
                      /\ row'[a][r] = "revise" => <<a, r, "revise">> \in decided'
                      /\ row'[a][r] = "rejected" => <<a, r, "reject">> \in decided'
    BY DEF RowsAreRecorded
  <2>1. CASE row'[a][r] = row[a][r]
    BY <1>0, <2>1, Stays DEF Recorded, RowsAreRecorded
  <2>2. ASSUME NEW w \in Workers, settler[w].act = a, settler[w].round = r, Record(w),
               row'[a][r] = StatusOf(settler[w].says)
        PROVE  /\ row'[a][r] = "approved" => <<a, r, "approve">> \in decided'
               /\ row'[a][r] = "revise" => <<a, r, "revise">> \in decided'
               /\ row'[a][r] = "rejected" => <<a, r, "reject">> \in decided'
    <3>1. settler[w].says \in Decisions
      BY <1>0, <2>2 DEF Record, Typed, SettlersTyped
    <3>2. <<a, r, settler[w].says>> \in decided'
      BY <2>2 DEF Record
    <3> QED BY <2>2, <3>1, <3>2 DEF StatusOf, Decisions
  <2> QED BY <1>0, <2>1, <2>2, RowMoves
<1> QED BY <1>1, <1>2, <1>3 DEF Recorded

\* Rounds come one after a revision of the other, and acts after an approval.
LEMMA FollowedStep == Trace /\ [Next]_vars => Followed'
<1> SUFFICES ASSUME Trace, [Next]_vars PROVE Followed'
  OBVIOUS
<1>0. Typed /\ Typed' /\ Recorded /\ Followed
  BY TypeStep DEF Trace
<1>1. RowsFollow'
  <2> SUFFICES ASSUME NEW a \in Actions, NEW r \in Rounds, row'[a][r] # "none",
                      NEW s \in Rounds, s < r
               PROVE  <<a, s, "revise">> \in decided'
    BY DEF RowsFollow, RevisedBefore
  <2>1. CASE row[a][r] # "none"
    BY <1>0, <2>1, Stays DEF Followed, RowsFollow, RevisedBefore
  <2>2. ASSUME NEW p \in Runs, Open(p), run[p].act = a, run[p].round = r
        PROVE  <<a, s, "revise">> \in decided'
    BY <1>0, <2>2, Stays DEF Followed, RunsFollow, RevisedBefore, Open
  <2>3. ASSUME NEW w \in Workers, settler[w].act = a, settler[w].round = r,
               Record(w) \/ settler[w].at = "listed"
        PROVE  row[a][r] # "none"
    BY <1>0, <2>3 DEF Record, Followed, AskedFor
  <2>4. \/ row'[a][r] = row[a][r] \/ row[a][r] # "none"
        \/ \E p \in Runs : Open(p) /\ run[p].act = a /\ run[p].round = r
        \/ \E w \in Workers : /\ settler[w].act = a /\ settler[w].round = r
                              /\ Record(w) \/ settler[w].at = "listed"
    BY <1>0, RowMoves
  <2> QED BY <2>1, <2>2, <2>3, <2>4
<1>2. AskedFor'
  <2>1. ASSUME NEW d \in decided' PROVE row'[d[1]][d[2]] # "none"
    <3>1. CASE d \in decided
      BY <1>0, <3>1, Stays DEF Followed, AskedFor, Typed, TableTyped
    <3>2. CASE d \notin decided
      <4>1. PICK w \in Workers : Record(w)
        BY <3>2 DEF Next, vars, reviews, RunNext, Start, Act, EscalateAll, TellDeadlock, Brief, BriefRefused, GoOn,
           Open, Park, FailAttempt, RunStops, Propose, ReviewerNext, Review, Halt, Continue, OwnerNext,
           Cancel, Decide, Tick, EscalateUnread, Read, LookAtProposer, MoveProposer, EscalateRefused,
           Tell, Find, Ask, List, SettlerDies
      <4>2. d = <<settler[w].act, settler[w].round, settler[w].says>> /\ settler[w].at = "reading"
        BY <3>2, <4>1 DEF Record
      <4>3. /\ settler[w].act \in Actions /\ settler[w].round \in Rounds
            /\ row[settler[w].act][settler[w].round] # "none"
        BY <1>0, <4>2 DEF Followed, AskedFor, Typed, SettlersTyped
      <4> QED BY <1>0, <4>2, <4>3, Stays
    <3> QED BY <3>1, <3>2
  <2>2. ASSUME NEW w \in Workers, settler'[w].at \notin {"idle", "found"}
        PROVE  row'[settler'[w].act][settler'[w].round] # "none"
    <3>1. CASE /\ settler[w].at \notin {"idle", "found"}
               /\ settler'[w].act = settler[w].act /\ settler'[w].round = settler[w].round
      BY <1>0, <3>1, Stays DEF Followed, AskedFor, Typed, SettlersTyped
    <3>2. ASSUME NEW a \in Actions, NEW r \in Rounds, List(w, a, r)
          PROVE  row'[settler'[w].act][settler'[w].round] # "none"
      BY <1>0, <3>2 DEF List, reviews, Typed, SettlersTyped
    <3> QED BY <1>0, <2>2, <3>1, <3>2, SettlerMoves
  <2> QED BY <2>1, <2>2 DEF AskedFor
<1>3. RunsFollow'
  <2> SUFFICES ASSUME NEW p \in Runs
               PROVE  /\ (run[p].at)' \in {"brief", "open"}
                            => RevisedBefore(run[p].act, run[p].round)'
                      /\ (run[p].at)' = "cleared"
                            => \E r \in Rounds : <<run'[p].act, r, "approve">> \in decided'
    BY DEF RunsFollow
  <2>1. \A a \in Actions, r \in Rounds : RevisedBefore(a, r) => RevisedBefore(a, r)'
    BY <1>0, Stays DEF RevisedBefore
  <2>2. CASE /\ run'[p].act = run[p].act /\ run'[p].round = run[p].round
             /\ \/ run'[p].at = run[p].at
                \/ run[p].at = "brief" /\ run'[p].at = "open"
    BY <1>0, <2>1, <2>2, Stays DEF Followed, RunsFollow, RevisedBefore
  <2>3. CASE run'[p].at \notin {"brief", "open", "cleared"}
    BY <2>3
  <2>4. ASSUME NEW a \in Actions, Propose(p, a)
        PROVE  /\ (run[p].at)' \in {"brief", "open"}
                     => RevisedBefore(run[p].act, run[p].round)'
               /\ (run[p].at)' = "cleared"
                     => \E r \in Rounds : <<run'[p].act, r, "approve">> \in decided'
    <3>1. PICK r \in 0 .. Limit :
             /\ Latest(a, r)
             /\ run' = [run EXCEPT ![p] = [at |-> AnswerFound(a, r), act |-> a,
                          round |-> IF AnswerFound(a, r) = "brief" THEN r + 1 ELSE r]]
      BY <2>4 DEF Propose
    <3>2. /\ run'[p].at = AnswerFound(a, r) /\ run'[p].act = a
          /\ run'[p].round = IF AnswerFound(a, r) = "brief" THEN r + 1 ELSE r
      BY <1>0, <3>1 DEF Typed, RunsTyped
    <3>3. AnswerFound(a, r) # "open"
      BY DEF AnswerFound
    <3>4. CASE AnswerFound(a, r) = "cleared"
      <4>1. PICK s \in Rounds : row[a][s] = "approved"
        BY <3>4 DEF AnswerFound, IsApproved
      <4> QED BY <1>0, <3>2, <3>4, <4>1, Stays DEF Recorded, RowsAreRecorded
    <3>5. CASE AnswerFound(a, r) = "brief" /\ r = 0
      BY <3>2, <3>5 DEF RevisedBefore, Rounds
    <3>6. CASE AnswerFound(a, r) = "brief" /\ r # 0
      <4>1. r \in Rounds /\ row[a][r] # "none"
        BY <3>1, <3>6, Rows DEF Latest
      <4>2. row[a][r] = "revise"
        BY <1>0, <3>6, <4>1 DEF AnswerFound, IsApproved, Typed, TableTyped, RowStatus
      <4>3. <<a, r, "revise">> \in decided /\ RevisedBefore(a, r)
        BY <1>0, <4>1, <4>2 DEF Recorded, RowsAreRecorded, Followed, RowsFollow
      <4>4. \A s \in Rounds : s < r + 1 => <<a, s, "revise">> \in decided'
        BY <1>0, <4>1, <4>3, Stays, Rows DEF RevisedBefore, Rounds
      <4> QED BY <3>2, <3>6, <4>4 DEF RevisedBefore
    <3> QED BY <3>2, <3>3, <3>4, <3>5, <3>6
  <2>5. CASE UNCHANGED run
    BY <2>2, <2>5
  <2>6. ASSUME NEW q \in Runs, q # p, RunNext(q)
        PROVE  run'[p] = run[p]
    BY <1>0, <2>6 DEF RunNext, Start, Act, EscalateAll, TellDeadlock, Brief, BriefRefused, GoOn, Open, Park,
       FailAttempt, RunStops, Propose, GoRun, Off, Typed, RunsTyped
  <2>7. CASE Brief(p)
    <3>1. run'[p].act = run[p].act /\ run'[p].round = run[p].round /\ run[p].at = "brief"
          /\ run'[p].at = "open"
      BY <1>0, <2>7 DEF Brief, GoRun, Typed, RunsTyped, RunType
    <3> QED BY <2>2, <3>1
  <2>8. CASE \/ Start(p) \/ Act(p) \/ EscalateAll(p) \/ TellDeadlock(p) \/ BriefRefused(p) \/ GoOn(p)
             \/ Open(p) \/ Park(p) \/ FailAttempt(p) \/ RunStops(p)
    <3>1. run'[p].at \in {"on", "tell", "parking", "failing", "off"}
      BY <1>0, <2>8 DEF Start, Act, EscalateAll, TellDeadlock, BriefRefused, GoOn, Open, Park,
         FailAttempt, RunStops, GoRun, Off, Idle, Typed, RunsTyped, RunType
    <3> QED BY <2>3, <3>1
  <2>9. UNCHANGED run \/ \E q \in Runs : RunNext(q)
    BY DEF Next, vars, ReviewerNext, Review, Halt, Continue, OwnerNext, Cancel, Decide, Tick,
       EscalateUnread, Read, Record, LookAtProposer, MoveProposer, EscalateRefused, Tell, Find, Ask,
       List, SettlerDies
  <2>10. CASE RunNext(p)
    BY <2>4, <2>7, <2>8, <2>10 DEF RunNext
  <2> QED BY <2>2, <2>5, <2>6, <2>9, <2>10
<1>4. ActsAreRecorded'
  <2>1. ASSUME NEW a \in acted' PROVE \E r \in Rounds : <<a, r, "approve">> \in decided'
    <3>1. CASE a \in acted
      BY <1>0, <3>1, Stays DEF Followed, ActsAreRecorded
    <3>2. CASE a \notin acted
      <4>1. PICK p \in Runs : Act(p)
        BY <2>1, <3>2 DEF Next, vars, RunNext, Start, EscalateAll, TellDeadlock, Brief, BriefRefused, GoOn,
           Open, Park, FailAttempt, RunStops, Propose, ReviewerNext, Review, Halt, Continue, OwnerNext,
           Cancel, Decide, Tick, EscalateUnread, Read, Record, LookAtProposer, MoveProposer,
           EscalateRefused, Tell, Find, Ask, List, SettlerDies
      <4>2. a = run[p].act /\ run[p].at = "cleared"
        BY <2>1, <3>2, <4>1 DEF Act
      <4> QED BY <1>0, <4>2, Stays DEF Followed, RunsFollow
    <3> QED BY <3>1, <3>2
  <2> QED BY <2>1 DEF ActsAreRecorded
<1> QED BY <1>1, <1>2, <1>3, <1>4 DEF Followed

LEMMA TraceInit == Init => Trace
<1> SUFFICES ASSUME Init PROVE Trace
  OBVIOUS
<1>1. Typed
  <2>1. TableTyped
    <3>1. row = [a \in Actions |-> [r \in Rounds |-> "none"]] /\ "none" \in RowStatus
      BY DEF Init, RowStatus
    <3>2. answer = [a \in Actions |-> [r \in Rounds |-> "none"]] /\ "none" \in Answers
      BY DEF Init, Answers
    <3>3. decided = {}
      BY DEF Init
    <3> QED BY <3>1, <3>2, <3>3 DEF TableTyped
  <2>4. OthersTyped
    <3>1. 0 \in 0 .. MaxCards /\ 0 \in 0 .. MaxCrashes
      BY ReviewAssumption
    <3> QED BY <3>1 DEF Init, OthersTyped
  <2>2. RunsTyped
    <3>1. Idle \in RunType
      BY Rows DEF Idle, RunType, RunSteps
    <3> QED BY <3>1 DEF Init, RunsTyped, Idle
  <2>3. SettlersTyped
    <3>1. Free \in SettlerType
      BY Rows DEF Free, SettlerType, SettleSteps
    <3> QED BY <3>1 DEF Init, SettlersTyped, Free
  <2> QED BY <2>1, <2>2, <2>3, <2>4 DEF Typed
<1>2. Recorded /\ Followed
  BY <1>1 DEF Init, Recorded, SaysTheAnswer, OneVerdictOfAReview, RowsAreRecorded, Followed, RowsFollow,
     AskedFor, RunsFollow, ActsAreRecorded, Idle, Free
<1> QED BY <1>1, <1>2 DEF Trace

LEMMA TraceHolds == Spec => []Trace
<1>1. Trace /\ [Next]_vars => Trace'
  BY TypeStep, RecordedStep, FollowedStep DEF Trace
<1> QED BY TraceInit, <1>1, PTL DEF Spec

\* Every variable keeps its type, and the rounds their limit.
THEOREM WellTyped == Spec => []TypeOK
<1>1. Trace => TypeOK
  BY TypedMeans DEF Trace
<1> QED BY TraceHolds, <1>1, PTL

\* What is carried out is what a reviewer approved, of any number of actions,
\* with any number of runs and workers racing and dying.
THEOREM ActsAreApproved == Spec => []ActsOnApproval
<1>1. Trace => ActsOnApproval
  <2> SUFFICES ASSUME Trace, NEW a \in acted
               PROVE  \E r \in Rounds : answer[a][r] = "approve" /\ <<a, r, "approve">> \in decided
    BY DEF ActsOnApproval
  <2>1. PICK r \in Rounds : <<a, r, "approve">> \in decided
    BY DEF Trace, Followed, ActsAreRecorded
  <2>2. answer[a][r] = "approve"
    BY <2>1 DEF Trace, Recorded, OneVerdictOfAReview
  <2> QED BY <2>1, <2>2
<1> QED BY TraceHolds, <1>1, PTL

\* The reviewer is asked again only about what it sent back, and the answers to
\* one action never contradict each other.
THEOREM RoundsAreRevisions == Spec => []RoundsFollowRevisions
<1>1. Trace => RoundsFollowRevisions
  <2> SUFFICES ASSUME Trace PROVE RoundsFollowRevisions
    OBVIOUS
  <2>1. ASSUME NEW a \in Actions, NEW r \in Rounds, NEW s \in Rounds,
               row[a][r] # "none", s < r
        PROVE  <<a, s, "revise">> \in decided
    BY <2>1 DEF Trace, Followed, RowsFollow, RevisedBefore
  <2>2. ASSUME NEW a \in Actions, NEW r \in Rounds, NEW s \in Rounds,
               <<a, r, "approve">> \in decided, <<a, s, "reject">> \in decided
        PROVE  FALSE
    <3>1. answer[a][r] = "approve" /\ answer[a][s] = "reject"
      BY <2>2 DEF Trace, Recorded, OneVerdictOfAReview
    <3>2. row[a][r] # "none" /\ row[a][s] # "none"
      BY <2>2 DEF Trace, Followed, AskedFor
    <3>3. r < s \/ s < r
      BY <3>1, Rows DEF Rounds
    <3>4. <<a, r, "revise">> \in decided \/ <<a, s, "revise">> \in decided
      BY <3>2, <3>3 DEF Trace, Followed, RowsFollow, RevisedBefore
    <3> QED BY <3>1, <3>4 DEF Trace, Recorded, OneVerdictOfAReview
  <2> QED BY <2>1, <2>2 DEF RoundsFollowRevisions
<1> QED BY TraceHolds, <1>1, PTL

\* Every decision record of a review is the reviewer's own answer.
THEOREM VerdictsAreAnswers == Spec => []OneVerdictOfAReview
<1>1. Trace => OneVerdictOfAReview
  BY DEF Trace, Recorded
<1> QED BY TraceHolds, <1>1, PTL
=============================================================================
