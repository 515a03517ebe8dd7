-------------------------- MODULE ApprovalsProofs --------------------------
(***************************************************************************)
(* One yes carries one act, for every number of workers, proposals, losses *)
(* of the task and questions.  A run between a spent yes and its return    *)
(* holds that yes alone, and a yes that is not held was acted on once for  *)
(* each answer that was unclear, and once more only while it is used.  And *)
(* a card that is opened after a used yes may have done its act says so.   *)
(***************************************************************************)
EXTENDS Approvals, TLAPS

\* The runs that have a yes, and those that have spent it and may act on it.
HasYes == {"yes", "acting", "returning"}
HoldsYes == {"acting", "returning"}

\* A run that is under way has a proposal.
UnderWay == \A w \in Workers : call[w].phase \in Unfinished => call[w].of \in Proposals

\* A run's yes is the owner's, to what the run is about to do.
YesIsForIt ==
    \A w \in Workers : call[w].phase \in HasYes =>
        /\ call[w].yes \in DOMAIN cards
        /\ Approved(cards[call[w].yes])
        /\ cards[call[w].yes].of = call[w].of

\* A yes that a run holds is spent, and has room for one act.
YesIsHeld ==
    \A w \in Workers : call[w].phase \in HoldsYes =>
        /\ cards[call[w].yes].used
        /\ Len(cards[call[w].yes].did) <= cards[call[w].yes].unclear

\* And held by one run.
HeldByOne ==
    \A w, v \in Workers :
        w # v /\ call[w].phase \in HoldsYes /\ call[v].phase \in HoldsYes
            => call[v].yes # call[w].yes

\* What a card has carried: at most one act more than its unclear answers, and
\* not that one while it can still be used.
Carried(c) ==
    /\ \A n \in DOMAIN c.did : c.did[n] = c.of
    /\ ~Approved(c) => c.did = <<>>
    /\ Len(c.did) <= c.unclear + 1
    /\ ~c.used => Len(c.did) <= c.unclear

TypeInv == TypeOK /\ UnderWay

YesInv ==
    /\ YesIsForIt
    /\ YesIsHeld
    /\ HeldByOne
    /\ \A i \in DOMAIN cards : Carried(cards[i])

-----------------------------------------------------------------------------
(* Types.                                                                  *)

\* Withdrawing the open cards leaves a sequence of cards.
LEMMA WithdrawnType ==
    ASSUME NEW cs \in Seq(CardType), NEW S
    PROVE  Withdrawn(cs, S) \in Seq(CardType) /\ Len(Withdrawn(cs, S)) = Len(cs)
<1>1. \A i \in DOMAIN cs : cs[i] \in CardType
  OBVIOUS
<1>2. \A i \in DOMAIN cs : Withdrawn(cs, S)[i] \in CardType
  BY <1>1 DEF Withdrawn, CardType
<1>3. Withdrawn(cs, S) \in [1 .. Len(cs) -> CardType]
  BY <1>2 DEF Withdrawn
<1> QED
  BY <1>3

\* So does changing one card.
LEMMA CardChange ==
    ASSUME NEW cs \in Seq(CardType), NEW i, NEW x, i \in DOMAIN cs => x \in CardType,
           NEW ds, ds = [cs EXCEPT ![i] = x]
    PROVE  ds \in Seq(CardType) /\ DOMAIN ds = DOMAIN cs
<1>1. PICK n \in Nat : cs \in [1 .. n -> CardType]
  BY DEF Seq
<1>2. ds \in [1 .. n -> CardType]
  BY <1>1
<1> QED
  BY <1>1, <1>2

\* A card that is used or returned is still a card.
LEMMA CardUsed ==
    ASSUME NEW c \in CardType, NEW u \in BOOLEAN
    PROVE  [c EXCEPT !.used = u] \in CardType
  BY DEF CardType

\* And one that carries an act.
LEMMA CardActed ==
    ASSUME NEW c \in CardType, NEW p \in Proposals, NEW n \in Nat
    PROVE  [c EXCEPT !.did = Append(c.did, p), !.unclear = n] \in CardType
<1>1. Append(c.did, p) \in Seq(Proposals)
  BY DEF CardType
<1> QED
  BY <1>1 DEF CardType

\* A task that ends is in a status of the table, and so are its cards.
LEMMA EndType ==
    ASSUME TypeOK, NEW to \in Terminal, End(to)
    PROVE  /\ status' \in Terminal /\ holder' \in Workers \cup {NoWorker}
           /\ cards' \in Seq(CardType)
  BY WithdrawnType DEF TypeOK, End, EndWith

\* The call of a worker whose run ended, or that died.
LEMMA NoCallType == NoCall \in CallType /\ [NoCall EXCEPT !.phase = "dead"] \in CallType
  BY DEF NoCall, CallType

\* A run that enters a phase keeps the rest of its call.
LEMMA EnterType ==
    ASSUME TypeInv, NEW w \in Workers, call[w].phase \in Unfinished,
           NEW p \in Unfinished, Enter(w, p)
    PROVE  call' \in [Workers -> CallType] /\ UnderWay'
  BY DEF TypeInv, TypeOK, UnderWay, Enter, CallType

\* A run that ended has no proposal.
LEMMA LeaveType ==
    ASSUME TypeInv, NEW w \in Workers, Leave(w)
    PROVE  call' \in [Workers -> CallType] /\ UnderWay'
  BY NoCallType DEF TypeInv, TypeOK, UnderWay, Leave, Unfinished, NoCall

\* A call that is about to ask the owner.
LEMMA AskingType ==
    ASSUME NEW c \in CallType, c.of \in Proposals, NEW t \in BOOLEAN
    PROVE  /\ [c EXCEPT !.phase = "asking", !.yes = 0, !.told = t] \in CallType
           /\ [c EXCEPT !.phase = "asking", !.yes = 0, !.told = t].of \in Proposals
  BY DEF CallType, Unfinished

\* A step marked failed is a step.
LEMMA MarkFailedType ==
    ASSUME TypeInv, NEW w \in Workers, call[w].phase \in Unfinished, MarkFailed(w)
    PROVE  step' \in [Proposals -> StepType]
  BY DEF TypeInv, TypeOK, UnderWay, MarkFailed, CallType, StepType

\* Every step of a worker keeps the types.
LEMMA TypeWork ==
    ASSUME TypeInv, NEW w \in Workers, Work(w)
    PROVE  TypeInv'
<1> USE DEF TypeInv
<1>1. CASE Confirm(w)
  <2>1. call' \in [Workers -> CallType] /\ UnderWay'
    BY <1>1, EnterType, LeaveType DEF Confirm, At, Unfinished
  <2> QED  BY <1>1, <2>1 DEF Confirm, TypeOK, task, bounds
<1>2. CASE ClaimStep(w)
  <2>1. call[w].phase \in Unfinished /\ call[w].of \in Proposals
    BY <1>2 DEF ClaimStep, At, Unfinished, UnderWay
  <2>2. step[call[w].of].attempt + 1 \in Nat
    BY <2>1 DEF TypeOK, StepType
  <2>3. CASE step[call[w].of].status = "committed"
    <3>1. call' \in [Workers -> CallType] /\ UnderWay'
      BY <1>2, <2>1, <2>3, EnterType DEF ClaimStep, Unfinished
    <3> QED  BY <1>2, <2>3, <3>1 DEF ClaimStep, TypeOK, task, bounds
  <2>4. CASE step[call[w].of].status # "committed"
    <3>1. call' = [call EXCEPT ![w].phase = "gate", ![w].attempt = step[call[w].of].attempt + 1]
      BY <1>2, <2>4 DEF ClaimStep
    <3>2. call' \in [Workers -> CallType] /\ UnderWay'
      BY <2>1, <2>2, <3>1 DEF TypeOK, CallType, UnderWay, Unfinished
    <3>3. [status |-> "started", attempt |-> step[call[w].of].attempt + 1] \in StepType
      BY <2>2 DEF StepType
    <3>4. step' = [step EXCEPT ![call[w].of] = [status |-> "started", attempt |-> step[call[w].of].attempt + 1]]
      BY <1>2, <2>4 DEF ClaimStep
    <3>5. step' \in [Proposals -> StepType]
      BY <3>3, <3>4 DEF TypeOK
    <3> QED  BY <1>2, <3>2, <3>5 DEF ClaimStep, TypeOK, task, bounds
  <2> QED  BY <2>3, <2>4
<1>3. CASE FindGrantedApproval(w)
  <2>1. call[w].phase \in Unfinished
    BY <1>3 DEF FindGrantedApproval, At, Unfinished
  <2>2. call' \in [Workers -> CallType] /\ UnderWay'
    <3>1. CASE Enter(w, "ask")
      BY <2>1, <3>1, EnterType DEF Unfinished
    <3>2. CASE \E i \in Yeses(call[w].of) : call' = [call EXCEPT ![w].phase = "yes", ![w].yes = i]
      <4>1. PICK i \in Yeses(call[w].of) : call' = [call EXCEPT ![w].phase = "yes", ![w].yes = i]
        BY <3>2
      <4>2. i \in Nat
        BY DEF Yeses, TypeOK
      <4> QED  BY <2>1, <4>1, <4>2 DEF TypeOK, CallType, UnderWay, Unfinished
    <3> QED  BY <1>3, <3>1, <3>2 DEF FindGrantedApproval
  <2> QED  BY <1>3, <2>2 DEF FindGrantedApproval, TypeOK, task, bounds
<1>4. CASE SpendApproval(w)
  <2>1. call' \in [Workers -> CallType] /\ UnderWay'
    BY <1>4, EnterType DEF SpendApproval, At, Unfinished
  <2>2. cards' \in Seq(CardType)
    <3>1. CASE UNCHANGED cards
      BY <3>1 DEF TypeOK
    <3>2. CASE cards' = [cards EXCEPT ![call[w].yes].used = TRUE]
      <4> DEFINE x == [cards[call[w].yes] EXCEPT !.used = TRUE]
      <4>1. call[w].yes \in DOMAIN cards => x \in CardType
        <5>1. call[w].yes \in DOMAIN cards => cards[call[w].yes] \in CardType
          BY DEF TypeOK
        <5> QED  BY <5>1, CardUsed
      <4>2. cards' = [cards EXCEPT ![call[w].yes] = x]
        BY <3>2
      <4> HIDE DEF x
      <4> QED  BY <4>1, <4>2, CardChange DEF TypeOK
    <3> QED  BY <1>4, <3>1, <3>2 DEF SpendApproval
  <2> QED  BY <1>4, <2>1, <2>2 DEF SpendApproval, TypeOK, task, bounds
<1>5. CASE AskOwner(w)
  <2>1. call[w].phase \in Unfinished /\ Interrupted(call[w].of) \in BOOLEAN
    BY <1>5 DEF AskOwner, At, Unfinished, Interrupted
  <2>2. PICK t \in BOOLEAN : call' = [call EXCEPT ![w].phase = "asking", ![w].yes = 0, ![w].told = t]
    BY <1>5, <2>1 DEF AskOwner
  <2>3. call' \in [Workers -> CallType] /\ UnderWay'
    <3> DEFINE r == [call[w] EXCEPT !.phase = "asking", !.yes = 0, !.told = t]
    <3>1. r \in CallType /\ r.of \in Proposals
      BY <2>1, AskingType DEF TypeOK, UnderWay
    <3>2. call' = [call EXCEPT ![w] = r]
      BY <2>2
    <3> HIDE DEF r
    <3> QED  BY <3>1, <3>2 DEF TypeOK, UnderWay
  <2> QED  BY <1>5, <2>3 DEF AskOwner, TypeOK, task, bounds
<1>6. CASE RequestApproval(w)
  <2>1. call[w].phase \in Unfinished /\ call[w].of \in Proposals
    BY <1>6 DEF RequestApproval, At, Unfinished, UnderWay
  <2>2. call' \in [Workers -> CallType] /\ UnderWay'
    BY <1>6, <2>1, EnterType DEF RequestApproval, Unfinished
  <2>3. status' \in Terminal \cup {"pending", "running", "waiting_approval", "waiting_window"}
    BY <1>6 DEF RequestApproval, TypeOK
  <2>4. cards' \in Seq(CardType)
    <3> DEFINE same == {i \in Open : cards[i].of = call[w].of}
    <3>1. CASE cards' = [i \in DOMAIN cards |->
                         IF i \in same THEN [cards[i] EXCEPT !.decision = "none"] ELSE cards[i]]
      <4>1. \A i \in DOMAIN cards : cards[i] \in CardType
        BY DEF TypeOK
      <4>2. \A i \in DOMAIN cards : cards'[i] \in CardType
        BY <3>1, <4>1 DEF CardType
      <4>3. cards' \in [1 .. Len(cards) -> CardType]
        BY <3>1, <4>2 DEF TypeOK
      <4> QED  BY <4>3 DEF TypeOK
    <3>2. CASE \E S : cards' = Append(Withdrawn(cards, S), Card(w))
      <4>1. Card(w) \in CardType
        BY <2>1 DEF Card, CardType, TypeOK, CallType
      <4> QED  BY <3>2, <4>1, WithdrawnType DEF TypeOK
    <3>3. CASE UNCHANGED cards
      BY <3>3 DEF TypeOK
    <3> QED  BY <1>6, <3>1, <3>2, <3>3 DEF RequestApproval
  <2> QED  BY <1>6, <2>2, <2>3, <2>4 DEF RequestApproval, TypeOK, bounds
<1>7. CASE Act(w)
  <2>1. call[w].phase \in Unfinished /\ call[w].of \in Proposals
    BY <1>7 DEF Act, At, Unfinished, UnderWay
  <2>2. PICK fails \in BOOLEAN :
          /\ cards' = [cards EXCEPT ![call[w].yes].did = Append(@, call[w].of),
                                    ![call[w].yes].unclear = IF fails THEN @ + 1 ELSE @]
          /\ Enter(w, IF fails THEN "returning" ELSE "acted")
    BY <1>7 DEF Act
  <2>3. call' \in [Workers -> CallType] /\ UnderWay'
    BY <2>1, <2>2, EnterType DEF Unfinished
  <2>4. cards' \in Seq(CardType)
    <3> DEFINE c == cards[call[w].yes]
               n == IF fails THEN c.unclear + 1 ELSE c.unclear
               x == [c EXCEPT !.did = Append(c.did, call[w].of), !.unclear = n]
    <3>1. call[w].yes \in DOMAIN cards => x \in CardType
      <4>1. call[w].yes \in DOMAIN cards => c \in CardType
        BY DEF TypeOK
      <4>2. call[w].yes \in DOMAIN cards => n \in Nat
        BY <4>1 DEF CardType
      <4> HIDE DEF c, n
      <4> QED  BY <2>1, <4>1, <4>2, CardActed
    <3>2. cards' = [cards EXCEPT ![call[w].yes] = x]
      BY <2>2
    <3> HIDE DEF x
    <3> QED  BY <3>1, <3>2, CardChange DEF TypeOK
  <2> QED  BY <1>7, <2>3, <2>4 DEF Act, TypeOK, task, bounds
<1>8. CASE Refuse(w)
  <2>1. call' \in [Workers -> CallType] /\ UnderWay'
    BY <1>8, EnterType DEF Refuse, At, Unfinished
  <2> QED  BY <1>8, <2>1 DEF Refuse, TypeOK, task, bounds
<1>9. CASE ReturnApproval(w)
  <2>1. call' \in [Workers -> CallType] /\ UnderWay'
    BY <1>9, EnterType DEF ReturnApproval, At, Unfinished
  <2>2. cards' \in Seq(CardType)
    <3> DEFINE x == [cards[call[w].yes] EXCEPT !.used = FALSE]
    <3>1. call[w].yes \in DOMAIN cards => x \in CardType
      <4>1. call[w].yes \in DOMAIN cards => cards[call[w].yes] \in CardType
        BY DEF TypeOK
      <4> QED  BY <4>1, CardUsed
    <3>2. cards' = [cards EXCEPT ![call[w].yes] = x]
      BY <1>9 DEF ReturnApproval
    <3> HIDE DEF x
    <3> QED  BY <3>1, <3>2, CardChange DEF TypeOK
  <2> QED  BY <1>9, <2>1, <2>2 DEF ReturnApproval, TypeOK, task, bounds
<1>10. CASE ConfirmCommit(w)
  <2>1. call[w].phase \in Unfinished
    BY <1>10 DEF ConfirmCommit, At, Unfinished
  <2>2. call' \in [Workers -> CallType] /\ UnderWay'
    BY <1>10, <2>1, EnterType, LeaveType DEF ConfirmCommit, Unfinished
  <2>3. step' \in [Proposals -> StepType]
    BY <1>10, <2>1, MarkFailedType DEF ConfirmCommit, TypeOK
  <2> QED  BY <1>10, <2>2, <2>3 DEF ConfirmCommit, TypeOK, task, bounds
<1>11. CASE Unverified(w)
  <2>1. call[w].phase \in Unfinished
    BY <1>11 DEF Unverified, At, Unfinished
  <2>2. call' \in [Workers -> CallType] /\ UnderWay'
    BY <1>11, LeaveType DEF Unverified
  <2>3. step' \in [Proposals -> StepType]
    BY <1>11, <2>1, MarkFailedType DEF Unverified
  <2>4. /\ status' \in Terminal \cup {"pending", "running", "waiting_approval", "waiting_window"}
        /\ holder' \in Workers \cup {NoWorker} /\ cards' \in Seq(CardType)
    BY <1>11, EndType DEF Unverified, TypeOK, Terminal
  <2> QED  BY <1>11, <2>2, <2>3, <2>4 DEF Unverified, TypeOK, bounds
<1>12. CASE Commit(w)
  <2>1. call[w].phase \in Unfinished /\ call[w].of \in Proposals
    BY <1>12 DEF Commit, At, Unfinished, UnderWay
  <2>2. call' \in [Workers -> CallType] /\ UnderWay'
    BY <1>12, <2>1, EnterType DEF Commit, Unfinished
  <2>3. step' \in [Proposals -> StepType]
    BY <1>12, <2>1 DEF Commit, TypeOK, StepType
  <2> QED  BY <1>12, <2>2, <2>3 DEF Commit, TypeOK, task, bounds
<1>13. CASE Park(w)
  <2>1. call[w].phase \in Unfinished
    BY <1>13 DEF Park, At, Unfinished
  <2>2. call' \in [Workers -> CallType] /\ UnderWay'
    BY <1>13, LeaveType DEF Park
  <2>3. step' \in [Proposals -> StepType]
    BY <1>13, <2>1, MarkFailedType DEF Park
  <2> QED  BY <1>13, <2>2, <2>3 DEF Park, TypeOK, bounds
<1>14. CASE Answer(w)
  <2>1. call' \in [Workers -> CallType] /\ UnderWay'
    BY <1>14, EnterType, LeaveType DEF Answer, At, Unfinished
  <2>2. /\ status' \in Terminal \cup {"pending", "running", "waiting_approval", "waiting_window"}
        /\ holder' \in Workers \cup {NoWorker} /\ cards' \in Seq(CardType)
    BY <1>14, EndType DEF Answer, TypeOK, Terminal
  <2> QED  BY <1>14, <2>1, <2>2 DEF Answer, TypeOK, bounds
<1>15. CASE Fail(w)
  <2>1. call[w].phase \in Unfinished
    BY <1>15 DEF Fail, At, Unfinished
  <2>2. call' \in [Workers -> CallType] /\ UnderWay'
    BY <1>15, LeaveType DEF Fail
  <2>3. step' \in [Proposals -> StepType]
    BY <1>15, <2>1, MarkFailedType DEF Fail
  <2>4. /\ status' \in Terminal \cup {"pending", "running", "waiting_approval", "waiting_window"}
        /\ holder' \in Workers \cup {NoWorker} /\ cards' \in Seq(CardType) /\ failures' \in Nat
    BY <1>15, EndType DEF Fail, Charged, TypeOK, Terminal, task
  <2> QED  BY <1>15, <2>2, <2>3, <2>4 DEF Fail, TypeOK, bounds
<1> QED
  BY <1>1, <1>2, <1>3, <1>4, <1>5, <1>6, <1>7, <1>8, <1>9, <1>10, <1>11, <1>12, <1>13, <1>14, <1>15 DEF Work

\* An answer of the owner, or its absence, changes one card, and may withdraw
\* the others.
LEMMA AnswerCards ==
    ASSUME TypeInv, NEW i \in DOMAIN cards, Approve(i) \/ Deny(i) \/ Ask(i) \/ Expire(i)
    PROVE  \E st \in {"open", "decided", "expired"}, d \in {"none", "approve", "deny", "ask"} : \E cs :
              /\ cs = [cards EXCEPT ![i] = [cards[i] EXCEPT !.status = st, !.decision = d]]
              /\ cards' = cs \/ cards' = Withdrawn(cs, DOMAIN cs)
<1>1. cards[i] \in CardType
  BY DEF TypeInv, TypeOK
<1>2. cards[i].decision \in {"none", "approve", "deny", "ask"}
  BY <1>1 DEF CardType
<1>3. CASE Approve(i)
  BY <1>1, <1>3 DEF Approve
<1>4. CASE Deny(i)
  BY <1>1, <1>4 DEF Deny, CancelWith, EndWith
<1>5. CASE Ask(i)
  <2>1. cards[i].status = "open"
    BY <1>5 DEF Ask, Open
  <2>2. cards' = [cards EXCEPT ![i] = [cards[i] EXCEPT !.status = "open", !.decision = "ask"]]
    BY <1>1, <1>5, <2>1 DEF Ask, CardType
  <2> QED  BY <2>2
<1>6. CASE Expire(i)
  <2>1. [cards EXCEPT ![i].status = "expired"] =
           [cards EXCEPT ![i] = [cards[i] EXCEPT !.status = "expired", !.decision = cards[i].decision]]
    BY <1>1 DEF CardType
  <2> QED  BY <1>2, <1>6, <2>1 DEF Expire, CancelWith, EndWith
<1> QED  BY <1>3, <1>4, <1>5, <1>6

\* And so does everything else.
LEMMA TypeStep ==
    ASSUME TypeInv, [Next]_vars
    PROVE  TypeInv'
<1> USE DEF TypeInv
<1>1. ASSUME NEW w \in Workers, Work(w) PROVE TypeInv'
  BY <1>1, TypeWork
<1>2. ASSUME NEW w \in Workers, Begin(w) PROVE TypeInv'
  <2>1. turn' \in Proposals
    BY <1>2, ApprovalsAssumption DEF Begin, TypeOK
  <2>2. call' \in [Workers -> CallType] /\ UnderWay'
    <3> DEFINE r == [call[w] EXCEPT !.phase = "deciding", !.of = turn']
    <3>1. call[w] \in CallType
      BY DEF TypeOK
    <3>2. r \in CallType /\ r.of \in Proposals
      BY <2>1, <3>1 DEF CallType, Unfinished
    <3>3. call' = [call EXCEPT ![w] = r]
      BY <1>2 DEF Begin
    <3> HIDE DEF r
    <3> QED  BY <3>2, <3>3 DEF TypeOK, UnderWay
  <2> QED  BY <1>2, <2>1, <2>2 DEF Begin, TypeOK, bounds
<1>3. ASSUME NEW w \in Workers, Crash(w) PROVE TypeInv'
  <2>1. call' \in [Workers -> CallType] /\ UnderWay'
    <3>1. call' = [call EXCEPT ![w] = [NoCall EXCEPT !.phase = "dead"]]
      BY <1>3 DEF Crash
    <3>2. call' \in [Workers -> CallType]
      BY <3>1, NoCallType DEF TypeOK
    <3>3. UnderWay'
      BY <3>1 DEF TypeOK, UnderWay, Unfinished, NoCall
    <3> QED  BY <3>2, <3>3
  <2> QED  BY <1>3, <2>1 DEF Crash, TypeOK, task
<1>4. ASSUME NEW w \in Workers, Restart(w) PROVE TypeInv'
  <2>1. call' \in [Workers -> CallType] /\ UnderWay'
    BY <1>4, LeaveType DEF Restart
  <2> QED  BY <1>4, <2>1 DEF Restart, TypeOK, task, bounds
<1>5. CASE LeaseRunsOut
  BY <1>5 DEF LeaseRunsOut, TakeBack, TypeOK, UnderWay, bounds
<1>6. CASE LeaseIsLost
  BY <1>6 DEF LeaseIsLost, TakeBack, TypeOK, UnderWay
<1>7. CASE StopEverything
  BY <1>7, EndType DEF StopEverything, TypeOK, UnderWay, Terminal, bounds
<1>8. ASSUME NEW i \in DOMAIN cards, Approve(i) \/ Deny(i) \/ Ask(i) \/ Expire(i) PROVE TypeInv'
  <2>0. PICK st \in {"open", "decided", "expired"}, d \in {"none", "approve", "deny", "ask"} : \E cs :
              /\ cs = [cards EXCEPT ![i] = [cards[i] EXCEPT !.status = st, !.decision = d]]
              /\ cards' = cs \/ cards' = Withdrawn(cs, DOMAIN cs)
    BY <1>8, AnswerCards
  <2>1. PICK cs :
              /\ cs = [cards EXCEPT ![i] = [cards[i] EXCEPT !.status = st, !.decision = d]]
              /\ cards' = cs \/ cards' = Withdrawn(cs, DOMAIN cs)
    BY <2>0
  <2>2. cards' \in Seq(CardType)
    <3>1. [cards[i] EXCEPT !.status = st, !.decision = d] \in CardType
      <4>1. cards[i] \in CardType
        BY DEF TypeOK
      <4> QED  BY <4>1 DEF CardType
    <3>2. cs \in Seq(CardType)
      BY <2>1, <3>1, CardChange DEF TypeOK
    <3> QED  BY <2>1, <3>2, WithdrawnType
  <2>3. UnderWay'
    BY <1>8 DEF Approve, Deny, Ask, Expire, UnderWay
  <2>4. turn' \in Proposals \cup {NoProposal} /\ asks' \in Nat
    BY <1>8 DEF Approve, Deny, Ask, Expire, TypeOK, bounds
  <2>5. /\ status' \in Terminal \cup {"pending", "running", "waiting_approval", "waiting_window"}
        /\ holder' \in Workers \cup {NoWorker}
    BY <1>8 DEF Approve, Deny, Ask, Expire, TypeOK, GoesOn, CancelWith, EndWith, Terminal
  <2>6. UNCHANGED <<failures, step, call, crashes, stalls>>
    BY <1>8 DEF Approve, Deny, Ask, Expire, bounds
  <2> QED  BY <2>2, <2>3, <2>4, <2>5, <2>6 DEF TypeOK
<1>9. CASE UNCHANGED vars
  BY <1>9 DEF vars, task, bounds, TypeOK, UnderWay
<1> QED
  BY <1>1, <1>2, <1>3, <1>4, <1>5, <1>6, <1>7, <1>8, <1>9 DEF Next, Owner

\* The table holds what it may hold, and a run under way has a proposal.
THEOREM Types == Spec => []TypeInv
<1>1. Init => TypeInv
  <2>1. <<>> \in Seq(CardType)
    OBVIOUS
  <2>2. [status |-> "none", attempt |-> 0] \in StepType
    BY DEF StepType
  <2> QED
    BY <2>1, <2>2, NoCallType, ApprovalsAssumption DEF Init, TypeInv, TypeOK, UnderWay, NoCall, Unfinished
<1> QED
  BY <1>1, TypeStep, PTL DEF Spec

-----------------------------------------------------------------------------
(* Yeses.                                                                  *)

\* A card's yes is as it was: what it is about, what was done on it, whether
\* it is used; and an approval stays one.
SameYes(c, d) ==
    /\ d.of = c.of /\ d.did = c.did /\ d.unclear = c.unclear /\ d.used = c.used
    /\ Approved(c) => Approved(d)

\* A run's hold of a yes is as it was, or given up.
SameHold(w) ==
    call'[w].phase \in HasYes =>
        /\ call[w].phase \in HasYes
        /\ call'[w].phase \in HoldsYes => call[w].phase \in HoldsYes
        /\ call'[w].yes = call[w].yes /\ call'[w].of = call[w].of

\* A step that neither finds, spends nor returns a yes nor acts on one leaves
\* the yeses in order.
LEMMA Calm ==
    ASSUME TypeInv, TypeInv', YesInv,
           \A i \in DOMAIN cards : i \in DOMAIN cards' /\ SameYes(cards[i], cards'[i]),
           \A i \in DOMAIN cards' : i \notin DOMAIN cards =>
               cards'[i].did = <<>> /\ cards'[i].unclear = 0,
           \A w \in Workers : SameHold(w)
    PROVE  YesInv'
<1>1. YesIsForIt'
  BY DEF YesInv, YesIsForIt, SameHold, SameYes
<1>2. YesIsHeld'
  BY DEF YesInv, YesIsForIt, YesIsHeld, SameHold, SameYes, HoldsYes, HasYes
<1>3. HeldByOne'
  BY DEF YesInv, HeldByOne, SameHold, HoldsYes, HasYes
<1>4. (\A i \in DOMAIN cards : Carried(cards[i]))'
  <2>1. ASSUME NEW i \in DOMAIN cards' PROVE Carried(cards'[i])
    <3>1. CASE i \in DOMAIN cards
      BY <3>1 DEF YesInv, Carried, SameYes
    <3>2. CASE i \notin DOMAIN cards
      BY <3>2 DEF Carried
    <3> QED  BY <3>1, <3>2
  <2> QED  BY <2>1
<1> QED
  BY <1>1, <1>2, <1>3, <1>4 DEF YesInv

\* Withdrawing the open cards touches no yes.
LEMMA WithdrawnSame ==
    ASSUME NEW cs \in Seq(CardType), NEW S
    PROVE  /\ DOMAIN Withdrawn(cs, S) = DOMAIN cs
           /\ \A i \in DOMAIN cs : SameYes(cs[i], Withdrawn(cs, S)[i])
<1>1. ASSUME NEW i \in DOMAIN cs PROVE SameYes(cs[i], Withdrawn(cs, S)[i])
  <2>1. cs[i] \in CardType
    OBVIOUS
  <2>2. Withdrawn(cs, S)[i] = IF i \in S /\ cs[i].status = "open"
                              THEN [cs[i] EXCEPT !.status = "withdrawn"] ELSE cs[i]
    BY DEF Withdrawn
  <2> QED  BY <2>1, <2>2 DEF SameYes, Approved, CardType
<1> QED
  BY <1>1 DEF Withdrawn

\* Nor does a card that stays as it is.
LEMMA UnchangedSame ==
    ASSUME UNCHANGED cards
    PROVE  \A i \in DOMAIN cards : i \in DOMAIN cards' /\ SameYes(cards[i], cards'[i])
  BY DEF SameYes

\* A run that ended holds nothing, and the others hold what they held.
LEMMA LeaveHold ==
    ASSUME TypeInv, NEW w \in Workers, Leave(w)
    PROVE  \A v \in Workers : SameHold(v)
  BY DEF TypeInv, TypeOK, Leave, NoCall, SameHold, HasYes, HoldsYes

\* Nor does one that goes on to anything that needs no yes.
LEMMA EnterHold ==
    ASSUME TypeInv, NEW w \in Workers, NEW p \in Unfinished \ HasYes, Enter(w, p)
    PROVE  \A v \in Workers : SameHold(v)
  BY DEF TypeInv, TypeOK, CallType, Enter, SameHold, HasYes, HoldsYes

\* Every step of a worker keeps the yeses in order.
LEMMA YesWork ==
    ASSUME TypeInv, TypeInv', YesInv, NEW w \in Workers, Work(w)
    PROVE  YesInv'
<1>1. CASE /\ UNCHANGED cards
           /\ Leave(w) \/ \E p \in Unfinished \ HasYes : Enter(w, p)
  BY <1>1, Calm, UnchangedSame, LeaveHold, EnterHold
<1>2. CASE Confirm(w)
  BY <1>1, <1>2 DEF Confirm, Unfinished, HasYes
<1>3. CASE ClaimStep(w)
  <2>1. \A v \in Workers : SameHold(v)
    <3>1. CASE Enter(w, "answered")
      BY <3>1, EnterHold DEF Unfinished, HasYes
    <3>2. CASE call' = [call EXCEPT ![w].phase = "gate", ![w].attempt = step[call[w].of].attempt + 1]
      BY <3>2 DEF TypeInv, TypeOK, CallType, SameHold, HasYes, HoldsYes
    <3> QED  BY <1>3, <3>1, <3>2 DEF ClaimStep
  <2> QED  BY <1>3, <2>1, Calm, UnchangedSame DEF ClaimStep
<1>4. CASE FindGrantedApproval(w)
  <2>1. CASE Enter(w, "ask")
    BY <1>1, <1>4, <2>1 DEF FindGrantedApproval, Unfinished, HasYes
  <2>2. CASE \E i \in Yeses(call[w].of) : call' = [call EXCEPT ![w].phase = "yes", ![w].yes = i]
    <3>1. PICK i \in Yeses(call[w].of) : call' = [call EXCEPT ![w].phase = "yes", ![w].yes = i]
      BY <2>2
    <3>2. /\ call'[w].phase = "yes" /\ call'[w].yes = i /\ call'[w].of = call[w].of
          /\ \A v \in Workers \ {w} : call'[v] = call[v]
          /\ UNCHANGED cards
      BY <1>4, <3>1 DEF FindGrantedApproval, TypeInv, TypeOK, CallType
    <3>3. i \in DOMAIN cards /\ Approved(cards[i]) /\ cards[i].of = call[w].of
      BY DEF Yeses
    <3>4. YesIsForIt'
      BY <3>2, <3>3 DEF YesInv, YesIsForIt
    <3>5. YesIsHeld' /\ HeldByOne'
      BY <3>2 DEF YesInv, YesIsHeld, HeldByOne, HoldsYes
    <3> QED  BY <3>2, <3>4, <3>5 DEF YesInv
  <2> QED  BY <1>4, <2>1, <2>2 DEF FindGrantedApproval
<1>5. CASE SpendApproval(w)
  <2>1. CASE Enter(w, "ask") /\ UNCHANGED cards
    BY <1>1, <2>1 DEF Unfinished, HasYes
  <2>2. CASE ~cards[call[w].yes].used /\ cards' = [cards EXCEPT ![call[w].yes].used = TRUE] /\ Enter(w, "acting")
    <3> DEFINE i == call[w].yes
    <3>1. i \in DOMAIN cards /\ Approved(cards[i]) /\ cards[i].of = call[w].of /\ cards[i] \in CardType
      BY <1>5 DEF SpendApproval, At, YesInv, YesIsForIt, HasYes, TypeInv, TypeOK
    <3>2. /\ DOMAIN cards' = DOMAIN cards
          /\ \A j \in DOMAIN cards \ {i} : cards'[j] = cards[j]
          /\ cards'[i] = [cards[i] EXCEPT !.used = TRUE]
      BY <2>2, <3>1
    <3>3. /\ cards'[i].of = cards[i].of /\ cards'[i].did = cards[i].did
          /\ cards'[i].unclear = cards[i].unclear /\ cards'[i].used
          /\ Approved(cards'[i])
      BY <3>1, <3>2 DEF CardType, Approved
    <3>4. /\ call'[w].phase = "acting" /\ call'[w].yes = i /\ call'[w].of = call[w].of
          /\ \A v \in Workers \ {w} : call'[v] = call[v]
      BY <2>2 DEF Enter, TypeInv, TypeOK, CallType
    <3>5. \A v \in Workers : call[v].phase \in HoldsYes => call[v].yes # i
      BY <2>2 DEF YesInv, YesIsHeld
    <3>11. ~cards[i].used
      BY <2>2
    <3> HIDE DEF i
    <3>6. YesIsForIt'
      <4>1. ASSUME NEW v \in Workers, call'[v].phase \in HasYes
            PROVE  /\ call'[v].yes \in DOMAIN cards'
                   /\ Approved(cards'[call'[v].yes])
                   /\ cards'[call'[v].yes].of = call'[v].of
        <5>1. CASE v = w
          BY <3>1, <3>2, <3>3, <3>4, <5>1
        <5>2. CASE v # w
          <6>1. call'[v] = call[v]
            BY <3>4, <5>2
          <6>2. /\ call[v].yes \in DOMAIN cards /\ Approved(cards[call[v].yes])
                /\ cards[call[v].yes].of = call[v].of
            BY <4>1, <6>1 DEF YesInv, YesIsForIt
          <6> DEFINE j == call[v].yes
          <6>3. j \in DOMAIN cards' /\ Approved(cards'[j]) /\ cards'[j].of = cards[j].of
            <7>1. j \in DOMAIN cards'
              BY <3>2, <6>2
            <7>2. CASE j = i
              BY <3>3, <7>1, <7>2
            <7>3. CASE j # i
              BY <3>2, <6>2, <7>1, <7>3
            <7> QED  BY <7>2, <7>3
          <6>4. cards'[j].of = call[v].of
            BY <6>2, <6>3
          <6> QED  BY <6>1, <6>3, <6>4
        <5> QED  BY <5>1, <5>2
      <4> QED  BY <4>1 DEF YesIsForIt
    <3>7. Len(cards[i].did) <= cards[i].unclear
      BY <3>1, <3>11 DEF YesInv, Carried
    <3>8. YesIsHeld'
      <4>1. ASSUME NEW v \in Workers, call'[v].phase \in HoldsYes
            PROVE  /\ cards'[call'[v].yes].used
                   /\ Len(cards'[call'[v].yes].did) <= cards'[call'[v].yes].unclear
        <5>1. CASE v = w
          BY <3>3, <3>4, <3>7, <5>1
        <5>2. CASE v # w
          BY <3>2, <3>4, <3>5, <4>1, <5>2 DEF YesInv, YesIsHeld, YesIsForIt, HoldsYes, HasYes
        <5> QED  BY <5>1, <5>2
      <4> QED  BY <4>1 DEF YesIsHeld
    <3>9. HeldByOne'
      BY <3>4, <3>5 DEF YesInv, HeldByOne, HoldsYes
    <3>10. (\A j \in DOMAIN cards : Carried(cards[j]))'
      <4>1. ASSUME NEW j \in DOMAIN cards' PROVE Carried(cards'[j])
        <5>1. CASE j = i
          BY <3>1, <3>3, <5>1 DEF YesInv, Carried
        <5>2. CASE j # i
          BY <3>2, <5>2 DEF YesInv
        <5> QED  BY <5>1, <5>2
      <4> QED  BY <4>1
    <3> QED  BY <3>6, <3>8, <3>9, <3>10 DEF YesInv
  <2> QED  BY <1>5, <2>1, <2>2 DEF SpendApproval
<1>6. CASE AskOwner(w)
  <2>1. \A v \in Workers : SameHold(v)
    BY <1>6 DEF AskOwner, TypeInv, TypeOK, CallType, SameHold, HasYes, HoldsYes
  <2> QED  BY <1>6, <2>1, Calm, UnchangedSame DEF AskOwner
<1>7. CASE RequestApproval(w)
  <2>1. \A v \in Workers : SameHold(v)
    BY <1>7, EnterHold DEF RequestApproval, Unfinished, HasYes
  <2> DEFINE same == {i \in Open : cards[i].of = call[w].of}
  <2>2. CASE cards' = [i \in DOMAIN cards |->
                         IF i \in same THEN [cards[i] EXCEPT !.decision = "none"] ELSE cards[i]]
    <3>1. ASSUME NEW i \in DOMAIN cards PROVE SameYes(cards[i], cards'[i])
      <4>1. cards[i] \in CardType
        BY DEF TypeInv, TypeOK
      <4>2. i \in same => cards[i].status = "open"
        BY DEF Open
      <4>3. cards'[i] = IF i \in same THEN [cards[i] EXCEPT !.decision = "none"] ELSE cards[i]
        BY <2>2
      <4> QED  BY <4>1, <4>2, <4>3 DEF SameYes, Approved, CardType
    <3> QED  BY <2>1, <2>2, <3>1, Calm
  <2>3. ASSUME NEW S, cards' = Append(Withdrawn(cards, S), Card(w))
        PROVE  YesInv'
    <3>1. cards \in Seq(CardType) /\ Withdrawn(cards, S) \in Seq(CardType)
          /\ Len(Withdrawn(cards, S)) = Len(cards)
      BY WithdrawnType DEF TypeInv, TypeOK
    <3>2. \A i \in DOMAIN cards : i \in DOMAIN cards' /\ cards'[i] = Withdrawn(cards, S)[i]
      BY <2>3, <3>1
    <3>3. \A i \in DOMAIN cards' : i \notin DOMAIN cards => cards'[i] = Card(w)
      BY <2>3, <3>1
    <3>4. Card(w).did = <<>> /\ Card(w).unclear = 0
      BY DEF Card
    <3> QED  BY <2>1, <3>1, <3>2, <3>3, <3>4, WithdrawnSame, Calm
  <2>4. CASE UNCHANGED cards
    BY <2>1, <2>4, Calm, UnchangedSame
  <2> QED  BY <1>7, <2>2, <2>3, <2>4 DEF RequestApproval
<1>8. CASE Refuse(w)
  <2>1. \A v \in Workers : SameHold(v)
    BY <1>8 DEF Refuse, At, Enter, TypeInv, TypeOK, CallType, SameHold, HasYes, HoldsYes
  <2> QED  BY <1>8, <2>1, Calm, UnchangedSame DEF Refuse
<1>9. CASE ConfirmCommit(w) \/ Commit(w) \/ Park(w)
  BY <1>1, <1>9 DEF ConfirmCommit, Commit, Park, Unfinished, HasYes
<1>10. CASE Unverified(w) \/ Answer(w) \/ Fail(w)
  <2>1. \A v \in Workers : SameHold(v)
    BY <1>10, LeaveHold, EnterHold DEF Unverified, Answer, Fail, Unfinished, HasYes
  <2>2. UNCHANGED cards \/ cards' = Withdrawn(cards, DOMAIN cards)
    BY <1>10 DEF Unverified, Answer, Fail, Charged, End, EndWith, task
  <2>3. /\ DOMAIN cards' = DOMAIN cards
        /\ \A i \in DOMAIN cards : SameYes(cards[i], cards'[i])
    BY <2>2, WithdrawnSame, UnchangedSame DEF TypeInv, TypeOK
  <2> QED  BY <2>1, <2>3, Calm
<1>11. CASE ReturnApproval(w)
  <2> DEFINE i == call[w].yes
  <2>1. /\ i \in DOMAIN cards /\ Approved(cards[i]) /\ cards[i] \in CardType
        /\ Len(cards[i].did) <= cards[i].unclear
        /\ \A v \in Workers \ {w} : call[v].phase \in HoldsYes => call[v].yes # i
    BY <1>11 DEF ReturnApproval, At, YesInv, YesIsForIt, YesIsHeld, HeldByOne, HasYes, HoldsYes, TypeInv, TypeOK
  <2>2. /\ DOMAIN cards' = DOMAIN cards
        /\ \A j \in DOMAIN cards \ {i} : cards'[j] = cards[j]
        /\ cards'[i] = [cards[i] EXCEPT !.used = FALSE]
    BY <1>11, <2>1 DEF ReturnApproval
  <2>3. /\ cards'[i].of = cards[i].of /\ cards'[i].did = cards[i].did
        /\ cards'[i].unclear = cards[i].unclear /\ Approved(cards'[i])
    BY <2>1, <2>2 DEF CardType, Approved
  <2>4. /\ call'[w].phase = "failing"
        /\ \A v \in Workers \ {w} : call'[v] = call[v]
    BY <1>11 DEF ReturnApproval, Enter, TypeInv, TypeOK, CallType
  <2> HIDE DEF i
  <2>5. ASSUME NEW v \in Workers, call'[v].phase \in HasYes
        PROVE  /\ call'[v].yes \in DOMAIN cards' /\ Approved(cards'[call'[v].yes])
               /\ cards'[call'[v].yes].of = call'[v].of
    <3>1. v # w /\ call'[v] = call[v]
      BY <2>4, <2>5 DEF HasYes
    <3>2. /\ call[v].yes \in DOMAIN cards /\ Approved(cards[call[v].yes])
          /\ cards[call[v].yes].of = call[v].of
      BY <2>5, <3>1 DEF YesInv, YesIsForIt
    <3> QED  BY <2>2, <2>3, <3>1, <3>2
  <2>6. ASSUME NEW v \in Workers, call'[v].phase \in HoldsYes
        PROVE  /\ cards'[call'[v].yes].used
               /\ Len(cards'[call'[v].yes].did) <= cards'[call'[v].yes].unclear
    <3>1. v # w /\ call'[v] = call[v]
      BY <2>4, <2>6 DEF HoldsYes
    <3> QED  BY <2>1, <2>2, <2>6, <3>1 DEF YesInv, YesIsForIt, YesIsHeld, HasYes, HoldsYes
  <2>7. HeldByOne'
    BY <2>4 DEF YesInv, HeldByOne, HoldsYes
  <2>8. ASSUME NEW j \in DOMAIN cards' PROVE Carried(cards'[j])
    <3>1. CASE j = i
      BY <2>1, <2>3, <3>1 DEF YesInv, Carried
    <3>2. CASE j # i
      BY <2>2, <3>2 DEF YesInv
    <3> QED  BY <3>1, <3>2
  <2> QED  BY <2>5, <2>6, <2>7, <2>8 DEF YesInv, YesIsForIt, YesIsHeld
<1>12. CASE Act(w)
  <2> DEFINE i == call[w].yes
  <2>1. /\ i \in DOMAIN cards /\ Approved(cards[i]) /\ cards[i] \in CardType
        /\ cards[i].of = call[w].of /\ cards[i].used
        /\ Len(cards[i].did) <= cards[i].unclear
        /\ \A v \in Workers \ {w} : call[v].phase \in HoldsYes => call[v].yes # i
    BY <1>12 DEF Act, At, YesInv, YesIsForIt, YesIsHeld, HeldByOne, HasYes, HoldsYes, TypeInv, TypeOK
  <2>2. PICK fails \in BOOLEAN :
          /\ cards' = [cards EXCEPT ![i].did = Append(@, call[w].of),
                                    ![i].unclear = IF fails THEN @ + 1 ELSE @]
          /\ Enter(w, IF fails THEN "returning" ELSE "acted")
    BY <1>12 DEF Act
  <2>3. /\ DOMAIN cards' = DOMAIN cards
        /\ \A j \in DOMAIN cards \ {i} : cards'[j] = cards[j]
        /\ cards'[i] = [cards[i] EXCEPT !.did = Append(cards[i].did, call[w].of),
                                       !.unclear = IF fails THEN cards[i].unclear + 1 ELSE cards[i].unclear]
    BY <2>1, <2>2
  <2>4. /\ cards'[i].of = cards[i].of /\ cards'[i].did = Append(cards[i].did, cards[i].of)
        /\ cards'[i].unclear = (IF fails THEN cards[i].unclear + 1 ELSE cards[i].unclear)
        /\ cards'[i].used /\ Approved(cards'[i])
    BY <2>1, <2>3 DEF CardType, Approved
  <2>5. /\ call'[w].phase = IF fails THEN "returning" ELSE "acted"
        /\ call'[w].yes = i /\ call'[w].of = call[w].of
        /\ \A v \in Workers \ {w} : call'[v] = call[v]
    BY <2>2 DEF Enter, TypeInv, TypeOK, CallType
  <2>6. /\ cards[i].did \in Seq(Proposals) /\ cards[i].unclear \in Nat
        /\ Len(cards'[i].did) = Len(cards[i].did) + 1 /\ Len(cards[i].did) \in Nat
    BY <2>1, <2>4 DEF CardType
  <2> HIDE DEF i
  <2>7. ASSUME NEW v \in Workers, call'[v].phase \in HasYes
        PROVE  /\ call'[v].yes \in DOMAIN cards' /\ Approved(cards'[call'[v].yes])
               /\ cards'[call'[v].yes].of = call'[v].of
    <3>1. CASE v = w
      BY <2>1, <2>3, <2>4, <2>5, <3>1
    <3>2. CASE v # w
      <4>1. call'[v] = call[v]
        BY <2>5, <3>2
      <4>2. /\ call[v].yes \in DOMAIN cards /\ Approved(cards[call[v].yes])
            /\ cards[call[v].yes].of = call[v].of
        BY <2>7, <4>1 DEF YesInv, YesIsForIt
      <4>3. CASE call[v].yes = i
        <5>1. Approved(cards'[i]) /\ cards'[i].of = cards[i].of /\ i \in DOMAIN cards'
          BY <2>1, <2>3, <2>4
        <5> QED  BY <4>1, <4>2, <4>3, <5>1
      <4>4. CASE call[v].yes # i
        <5>1. cards'[call[v].yes] = cards[call[v].yes] /\ call[v].yes \in DOMAIN cards'
          BY <2>3, <4>2, <4>4
        <5> QED  BY <4>1, <4>2, <5>1
      <4> QED  BY <4>3, <4>4
    <3> QED  BY <3>1, <3>2
  <2>8. ASSUME NEW v \in Workers, call'[v].phase \in HoldsYes
        PROVE  /\ cards'[call'[v].yes].used
               /\ Len(cards'[call'[v].yes].did) <= cards'[call'[v].yes].unclear
    <3>1. CASE v = w
      <4>1. fails
        BY <2>5, <2>8, <3>1 DEF HoldsYes
      <4>2. cards'[i].unclear = cards[i].unclear + 1
        BY <2>4, <4>1
      <4>3. Len(cards'[i].did) <= cards'[i].unclear
        BY <2>1, <2>6, <4>2
      <4> QED  BY <2>4, <2>5, <3>1, <4>3
    <3>2. CASE v # w
      <4>1. call'[v] = call[v]
        BY <2>5, <3>2
      <4>2. /\ call[v].yes \in DOMAIN cards /\ cards[call[v].yes].used
            /\ Len(cards[call[v].yes].did) <= cards[call[v].yes].unclear
        BY <2>8, <4>1 DEF YesInv, YesIsForIt, YesIsHeld, HasYes, HoldsYes
      <4>3. call[v].yes # i
        BY <2>1, <2>8, <3>2, <4>1
      <4>4. cards'[call[v].yes] = cards[call[v].yes]
        BY <2>3, <4>2, <4>3
      <4> QED  BY <4>1, <4>2, <4>4
    <3> QED  BY <3>1, <3>2
  <2>9. HeldByOne'
    BY <2>1, <2>5 DEF YesInv, HeldByOne, HoldsYes
  <2>10. Carried(cards'[i])
    <3>1. \A n \in DOMAIN cards[i].did : cards[i].did[n] = cards[i].of
      BY <2>1 DEF YesInv, Carried
    <3>2. \A n \in DOMAIN cards'[i].did : cards'[i].did[n] = cards[i].of
      BY <2>4, <2>6, <3>1
    <3>3. Len(cards'[i].did) <= cards'[i].unclear + 1
      BY <2>1, <2>4, <2>6
    <3> QED  BY <2>4, <3>2, <3>3 DEF Carried
  <2>11. ASSUME NEW j \in DOMAIN cards' PROVE Carried(cards'[j])
    BY <2>3, <2>10 DEF YesInv
  <2> QED  BY <2>7, <2>8, <2>9, <2>11 DEF YesInv, YesIsForIt, YesIsHeld
<1> QED
  BY <1>2, <1>3, <1>4, <1>5, <1>6, <1>7, <1>8, <1>9, <1>10, <1>11, <1>12 DEF Work

\* And so does everything else.
LEMMA YesStep ==
    ASSUME TypeInv, TypeInv', YesInv, [Next]_vars
    PROVE  YesInv'
<1>1. ASSUME NEW w \in Workers, Work(w) PROVE YesInv'
  BY <1>1, YesWork
<1>2. ASSUME NEW w \in Workers, Begin(w) PROVE YesInv'
  <2>1. \A v \in Workers : SameHold(v)
    BY <1>2 DEF Begin, TypeInv, TypeOK, CallType, SameHold, HasYes
  <2> QED  BY <1>2, <2>1, Calm, UnchangedSame DEF Begin
<1>3. ASSUME NEW w \in Workers, Crash(w) PROVE YesInv'
  <2>1. \A v \in Workers : SameHold(v)
    BY <1>3 DEF Crash, TypeInv, TypeOK, NoCall, SameHold, HasYes, HoldsYes
  <2> QED  BY <1>3, <2>1, Calm, UnchangedSame DEF Crash
<1>4. ASSUME NEW w \in Workers, Restart(w) PROVE YesInv'
  BY <1>4, Calm, UnchangedSame, LeaveHold DEF Restart
<1>5. CASE UNCHANGED <<cards, call>>
  <2>1. \A v \in Workers : SameHold(v)
    BY <1>5 DEF SameHold
  <2> QED  BY <1>5, <2>1, Calm, UnchangedSame
<1>6. CASE StopEverything
  <2>1. \A v \in Workers : SameHold(v)
    BY <1>6 DEF StopEverything, SameHold
  <2>2. cards' = Withdrawn(cards, DOMAIN cards)
    BY <1>6 DEF StopEverything, End, EndWith
  <2> QED  BY <2>1, <2>2, Calm, WithdrawnSame DEF TypeInv, TypeOK
<1>7. ASSUME NEW i \in DOMAIN cards, Approve(i) \/ Deny(i) \/ Ask(i) \/ Expire(i) PROVE YesInv'
  <2>1. \A v \in Workers : SameHold(v)
    BY <1>7 DEF Approve, Deny, Ask, Expire, SameHold
  <2>2. cards[i].status = "open" /\ cards[i] \in CardType /\ cards \in Seq(CardType)
    BY <1>7 DEF Approve, Deny, Ask, Expire, Open, TypeInv, TypeOK
  <2>0. PICK st \in {"open", "decided", "expired"}, d \in {"none", "approve", "deny", "ask"} : \E cs :
              /\ cs = [cards EXCEPT ![i] = [cards[i] EXCEPT !.status = st, !.decision = d]]
              /\ cards' = cs \/ cards' = Withdrawn(cs, DOMAIN cs)
    BY <1>7, AnswerCards
  <2>3. PICK cs :
              /\ cs = [cards EXCEPT ![i] = [cards[i] EXCEPT !.status = st, !.decision = d]]
              /\ cards' = cs \/ cards' = Withdrawn(cs, DOMAIN cs)
    BY <2>0
  <2>4. /\ [cards[i] EXCEPT !.status = st, !.decision = d] \in CardType
        /\ SameYes(cards[i], [cards[i] EXCEPT !.status = st, !.decision = d])
    BY <2>2 DEF SameYes, Approved, CardType
  <2>5. cs \in Seq(CardType) /\ DOMAIN cs = DOMAIN cards
    BY <2>2, <2>3, <2>4, CardChange
  <2>6. \A j \in DOMAIN cards : SameYes(cards[j], cs[j])
    <3>1. \A j \in DOMAIN cards \ {i} : cs[j] = cards[j]
      BY <2>2, <2>3
    <3>2. cs[i] = [cards[i] EXCEPT !.status = st, !.decision = d]
      BY <2>2, <2>3
    <3> QED  BY <2>4, <3>1, <3>2 DEF SameYes
  <2>7. DOMAIN cards' = DOMAIN cards /\ \A j \in DOMAIN cards : SameYes(cs[j], cards'[j])
    <3>1. CASE cards' = cs
      BY <2>5, <3>1 DEF SameYes
    <3>2. CASE cards' = Withdrawn(cs, DOMAIN cs)
      BY <2>5, <3>2, WithdrawnSame
    <3> QED  BY <2>3, <3>1, <3>2
  <2>8. \A j \in DOMAIN cards : SameYes(cards[j], cards'[j])
    BY <2>6, <2>7 DEF SameYes
  <2> QED  BY <2>1, <2>7, <2>8, Calm
<1> QED
  BY <1>1, <1>2, <1>3, <1>4, <1>5, <1>6, <1>7
     DEF Next, Owner, LeaseRunsOut, LeaseIsLost, vars

\* The yeses are in order at all times.
LEMMA YesesInOrder == Spec => [](TypeInv /\ YesInv)
<1>1. Init => YesInv
  BY DEF Init, NoCall, YesInv, YesIsForIt, YesIsHeld, HeldByOne, HasYes, HoldsYes
<1> QED
  BY <1>1, YesStep, Types, PTL DEF Spec

\* The vendor does what the owner said yes to and nothing else, once for each
\* yes: inbox.ts's "one yes carries one attempt".
THEOREM OneYesCarriesOneAct == Spec => []OneYesOneAct
<1>1. TypeInv /\ YesInv => OneYesOneAct
  <2>1. ASSUME TypeInv, YesInv, NEW i \in DOMAIN cards
        PROVE  /\ Len(cards[i].did) <= (IF Approved(cards[i]) THEN 1 ELSE 0) + cards[i].unclear
               /\ \A n \in DOMAIN cards[i].did : cards[i].did[n] = cards[i].of
    <3>1. cards[i] \in CardType
      BY <2>1 DEF TypeInv, TypeOK
    <3>2. Carried(cards[i]) /\ cards[i].unclear \in Nat /\ cards[i].did \in Seq(Proposals)
      BY <2>1, <3>1 DEF YesInv, CardType
    <3> QED  BY <3>2 DEF Carried
  <2> QED  BY <2>1 DEF OneYesOneAct
<1> QED
  BY <1>1, YesesInOrder, PTL

\* Cards, steps and runs are what their tables and the journal take.
THEOREM CardsAreTyped == Spec => []TypeOK
<1>1. TypeInv => TypeOK
  BY DEF TypeInv
<1> QED BY <1>1, Types, PTL

-----------------------------------------------------------------------------
(* Claims of a step.                                                       *)

\* A run on its way to the vendor has claimed its step, no two at one attempt,
\* and none at the attempt that was committed.
ClaimInv ==
    /\ \A w \in Workers : call[w].phase \in ToVendor =>
          call[w].attempt <= step[call[w].of].attempt
    /\ \A w, v \in Workers :
          w # v /\ call[w].phase \in ToVendor /\ call[v].phase \in ToVendor
             /\ call[v].of = call[w].of => call[v].attempt # call[w].attempt
    /\ CommittedIsLast

\* A run's claim is as it was, or given up.
SameClaim(w) ==
    call'[w].phase \in ToVendor =>
        /\ call[w].phase \in ToVendor
        /\ call'[w].attempt = call[w].attempt /\ call'[w].of = call[w].of

\* Steps that are not claimed again nor committed.
SameSteps ==
    \A p \in Proposals :
        /\ step'[p].attempt = step[p].attempt
        /\ step'[p].status = "committed" => step[p].status = "committed"

\* A step of the system that claims and commits nothing keeps claims in order.
LEMMA ClaimCalm ==
    ASSUME TypeInv, ClaimInv, SameSteps, \A w \in Workers : SameClaim(w)
    PROVE  ClaimInv'
<1>1. \A w \in Workers : call'[w].phase \in ToVendor => call[w].of \in Proposals
  BY DEF SameClaim, TypeInv, UnderWay, ToVendor, Unfinished
<1> QED
  BY <1>1 DEF ClaimInv, CommittedIsLast, SameClaim, SameSteps

\* A run that ended has no claim.
LEMMA LeaveClaim ==
    ASSUME TypeInv, NEW w \in Workers, Leave(w)
    PROVE  \A v \in Workers : SameClaim(v)
  BY DEF TypeInv, TypeOK, Leave, NoCall, SameClaim, ToVendor

\* One that goes on keeps it.
LEMMA EnterClaim ==
    ASSUME TypeInv, NEW w \in Workers, NEW p \in Unfinished, Enter(w, p),
           p \in ToVendor => call[w].phase \in ToVendor
    PROVE  \A v \in Workers : SameClaim(v)
  BY DEF TypeInv, TypeOK, CallType, Enter, SameClaim

\* A step marked failed is not committed by that.
LEMMA MarkFailedSteps ==
    ASSUME TypeInv, NEW w \in Workers, MarkFailed(w)
    PROVE  SameSteps
  BY DEF TypeInv, TypeOK, StepType, MarkFailed, SameSteps

LEMMA SameStepsKept ==
    ASSUME UNCHANGED step
    PROVE  SameSteps
  BY DEF SameSteps

\* Every step of a worker keeps the claims in order.
LEMMA ClaimWork ==
    ASSUME TypeInv, ClaimInv, NEW w \in Workers, Work(w)
    PROVE  ClaimInv'
<1>1. CASE Confirm(w)
  <2>1. \A v \in Workers : SameClaim(v)
    BY <1>1, LeaveClaim, EnterClaim DEF Confirm, Unfinished, ToVendor
  <2> QED  BY <1>1, <2>1, ClaimCalm, SameStepsKept DEF Confirm
<1>2. CASE ClaimStep(w)
  <2> DEFINE p == call[w].of
  <2>1. p \in Proposals /\ step[p] \in StepType
    BY <1>2 DEF ClaimStep, At, TypeInv, TypeOK, UnderWay, Unfinished
  <2>2. CASE step[p].status = "committed"
    <3>1. Enter(w, "answered") /\ UNCHANGED step
      BY <1>2, <2>2 DEF ClaimStep
    <3> QED  BY <3>1, EnterClaim, ClaimCalm, SameStepsKept DEF Unfinished, ToVendor
  <2>3. CASE step[p].status # "committed"
    <3>1. /\ step'[p].attempt = step[p].attempt + 1 /\ step'[p].status = "started"
          /\ \A q \in Proposals \ {p} : step'[q] = step[q]
      BY <1>2, <2>1, <2>3 DEF ClaimStep, TypeInv, TypeOK, StepType
    <3>2. /\ call'[w].phase = "gate" /\ call'[w].attempt = step[p].attempt + 1 /\ call'[w].of = p
          /\ \A v \in Workers \ {w} : call'[v] = call[v]
      BY <1>2, <2>3 DEF ClaimStep, TypeInv, TypeOK, CallType
    <3>3. step[p].attempt \in Nat /\ \A v \in Workers : call[v].attempt \in Nat
      BY <2>1 DEF StepType, TypeInv, TypeOK, CallType
    <3>4. \A v \in Workers : call[v].phase \in ToVendor => call[v].of \in Proposals
      BY DEF TypeInv, UnderWay, ToVendor, Unfinished
    <3> HIDE DEF p
    <3>5. \A v \in Workers : call'[v].phase \in ToVendor =>
             call'[v].attempt <= step'[call'[v].of].attempt
      <4>1. ASSUME NEW v \in Workers, call'[v].phase \in ToVendor
            PROVE  call'[v].attempt <= step'[call'[v].of].attempt
        <5>1. CASE v = w
          BY <3>1, <3>2, <3>3, <5>1
        <5>2. CASE v # w
          <6>1. call[v].attempt <= step[call[v].of].attempt /\ call'[v] = call[v]
            BY <3>2, <4>1, <5>2 DEF ClaimInv
          <6>2. CASE call[v].of = p
            BY <3>1, <3>3, <6>1, <6>2
          <6>3. CASE call[v].of # p
            BY <3>1, <3>4, <4>1, <6>1, <6>3
          <6> QED  BY <6>2, <6>3
        <5> QED  BY <5>1, <5>2
      <4> QED  BY <4>1
    <3>6. ASSUME NEW u \in Workers, NEW v \in Workers, u # v, call'[u].phase \in ToVendor,
                 call'[v].phase \in ToVendor, call'[v].of = call'[u].of
          PROVE  call'[v].attempt # call'[u].attempt
      <4>1. ASSUME NEW x \in Workers \ {w}, call[x].phase \in ToVendor, call[x].of = p
            PROVE  call[x].attempt < step[p].attempt + 1
        BY <3>3, <4>1 DEF ClaimInv
      <4>2. CASE u = w
        BY <3>2, <3>3, <3>6, <4>1, <4>2
      <4>3. CASE v = w
        BY <3>2, <3>3, <3>6, <4>1, <4>3
      <4>4. CASE u # w /\ v # w
        BY <3>2, <3>6, <4>4 DEF ClaimInv
      <4> QED  BY <4>2, <4>3, <4>4
    <3>7. ASSUME NEW v \in Workers, call'[v].phase \in ToVendor,
                 step'[call'[v].of].status = "committed"
          PROVE  call'[v].attempt < step'[call'[v].of].attempt
      <4>1. call'[v].of # p
        BY <3>1, <3>7
      <4>2. call'[v] = call[v] /\ step'[call[v].of] = step[call[v].of]
        BY <3>1, <3>2, <3>4, <3>7, <4>1
      <4> QED  BY <3>7, <4>2 DEF ClaimInv, CommittedIsLast
    <3> QED  BY <3>5, <3>6, <3>7 DEF ClaimInv, CommittedIsLast
  <2> QED  BY <2>2, <2>3
<1>3. CASE FindGrantedApproval(w)
  <2>1. \A v \in Workers : SameClaim(v)
    <3>1. call[w].phase \in ToVendor
      BY <1>3 DEF FindGrantedApproval, At, ToVendor
    <3>2. CASE Enter(w, "ask")
      BY <3>1, <3>2, EnterClaim DEF Unfinished
    <3>3. CASE \E i \in Yeses(call[w].of) : call' = [call EXCEPT ![w].phase = "yes", ![w].yes = i]
      <4>1. /\ call'[w].attempt = call[w].attempt /\ call'[w].of = call[w].of
            /\ \A v \in Workers \ {w} : call'[v] = call[v]
        BY <3>3 DEF TypeInv, TypeOK, CallType
      <4> QED  BY <3>1, <4>1 DEF SameClaim
    <3> QED  BY <1>3, <3>2, <3>3 DEF FindGrantedApproval
  <2> QED  BY <1>3, <2>1, ClaimCalm, SameStepsKept DEF FindGrantedApproval
<1>4. CASE SpendApproval(w) \/ Act(w) \/ Refuse(w) \/ ReturnApproval(w)
  <2>1. \E q \in Unfinished : Enter(w, q) /\ call[w].phase \in ToVendor
    BY <1>4 DEF SpendApproval, Act, Refuse, ReturnApproval, At, ToVendor, Unfinished
  <2>2. \A v \in Workers : SameClaim(v)
    BY <2>1, EnterClaim
  <2> QED  BY <1>4, <2>2, ClaimCalm, SameStepsKept DEF SpendApproval, Act, Refuse, ReturnApproval
<1>5. CASE AskOwner(w)
  <2>1. \A v \in Workers : SameClaim(v)
    BY <1>5 DEF AskOwner, At, SameClaim, ToVendor, TypeInv, TypeOK, CallType
  <2> QED  BY <1>5, <2>1, ClaimCalm, SameStepsKept DEF AskOwner
<1>6. CASE RequestApproval(w)
  <2>1. Enter(w, "parked") \/ Enter(w, "failing")
    BY <1>6 DEF RequestApproval
  <2>2. \A v \in Workers : SameClaim(v)
    BY <2>1, EnterClaim DEF Unfinished, ToVendor
  <2> QED  BY <1>6, <2>2, ClaimCalm, SameStepsKept DEF RequestApproval
<1>7. CASE ConfirmCommit(w)
  <2>1. CASE Enter(w, "committing") /\ UNCHANGED step
    BY <1>7, <2>1, EnterClaim, ClaimCalm, SameStepsKept DEF ConfirmCommit, At, Unfinished, ToVendor
  <2>2. CASE Leave(w) /\ MarkFailed(w)
    BY <2>2, LeaveClaim, MarkFailedSteps, ClaimCalm
  <2> QED  BY <1>7, <2>1, <2>2 DEF ConfirmCommit
<1>8. CASE Unverified(w) \/ Park(w) \/ Fail(w)
  <2>1. Leave(w) /\ MarkFailed(w)
    BY <1>8 DEF Unverified, Park, Fail
  <2> QED  BY <2>1, LeaveClaim, MarkFailedSteps, ClaimCalm
<1>9. CASE Commit(w)
  <2> DEFINE p == call[w].of
  <2>1. CASE Claimed(w)
    <3>1. /\ step'[p].attempt = step[p].attempt /\ step[p].attempt = call[w].attempt
          /\ \A q \in Proposals \ {p} : step'[q] = step[q]
          /\ p \in Proposals
      BY <1>9, <2>1 DEF Commit, Claimed, At, TypeInv, TypeOK, StepType, UnderWay, Unfinished
    <3>2. call[w].phase \in ToVendor /\ call'[w].phase \notin ToVendor
          /\ \A v \in Workers \ {w} : call'[v] = call[v]
      BY <1>9, <2>1 DEF Commit, Enter, At, ToVendor, TypeInv, TypeOK, CallType
    <3>3. \A v \in Workers : call[v].attempt \in Nat
      BY DEF TypeInv, TypeOK, CallType
    <3>4. \A v \in Workers : call[v].phase \in ToVendor => call[v].of \in Proposals
      BY DEF TypeInv, UnderWay, ToVendor, Unfinished
    <3> HIDE DEF p
    <3>5. ASSUME NEW v \in Workers, call'[v].phase \in ToVendor
          PROVE  /\ v # w /\ call'[v] = call[v]
                 /\ step'[call[v].of].attempt = step[call[v].of].attempt
                 /\ call[v].attempt <= step[call[v].of].attempt
                 /\ step'[call[v].of].status = "committed" =>
                       call[v].attempt < step[call[v].of].attempt
      <4>1. v # w /\ call'[v] = call[v] /\ call[v].attempt <= step[call[v].of].attempt
        BY <3>2, <3>5 DEF ClaimInv
      <4>2. CASE call[v].of = p
        <5>1. call[v].attempt # call[w].attempt
          BY <3>2, <3>5, <4>1, <4>2 DEF ClaimInv, p
        <5> QED  BY <3>1, <3>3, <4>1, <4>2, <5>1
      <4>3. CASE call[v].of # p
        <5>1. step'[call[v].of] = step[call[v].of]
          BY <3>1, <3>4, <3>5, <4>1, <4>3
        <5> QED  BY <3>5, <4>1, <5>1 DEF ClaimInv, CommittedIsLast
      <4> QED  BY <4>2, <4>3
    <3>6. \A u, v \in Workers :
             u # v /\ call'[u].phase \in ToVendor /\ call'[v].phase \in ToVendor
                /\ call'[v].of = call'[u].of => call'[v].attempt # call'[u].attempt
      BY <3>5 DEF ClaimInv
    <3> QED  BY <3>5, <3>6 DEF ClaimInv, CommittedIsLast
  <2>2. CASE UNCHANGED step /\ Enter(w, "failing")
    BY <2>2, EnterClaim, ClaimCalm, SameStepsKept DEF Unfinished, ToVendor
  <2> QED  BY <1>9, <2>1, <2>2 DEF Commit
<1>10. CASE Answer(w)
  <2>1. \A v \in Workers : SameClaim(v)
    BY <1>10, LeaveClaim, EnterClaim DEF Answer, Unfinished, ToVendor
  <2> QED  BY <1>10, <2>1, ClaimCalm, SameStepsKept DEF Answer
<1> QED
  BY <1>1, <1>2, <1>3, <1>4, <1>5, <1>6, <1>7, <1>8, <1>9, <1>10 DEF Work

\* So does every step of the system.
LEMMA ClaimKept ==
    ASSUME TypeInv, ClaimInv, [Next]_vars
    PROVE  ClaimInv'
<1>1. ASSUME NEW w \in Workers, Work(w) PROVE ClaimInv'
  BY <1>1, ClaimWork
<1>2. ASSUME NEW w \in Workers, Begin(w) \/ Crash(w) PROVE ClaimInv'
  <2>1. \A v \in Workers : SameClaim(v)
    <3>1. call'[w].phase \notin ToVendor /\ \A v \in Workers \ {w} : call'[v] = call[v]
      <4>1. CASE Begin(w)
        BY <4>1 DEF Begin, TypeInv, TypeOK, CallType, ToVendor
      <4>2. CASE Crash(w)
        BY <4>2 DEF Crash, NoCall, TypeInv, TypeOK, ToVendor
      <4> QED  BY <1>2, <4>1, <4>2
    <3> QED  BY <3>1 DEF SameClaim
  <2> QED  BY <1>2, <2>1, ClaimCalm, SameStepsKept DEF Begin, Crash
<1>3. ASSUME NEW w \in Workers, Restart(w) PROVE ClaimInv'
  BY <1>3, LeaveClaim, ClaimCalm, SameStepsKept DEF Restart
<1>4. CASE UNCHANGED <<step, call>>
  <2>1. \A v \in Workers : SameClaim(v)
    BY <1>4 DEF SameClaim
  <2> QED  BY <1>4, <2>1, ClaimCalm, SameStepsKept
<1> QED
  BY <1>1, <1>2, <1>3, <1>4
     DEF Next, Owner, LeaseRunsOut, LeaseIsLost, StopEverything, Approve, Deny, Ask, Expire, vars

\* A committed step is not on its way to the vendor a second time: whoever still
\* is claimed it before, and cannot commit it (journal.ts runStep, by attempt).
THEOREM CommitsAreLast == Spec => []CommittedIsLast
<1>1. Init => ClaimInv
  BY DEF Init, NoCall, ClaimInv, CommittedIsLast, ToVendor
<1>2. ClaimInv => CommittedIsLast
  BY DEF ClaimInv
<1> QED
  BY <1>1, <1>2, ClaimKept, Types, PTL DEF Spec

-----------------------------------------------------------------------------
(* Waiting for the owner.                                                  *)

\* What opens no card and is about none keeps that, if it makes the task
\* neither wait nor end with cards open.
LEMMA WaitCalm ==
    ASSUME WaitsOnACard, Open' \subseteq Open, \A j \in Open' : cards'[j].of = cards[j].of,
           status' = "waiting_approval" =>
              /\ status = "waiting_approval"
              /\ \A j \in Open : cards[j].decision = "none" => j \in Open' /\ cards'[j].decision = "none",
           status' \in Terminal => status \in Terminal \/ Open' = {}
    PROVE  WaitsOnACard'
  BY DEF WaitsOnACard

\* Cards with the answers they had.
SameAnswers ==
    /\ DOMAIN cards' = DOMAIN cards
    /\ \A j \in DOMAIN cards :
          /\ cards'[j].status = cards[j].status /\ cards'[j].of = cards[j].of
          /\ cards'[j].decision = cards[j].decision

LEMMA WaitSame ==
    ASSUME WaitsOnACard, SameAnswers,
           status' = "waiting_approval" => status = "waiting_approval",
           status' \in Terminal => status \in Terminal
    PROVE  WaitsOnACard'
  BY WaitCalm DEF SameAnswers, Open

LEMMA WaitSameCards ==
    ASSUME WaitsOnACard, UNCHANGED cards,
           status' = "waiting_approval" => status = "waiting_approval",
           status' \in Terminal => status \in Terminal
    PROVE  WaitsOnACard'
  BY WaitSame DEF SameAnswers

\* A use of a card, or an act, is no answer.
LEMMA UseIsNoAnswer ==
    ASSUME TypeInv, NEW i,
           \/ \E u : cards' = [cards EXCEPT ![i].used = u]
           \/ \E d, n : cards' = [cards EXCEPT ![i].did = d, ![i].unclear = n]
    PROVE  SameAnswers
<1>0. \A j \in DOMAIN cards : cards[j] \in CardType
  BY DEF TypeInv, TypeOK
<1>1. i \in DOMAIN cards => cards[i] \in CardType
  BY <1>0
<1>2. CASE \E u : cards' = [cards EXCEPT ![i].used = u]
  <2>1. PICK u : cards' = [cards EXCEPT ![i] = [cards[i] EXCEPT !.used = u]]
    BY <1>2
  <2> QED  BY <1>1, <2>1 DEF SameAnswers, CardType, TypeInv, TypeOK
<1>3. CASE \E d, n : cards' = [cards EXCEPT ![i].did = d, ![i].unclear = n]
  <2>1. PICK d, n : cards' = [cards EXCEPT ![i] = [cards[i] EXCEPT !.did = d, !.unclear = n]]
    BY <1>3
  <2> QED  BY <1>1, <2>1 DEF SameAnswers, CardType, TypeInv, TypeOK
<1> QED  BY <1>2, <1>3

\* Withdrawing closes these cards, and is otherwise nothing.
LEMMA OpenAfterWithdrawn ==
    ASSUME NEW cs \in Seq(CardType), NEW S
    PROVE  /\ DOMAIN Withdrawn(cs, S) = DOMAIN cs
           /\ \A i \in DOMAIN cs :
                /\ Withdrawn(cs, S)[i].of = cs[i].of
                /\ Withdrawn(cs, S)[i].status = "open" => cs[i].status = "open" /\ i \notin S
<1>1. \A i \in DOMAIN cs : cs[i] \in CardType
  OBVIOUS
<1> QED  BY <1>1 DEF Withdrawn, CardType

\* A task that ends leaves no card open.
LEMMA WaitEnd ==
    ASSUME NEW cs \in Seq(CardType), NEW to \in Terminal, EndWith(to, cs)
    PROVE  WaitsOnACard'
<1>1. Open' = {}
  BY OpenAfterWithdrawn DEF EndWith, Open
<1> QED  BY <1>1 DEF EndWith, WaitsOnACard, Terminal

\* Asking leaves the card that is open, or makes way for one and opens it.
LEMMA WaitAsked ==
    ASSUME TypeInv, WaitsOnACard, NEW w \in Workers, RequestApproval(w)
    PROVE  WaitsOnACard'
<1> DEFINE same  == {i \in Open : cards[i].of = call[w].of}
           other == {i \in Open : CapabilityOf[cards[i].of] = CapabilityOf[call[w].of]}
<1>0. cards \in Seq(CardType) /\ \A j \in DOMAIN cards : cards[j] \in CardType
  BY DEF TypeInv, TypeOK
<1>1. CASE same # {}
  <2>1. cards' = [j \in DOMAIN cards |->
                    IF j \in same THEN [cards[j] EXCEPT !.decision = "none"] ELSE cards[j]]
    BY <1>1 DEF RequestApproval
  <2>2. status \notin Terminal
    BY <1>1 DEF WaitsOnACard
  <2>3. status' \in {"waiting_approval", status}
    BY <1>1 DEF RequestApproval
  <2>4. PICK i \in Open : i \in same
    BY <1>1
  <2> HIDE DEF same
  <2>5. /\ DOMAIN cards' = DOMAIN cards
        /\ \A j \in DOMAIN cards : cards'[j].status = cards[j].status /\ cards'[j].of = cards[j].of
    BY <1>0, <2>1 DEF CardType
  <2>6. i \in DOMAIN cards /\ cards'[i].decision = "none"
    BY <1>0, <2>1, <2>4 DEF CardType, Open
  <2>7. Open' = Open
    BY <2>5 DEF Open
  <2>8. \A j \in Open : cards'[j].of = cards[j].of
    BY <2>5 DEF Open
  <2> QED  BY <2>2, <2>3, <2>4, <2>6, <2>7, <2>8 DEF WaitsOnACard, Terminal
<1>2. CASE same = {} /\ status = "running"
  <2>1. status' = "waiting_approval" /\ cards' = Append(Withdrawn(cards, other), Card(w))
    BY <1>2 DEF RequestApproval
  <2>2. PICK ds : ds = Withdrawn(cards, other)
    OBVIOUS
  <2>3. ds \in Seq(CardType) /\ DOMAIN ds = DOMAIN cards
    BY <1>0, <2>2, WithdrawnType, OpenAfterWithdrawn
  <2>4. \A j \in DOMAIN ds : ds[j].status = "open" =>
           /\ j \in Open /\ ds[j].of = cards[j].of
           /\ CapabilityOf[ds[j].of] # CapabilityOf[call[w].of]
    BY <1>0, <2>2, OpenAfterWithdrawn DEF Open
  <2>5. Card(w).status = "open" /\ Card(w).decision = "none" /\ Card(w).of = call[w].of
    BY DEF Card
  <2> DEFINE n == Len(ds) + 1
  <2>6. /\ DOMAIN cards' = 1 .. n /\ cards'[n] = Card(w)
        /\ \A j \in DOMAIN ds : cards'[j] = ds[j]
        /\ 1 .. n = DOMAIN ds \cup {n}
    BY <2>1, <2>2, <2>3
  <2> HIDE DEF same, other, n
  <2>7. n \in Open'
    BY <2>5, <2>6 DEF Open
  <2>8. \A i, j \in Open' : CapabilityOf[cards'[i].of] = CapabilityOf[cards'[j].of] => i = j
    <3>1. \A j \in Open' : j = n \/ (/\ j \in Open /\ cards'[j].of = cards[j].of
                                     /\ CapabilityOf[cards'[j].of] # CapabilityOf[call[w].of])
      BY <2>4, <2>6 DEF Open
    <3>2. cards'[n].of = call[w].of
      BY <2>5, <2>6
    <3> QED  BY <3>1, <3>2 DEF WaitsOnACard
  <2> QED  BY <2>1, <2>5, <2>6, <2>7, <2>8 DEF WaitsOnACard, Terminal
<1>3. CASE same = {} /\ status # "running"
  BY <1>3, WaitSameCards DEF RequestApproval
<1> QED  BY <1>1, <1>2, <1>3

\* Of a worker's steps, asking opens a card, an end closes all, and the others
\* neither answer one nor make the task wait.
LEMMA WaitWork ==
    ASSUME TypeInv, WaitsOnACard, NEW w \in Workers, Work(w)
    PROVE  WaitsOnACard'
<1>0. cards \in Seq(CardType)
  BY DEF TypeInv, TypeOK
<1>1. ASSUME UNCHANGED <<status, cards>> PROVE WaitsOnACard'
  BY <1>1, WaitSameCards
<1>2. CASE SpendApproval(w) \/ ReturnApproval(w) \/ Act(w)
  <2>1. UNCHANGED status
    BY <1>2 DEF SpendApproval, ReturnApproval, Act, task
  <2>2. CASE SpendApproval(w)
    <3>1. CASE cards' = [cards EXCEPT ![call[w].yes].used = TRUE]
      BY <2>1, <3>1, UseIsNoAnswer, WaitSame
    <3> QED  BY <1>1, <2>1, <2>2, <3>1 DEF SpendApproval
  <2>3. CASE ReturnApproval(w)
    <3>1. cards' = [cards EXCEPT ![call[w].yes].used = FALSE]
      BY <2>3 DEF ReturnApproval
    <3> QED  BY <2>1, <3>1, UseIsNoAnswer, WaitSame
  <2>4. CASE Act(w)
    <3>1. \E d, n : cards' = [cards EXCEPT ![call[w].yes].did = d, ![call[w].yes].unclear = n]
      BY <2>4 DEF Act
    <3> QED  BY <2>1, <3>1, UseIsNoAnswer, WaitSame
  <2> QED  BY <1>2, <2>2, <2>3, <2>4
<1>3. CASE RequestApproval(w)
  BY <1>3, WaitAsked
<1>4. CASE Unverified(w)
  BY <1>0, <1>1, <1>4, WaitEnd DEF Unverified, End, Terminal
<1>5. CASE Answer(w)
  BY <1>0, <1>1, <1>5, WaitEnd DEF Answer, End, Terminal
<1>6. CASE Fail(w)
  <2>1. CASE status' = "waiting_window" /\ UNCHANGED cards
    BY <2>1, WaitSameCards DEF Terminal
  <2>2. CASE End("failed")
    BY <1>0, <2>2, WaitEnd DEF End, Terminal
  <2> QED  BY <1>1, <1>6, <2>1, <2>2 DEF Fail, Charged, task
<1>7. CASE \/ Confirm(w) \/ ClaimStep(w) \/ FindGrantedApproval(w) \/ AskOwner(w) \/ Refuse(w)
           \/ ConfirmCommit(w) \/ Commit(w) \/ Park(w)
  <2>1. UNCHANGED <<status, cards>>
    BY <1>7 DEF Confirm, ClaimStep, FindGrantedApproval, AskOwner, Refuse, ConfirmCommit,
                Commit, Park, task
  <2> QED  BY <1>1, <2>1
<1> QED
  BY <1>2, <1>3, <1>4, <1>5, <1>6, <1>7 DEF Work

\* Every step keeps it: an answer sends the task on or ends it.
LEMMA WaitKept ==
    ASSUME TypeInv, WaitsOnACard, [Next]_vars
    PROVE  WaitsOnACard'
<1>0. cards \in Seq(CardType) /\ \A j \in DOMAIN cards : cards[j] \in CardType
  BY DEF TypeInv, TypeOK
<1>1. ASSUME NEW w \in Workers, Work(w) PROVE WaitsOnACard'
  BY <1>1, WaitWork
<1>2. ASSUME NEW w \in Workers, Begin(w) PROVE WaitsOnACard'
  BY <1>2, WaitSameCards DEF Begin, Terminal
<1>3. CASE TakeBack /\ UNCHANGED cards
  BY <1>3, WaitSameCards DEF TakeBack, Terminal
<1>4. CASE UNCHANGED <<status, cards>>
  BY <1>4, WaitSameCards
<1>5. CASE StopEverything
  BY <1>0, <1>5, WaitEnd DEF StopEverything, End, Terminal
<1>6. ASSUME NEW i \in DOMAIN cards, Approve(i) PROVE WaitsOnACard'
  <2>1. cards' = [cards EXCEPT ![i] = [cards[i] EXCEPT !.status = "decided", !.decision = "approve"]]
    BY <1>0, <1>6 DEF Approve
  <2>2. Open' \subseteq Open /\ \A j \in Open' : cards'[j].of = cards[j].of
    BY <1>0, <2>1 DEF Open, CardType
  <2>3. status \notin Terminal
    BY <1>6 DEF Approve, WaitsOnACard
  <2> QED  BY <1>6, <2>2, <2>3, WaitCalm DEF Approve, GoesOn, Terminal
<1>7. ASSUME NEW i \in DOMAIN cards, Deny(i) PROVE WaitsOnACard'
  <2>1. [cards[i] EXCEPT !.status = "decided", !.decision = "deny"] \in CardType
    BY <1>0 DEF CardType
  <2>2. PICK cs : cs = [cards EXCEPT ![i] = [cards[i] EXCEPT !.status = "decided", !.decision = "deny"]]
    OBVIOUS
  <2>3. cs \in Seq(CardType)
    BY <1>0, <2>1, <2>2, CardChange
  <2>4. EndWith("cancelled", cs)
    BY <1>0, <1>7, <2>2 DEF Deny, CancelWith, WaitsOnACard
  <2> QED  BY <2>3, <2>4, WaitEnd DEF Terminal
<1>8. ASSUME NEW i \in DOMAIN cards, Expire(i) PROVE WaitsOnACard'
  <2>1. [cards[i] EXCEPT !.status = "expired"] \in CardType
    BY <1>0 DEF CardType
  <2>2. PICK cs : cs = [cards EXCEPT ![i] = [cards[i] EXCEPT !.status = "expired"]]
    OBVIOUS
  <2>3. cs \in Seq(CardType)
    BY <1>0, <2>1, <2>2, CardChange
  <2>4. EndWith("cancelled", cs)
    BY <1>0, <1>8, <2>2 DEF Expire, CancelWith, WaitsOnACard
  <2> QED  BY <2>3, <2>4, WaitEnd DEF Terminal
<1>9. ASSUME NEW i \in DOMAIN cards, Ask(i) PROVE WaitsOnACard'
  <2>1. cards' = [cards EXCEPT ![i] = [cards[i] EXCEPT !.decision = "ask"]]
    BY <1>0, <1>9 DEF Ask
  <2>2. Open' \subseteq Open /\ \A j \in Open' : cards'[j].of = cards[j].of
    BY <1>0, <2>1 DEF Open, CardType
  <2>3. status \notin Terminal
    BY <1>9 DEF Ask, WaitsOnACard
  <2> QED  BY <1>9, <2>2, <2>3, WaitCalm DEF Ask, GoesOn, Terminal
<1> QED
  BY <1>1, <1>2, <1>3, <1>4, <1>5, <1>6, <1>7, <1>8, <1>9
     DEF Next, Owner, LeaseRunsOut, LeaseIsLost, Crash, Restart, task, vars

\* A task that waits for the owner waits on a card they have still to answer,
\* one that ended on none, and no capability has two open (inbox.ts
\* requestApproval, the decisions, and the trigger of 0036).
THEOREM OneCardIsOpen == Spec => []WaitsOnACard
<1>1. Init => WaitsOnACard
  BY DEF Init, WaitsOnACard, Open, Terminal
<1> QED
  BY <1>1, WaitKept, Types, PTL DEF Spec
-----------------------------------------------------------------------------
(* What the owner is told.                                                 *)

\* No worker has stood still, the owner asked at most one question, and the
\* task has not ended.
Quiet == stalls = 0 /\ asks <= 1 /\ status \notin Terminal

\* The statuses from which a run goes on.
Going == {"pending", "running", "waiting_window"}

\* The one run under way is its holder's, for what the model asked; while it
\* has a yes no card is open for that, and it asks only for what it has no yes
\* to: unless that came while it asked, after the question, and then no card
\* is open yet.
RunInv(w) ==
    call[w].phase \in Unfinished =>
        /\ holder = w
        /\ status = "running" \/ (At(w, "parked") /\ status = "waiting_approval")
        /\ ~At(w, "parked") => call[w].of = turn
        /\ call[w].phase \in HasYes => \A i \in Open : cards[i].of # call[w].of
        /\ At(w, "yes") => ~cards[call[w].yes].used
        /\ call[w].phase \in {"ask", "asking"} /\ Yeses(call[w].of) # {} => asks = 1 /\ Open = {}
        /\ At(w, "asking") /\ Interrupted(call[w].of) => call[w].told

Told ==
    \A i \in Open : \A j \in DOMAIN cards :
        cards[j].of = cards[i].of /\ cards[j].used => cards[i].told

\* Before the question every card is about the one proposal; after it, all but
\* one that are open.  A task that goes on has at most one card open, none
\* before the question.  A card is open beside a yes to the same only when it
\* is the only one, after the question, and the task waits for it.
CardsInv ==
    /\ asks = 0 => \A i \in DOMAIN cards : cards[i].of = turn
    /\ \A i, j \in Open : cards[i].of # turn /\ cards[j].of # turn => i = j
    /\ status \in Going => (asks = 0 => Open = {}) /\ \A i, j \in Open : i = j
    /\ \A i \in Open : Yeses(cards[i].of) # {} =>
          asks = 1 /\ status = "waiting_approval" /\ \A j \in Open : j = i
    /\ Told

ToldInv == Quiet => CardsInv /\ \A w \in Workers : RunInv(w)

\* What went before was quiet too.
LEMMA QuietBefore ==
    ASSUME TypeInv, [Next]_vars, Quiet'
    PROVE  Quiet
<1> USE DEF Quiet
<1>1. stalls \in Nat /\ asks \in Nat
  BY DEF TypeInv, TypeOK
<1>2. CASE UNCHANGED <<status, bounds>>
  BY <1>2 DEF bounds
<1>3. ASSUME NEW w \in Workers, Work(w) PROVE Quiet
  <2>1. UNCHANGED bounds
    BY <1>3 DEF Work, Confirm, ClaimStep, FindGrantedApproval, SpendApproval, AskOwner, RequestApproval,
                Act, Refuse, ReturnApproval, ConfirmCommit, Unverified, Commit, Park, Answer, Fail
  <2>2. status \in Terminal => status' = status
    BY <1>3 DEF Work, Confirm, ClaimStep, FindGrantedApproval, SpendApproval, AskOwner, RequestApproval,
                Act, Refuse, ReturnApproval, ConfirmCommit, Unverified, Commit, Park, Answer, Fail,
                task, Charged, Terminal
  <2> QED  BY <2>1, <2>2 DEF bounds
<1>4. ASSUME NEW w \in Workers, Begin(w) PROVE Quiet
  BY <1>4 DEF Begin, bounds, Terminal
<1>5. ASSUME NEW w \in Workers, Crash(w) \/ Restart(w) PROVE Quiet
  BY <1>5 DEF Crash, Restart, task, bounds
<1>6. CASE LeaseRunsOut
  BY <1>6 DEF LeaseRunsOut, TakeBack, bounds, Terminal
<1>7. CASE LeaseIsLost
  BY <1>1, <1>7 DEF LeaseIsLost, TakeBack, Terminal
<1>8. CASE StopEverything
  BY <1>8 DEF StopEverything, End, EndWith, bounds, Terminal
<1>9. ASSUME NEW i \in DOMAIN cards, Approve(i) \/ Deny(i) \/ Ask(i) \/ Expire(i) PROVE Quiet
  BY <1>1, <1>9 DEF Approve, Deny, Ask, Expire, GoesOn, CancelWith, EndWith, bounds, Terminal
<1> QED
  BY <1>2, <1>3, <1>4, <1>5, <1>6, <1>7, <1>8, <1>9 DEF Next, Owner, vars, task

\* A card that is acted on says what it said.
SameCards ==
    /\ DOMAIN cards' = DOMAIN cards
    /\ \A j \in DOMAIN cards :
          /\ cards'[j].of = cards[j].of /\ cards'[j].status = cards[j].status
          /\ cards'[j].decision = cards[j].decision
          /\ cards'[j].used = cards[j].used /\ cards'[j].told = cards[j].told

LEMMA CardsRead ==
    ASSUME SameCards
    PROVE  /\ Open' = Open
           /\ \A p : Yeses(p)' = Yeses(p) /\ (Interrupted(p)' <=> Interrupted(p))
  BY DEF SameCards, Open, Yeses, Approved, Interrupted

LEMMA CardsCalm ==
    ASSUME CardsInv, SameCards, UNCHANGED <<turn, asks>>,
           status' = status \/ (status \in Going /\ status' \in Going)
    PROVE  CardsInv'
<1>1. /\ Open' = Open
      /\ \A p : Yeses(p)' = Yeses(p) /\ (Interrupted(p)' <=> Interrupted(p))
  BY CardsRead
<1>2. \A j \in Open : j \in DOMAIN cards
  BY DEF Open
<1>3. Told'
  BY <1>1, <1>2 DEF CardsInv, Told, SameCards
<1>4. \A j \in Open : Yeses(cards[j].of)' = Yeses(cards[j].of)
  BY <1>2 DEF SameCards, Yeses, Approved
<1> QED
  BY <1>1, <1>2, <1>3, <1>4 DEF CardsInv, SameCards, Going

\* Where a run is, no other is.
LEMMA OneRun ==
    ASSUME ToldInv, Quiet, NEW w \in Workers, call[w].phase \in Unfinished,
           NEW v \in Workers, v # w
    PROVE  call[v].phase \notin Unfinished
  BY DEF ToldInv, RunInv

\* A run that goes on to a phase in which it neither has a yes nor asks.
LEMMA RunGoesOn ==
    ASSUME NEW w \in Workers, RunInv(w), call[w].phase \in Unfinished, ~At(w, "parked"),
           call'[w].of = call[w].of, UNCHANGED <<status, holder, turn>>,
           call'[w].phase \notin HasYes \cup {"ask", "asking", "parked"}
    PROVE  RunInv(w)'
  BY DEF RunInv, At, HasYes

\* And one that says nothing more.
LEMMA RunIsOver ==
    ASSUME NEW w \in Workers, call'[w].phase \notin Unfinished
    PROVE  RunInv(w)'
  BY DEF RunInv

\* A worker's step is of one run, and changes no other's.
LEMMA OnlyItsCall ==
    ASSUME TypeInv, NEW w \in Workers, Work(w)
    PROVE  /\ call[w].phase \in Unfinished
           /\ \A v \in Workers : v # w => call'[v] = call[v]
  BY DEF TypeInv, TypeOK, Work, Confirm, ClaimStep, FindGrantedApproval, SpendApproval, AskOwner,
         RequestApproval, Act, Refuse, ReturnApproval, ConfirmCommit, Unverified, Commit, Park, Answer, Fail,
         At, Enter, Leave, Unfinished

\* What a run is in after it entered a phase, and after it ended.
LEMMA AfterEnter ==
    ASSUME TypeInv, NEW w \in Workers, NEW p, Enter(w, p)
    PROVE  /\ call'[w].phase = p
           /\ call'[w].of = call[w].of /\ call'[w].yes = call[w].yes /\ call'[w].told = call[w].told
  BY DEF TypeInv, TypeOK, Enter, CallType

LEMMA AfterLeave ==
    ASSUME TypeInv, NEW w \in Workers, Leave(w)
    PROVE  call'[w].phase \notin Unfinished
  BY DEF TypeInv, TypeOK, Leave, NoCall, Unfinished

\* Of a worker's steps that say nothing of the cards.
LEMMA ToldWorkCalm ==
    ASSUME TypeInv, YesInv, ToldInv, Quiet, Quiet', NEW w \in Workers,
           \/ Confirm(w) \/ ClaimStep(w) \/ FindGrantedApproval(w) \/ AskOwner(w) \/ Refuse(w)
           \/ ConfirmCommit(w) \/ Unverified(w) \/ Commit(w) \/ Park(w) \/ Answer(w) \/ Fail(w)
    PROVE  CardsInv' /\ RunInv(w)'
<1>0. CardsInv /\ RunInv(w) /\ call[w] \in CallType
  BY DEF ToldInv, TypeInv, TypeOK
<1>1. ASSUME UNCHANGED <<turn, asks, cards>>,
             status' = status \/ (status \in Going /\ status' \in Going)
      PROVE  /\ CardsInv' /\ Open' = Open
             /\ \A p : Yeses(p)' = Yeses(p) /\ (Interrupted(p)' <=> Interrupted(p))
  BY <1>0, <1>1, CardsCalm, CardsRead DEF SameCards
<1>2. CASE Confirm(w)
  <2>1. UNCHANGED <<task, turn, asks, cards>> /\ At(w, "deciding")
    BY <1>2 DEF Confirm, bounds
  <2>2. CASE Enter(w, "claiming")
    BY <1>0, <1>1, <2>1, <2>2, AfterEnter, RunGoesOn DEF task, At, HasYes, Unfinished
  <2>3. CASE Leave(w)
    BY <1>1, <2>1, <2>3, AfterLeave, RunIsOver DEF task
  <2> QED  BY <1>2, <2>2, <2>3 DEF Confirm
<1>3. CASE ClaimStep(w)
  <2>1. UNCHANGED <<task, turn, asks, cards>> /\ At(w, "claiming")
    BY <1>3 DEF ClaimStep, bounds
  <2>2. call'[w].phase \in {"answered", "gate"} /\ call'[w].of = call[w].of
    BY <1>3 DEF ClaimStep, Enter, TypeInv, TypeOK, CallType
  <2> QED  BY <1>0, <1>1, <2>1, <2>2, RunGoesOn DEF task, At, HasYes, Unfinished
<1>4. CASE FindGrantedApproval(w)
  <2>1. UNCHANGED <<task, turn, asks, cards>> /\ At(w, "gate")
    BY <1>4 DEF FindGrantedApproval, bounds
  <2>2. holder = w /\ status = "running" /\ call[w].of = turn
    BY <1>0, <2>1 DEF RunInv, At, Unfinished
  <2>3. CASE Yeses(call[w].of) = {} /\ Enter(w, "ask")
    <3>1. call'[w].phase = "ask" /\ call'[w].of = call[w].of
      BY <2>3, AfterEnter
    <3>2. Yeses(call[w].of)' = {}
      BY <1>1, <2>1, <2>3, <3>1 DEF task, Yeses
    <3> QED  BY <1>1, <2>1, <2>2, <3>1, <3>2 DEF task, RunInv, At, HasYes
  <2>4. CASE \E i \in Yeses(call[w].of) : call' = [call EXCEPT ![w].phase = "yes", ![w].yes = i]
    <3>1. PICK i \in Yeses(call[w].of) : call' = [call EXCEPT ![w].phase = "yes", ![w].yes = i]
      BY <2>4
    <3>2. call'[w].phase = "yes" /\ call'[w].of = call[w].of /\ call'[w].yes = i
      BY <3>1 DEF TypeInv, TypeOK, CallType
    <3>3. ~cards[i].used
      BY <3>1 DEF Yeses
    <3>4. \A j \in Open : cards[j].of # call[w].of
      BY <1>0, <2>2, <3>1 DEF CardsInv, Going
    <3> QED  BY <1>1, <2>1, <2>2, <3>2, <3>3, <3>4 DEF task, RunInv, At, HasYes
  <2> QED  BY <1>4, <2>3, <2>4 DEF FindGrantedApproval
<1>5. CASE AskOwner(w)
  <2>1. UNCHANGED <<task, turn, asks, cards>> /\ At(w, "ask")
    BY <1>5 DEF AskOwner, bounds
  <2>2. /\ holder = w /\ status = "running" /\ call[w].of = turn
        /\ Yeses(call[w].of) # {} => asks = 1 /\ Open = {}
    BY <1>0, <2>1 DEF RunInv, At, Unfinished
  <2>3. /\ call'[w].phase = "asking" /\ call'[w].of = call[w].of
        /\ call'[w].told = Interrupted(call[w].of)
    BY <1>5 DEF AskOwner, TypeInv, TypeOK, CallType
  <2>4. Interrupted(call[w].of)' => Interrupted(call[w].of)
    BY <2>1, <2>3 DEF Interrupted
  <2>5. Yeses(call[w].of)' = Yeses(call[w].of)
    BY <2>1, <2>3 DEF Yeses
  <2> QED  BY <1>1, <2>1, <2>2, <2>3, <2>4, <2>5 DEF task, RunInv, At, HasYes
<1>6. CASE Refuse(w)
  <2>1. UNCHANGED <<task, turn, asks, cards>> /\ At(w, "acting")
    BY <1>6 DEF Refuse, bounds
  <2>2. call'[w].phase = "returning" /\ call'[w].of = call[w].of
    BY <1>6, AfterEnter DEF Refuse
  <2> QED  BY <1>0, <1>1, <2>1, <2>2 DEF task, RunInv, At, HasYes, Unfinished
<1>7. CASE ConfirmCommit(w)
  <2>1. UNCHANGED <<task, turn, asks, cards>> /\ At(w, "acted")
    BY <1>7 DEF ConfirmCommit, bounds
  <2>2. CASE Enter(w, "committing")
    BY <1>0, <1>1, <2>1, <2>2, AfterEnter, RunGoesOn DEF task, At, HasYes, Unfinished
  <2>3. CASE Leave(w)
    BY <1>1, <2>1, <2>3, AfterLeave, RunIsOver DEF task
  <2> QED  BY <1>7, <2>2, <2>3 DEF ConfirmCommit
<1>8. CASE Unverified(w) \/ Answer(w)
  <2>1. At(w, "acted") \/ At(w, "answered")
    BY <1>8 DEF Unverified, Answer
  <2>2. holder = w /\ status = "running"
    BY <1>0, <2>1 DEF RunInv, At, Unfinished
  <2>3. status' \in Terminal
    BY <1>8, <2>2 DEF Unverified, Answer, End, EndWith, Terminal
  <2> QED  BY <2>3 DEF Quiet
<1>9. CASE Commit(w)
  <2>1. UNCHANGED <<task, turn, asks, cards>> /\ At(w, "committing")
    BY <1>9 DEF Commit, bounds
  <2>2. call'[w].phase \in {"answered", "failing"} /\ call'[w].of = call[w].of
    BY <1>9, AfterEnter DEF Commit
  <2> QED  BY <1>0, <1>1, <2>1, <2>2, RunGoesOn DEF task, At, HasYes, Unfinished
<1>10. CASE Park(w)
  BY <1>1, <1>10, AfterLeave, RunIsOver DEF Park, bounds
<1>11. CASE Fail(w)
  <2>1. At(w, "failing") /\ Leave(w) /\ UNCHANGED <<turn, asks>>
    BY <1>11 DEF Fail, bounds
  <2>2. holder = w /\ status = "running"
    BY <1>0, <2>1 DEF RunInv, At, Unfinished
  <2>3. status' = "waiting_window" /\ UNCHANGED cards
    BY <1>11, <2>2 DEF Fail, Charged, End, EndWith, Quiet, Terminal
  <2> QED  BY <1>1, <2>1, <2>2, <2>3, AfterLeave, RunIsOver DEF Going
<1> QED
  BY <1>2, <1>3, <1>4, <1>5, <1>6, <1>7, <1>8, <1>9, <1>10, <1>11

\* A yes is used when no card is open for the same, and then it is on record.
LEMMA ToldSpend ==
    ASSUME TypeInv, YesInv, ToldInv, Quiet, NEW w \in Workers, SpendApproval(w)
    PROVE  CardsInv' /\ RunInv(w)'
<1> DEFINE i == call[w].yes
<1>0. /\ CardsInv /\ RunInv(w) /\ cards \in Seq(CardType)
      /\ \A j \in DOMAIN cards : cards[j] \in CardType
  BY DEF ToldInv, TypeInv, TypeOK
<1>1. At(w, "yes") /\ UNCHANGED <<task, turn, asks>>
  BY DEF SpendApproval, bounds
<1>2. /\ holder = w /\ status = "running" /\ call[w].of = turn
      /\ \A j \in Open : cards[j].of # call[w].of
      /\ ~cards[i].used
  BY <1>0, <1>1 DEF RunInv, At, Unfinished, HasYes
<1>3. cards' = [cards EXCEPT ![i].used = TRUE] /\ Enter(w, "acting")
  BY <1>2 DEF SpendApproval
<1>4. i \in DOMAIN cards /\ cards[i].of = call[w].of
  BY <1>1 DEF YesInv, YesIsForIt, HasYes, At
<1>5. call'[w].phase = "acting" /\ call'[w].of = call[w].of
  BY <1>3, AfterEnter
<1> HIDE DEF i
<1>6. cards' = [cards EXCEPT ![i] = [cards[i] EXCEPT !.used = TRUE]]
  BY <1>3
<1>7. /\ DOMAIN cards' = DOMAIN cards
      /\ \A j \in DOMAIN cards :
            /\ cards'[j].of = cards[j].of /\ cards'[j].status = cards[j].status
            /\ cards'[j].decision = cards[j].decision /\ cards'[j].told = cards[j].told
            /\ j # i => cards'[j].used = cards[j].used
            /\ j = i => cards'[j].used
  BY <1>0, <1>4, <1>6 DEF CardType
<1>8. Open' = Open
  BY <1>7 DEF Open
<1>9. \A p : Yeses(p)' \subseteq Yeses(p)
  BY <1>7 DEF Yeses, Approved
<1>10. \A j \in Open : Yeses(cards[j].of)' = {}
  <2>1. \A j \in Open : Yeses(cards[j].of) = {}
    BY <1>0, <1>2 DEF CardsInv
  <2>2. \A j \in Open : j \in DOMAIN cards
    BY DEF Open
  <2> QED  BY <1>7, <2>1, <2>2 DEF Yeses, Approved
<1>11. Told'
  <2>1. \A j \in Open : j \in DOMAIN cards
    BY DEF Open
  <2> QED  BY <1>0, <1>2, <1>4, <1>7, <1>8, <2>1 DEF Told, CardsInv
<1>12. CardsInv'
  <2>1. \A j \in Open : j \in DOMAIN cards
    BY DEF Open
  <2>2. \A j \in Open' : Yeses(cards[j].of)' = {}
    BY <1>8, <1>10
  <2>3. UNCHANGED <<status, turn, asks>>
    BY <1>1 DEF task
  <2>4. \A j \in DOMAIN cards : cards'[j].of = cards[j].of
    BY <1>7
  <2> QED  BY <1>0, <1>7, <1>8, <1>11, <2>1, <2>2, <2>3, <2>4 DEF CardsInv
<1>13. \A j \in Open : cards'[j].of = cards[j].of
  BY <1>7 DEF Open
<1>14. RunInv(w)'
  BY <1>1, <1>2, <1>5, <1>8, <1>13 DEF RunInv, At, task
<1> QED  BY <1>12, <1>14

\* A yes is given back when no card is open for the same.
LEMMA ToldReturn ==
    ASSUME TypeInv, YesInv, ToldInv, Quiet, NEW w \in Workers, ReturnApproval(w)
    PROVE  CardsInv' /\ RunInv(w)'
<1> DEFINE i == call[w].yes
<1>0. /\ CardsInv /\ RunInv(w) /\ cards \in Seq(CardType)
      /\ \A j \in DOMAIN cards : cards[j] \in CardType
  BY DEF ToldInv, TypeInv, TypeOK
<1>1. At(w, "returning") /\ UNCHANGED <<task, turn, asks>> /\ Enter(w, "failing")
  BY DEF ReturnApproval, bounds
<1>2. /\ status = "running" /\ \A j \in Open : cards[j].of # call[w].of
  BY <1>0, <1>1 DEF RunInv, At, Unfinished, HasYes
<1>3. i \in DOMAIN cards /\ cards[i].of = call[w].of
  BY <1>1 DEF YesInv, YesIsForIt, HasYes, At
<1>4. call'[w].phase = "failing" /\ call'[w].of = call[w].of
  BY <1>1, AfterEnter
<1>5. cards' = [cards EXCEPT ![i] = [cards[i] EXCEPT !.used = FALSE]]
  BY DEF ReturnApproval
<1> HIDE DEF i
<1>6. /\ DOMAIN cards' = DOMAIN cards
      /\ \A j \in DOMAIN cards :
            /\ cards'[j].of = cards[j].of /\ cards'[j].status = cards[j].status
            /\ cards'[j].decision = cards[j].decision /\ cards'[j].told = cards[j].told
            /\ cards'[j].used => cards[j].used
            /\ j # i => cards'[j].used = cards[j].used
  BY <1>0, <1>3, <1>5 DEF CardType
<1>7. Open' = Open /\ \A j \in Open : j \in DOMAIN cards
  BY <1>6 DEF Open
<1>8. \A j \in Open : Yeses(cards[j].of)' = {}
  <2>1. \A j \in Open : Yeses(cards[j].of) = {}
    BY <1>0, <1>2 DEF CardsInv
  <2> QED  BY <1>2, <1>3, <1>6, <1>7, <2>1 DEF Yeses, Approved
<1>9. Told'
  BY <1>0, <1>6, <1>7 DEF Told, CardsInv
<1>10. CardsInv'
  <2>1. \A j \in Open' : Yeses(cards[j].of)' = {}
    BY <1>7, <1>8
  <2>2. UNCHANGED <<status, turn, asks>>
    BY <1>1 DEF task
  <2>3. \A j \in DOMAIN cards : cards'[j].of = cards[j].of
    BY <1>6
  <2> QED  BY <1>0, <1>6, <1>7, <1>9, <2>1, <2>2, <2>3 DEF CardsInv
<1>11. RunInv(w)'
  BY <1>0, <1>1, <1>4, RunGoesOn DEF At, HasYes, Unfinished, task
<1> QED  BY <1>10, <1>11

\* An act changes nothing a card says.
LEMMA ToldAct ==
    ASSUME TypeInv, ToldInv, Quiet, NEW w \in Workers, Act(w)
    PROVE  CardsInv' /\ RunInv(w)'
<1> DEFINE i == call[w].yes
<1>0. /\ CardsInv /\ RunInv(w) /\ cards \in Seq(CardType)
      /\ \A j \in DOMAIN cards : cards[j] \in CardType
  BY DEF ToldInv, TypeInv, TypeOK
<1>1. PICK d, n :
        /\ At(w, "acting") /\ UNCHANGED <<task, turn, asks>>
        /\ cards' = [cards EXCEPT ![i].did = d, ![i].unclear = n]
        /\ Enter(w, "returning") \/ Enter(w, "acted")
  BY DEF Act, bounds
<1>2. cards' = [cards EXCEPT ![i] = [cards[i] EXCEPT !.did = d, !.unclear = n]]
  BY <1>1
<1>3. call'[w].phase \in {"returning", "acted"} /\ call'[w].of = call[w].of
  BY <1>1, AfterEnter
<1> HIDE DEF i
<1>4. SameCards
  <2>1. i \in DOMAIN cards => cards[i] \in CardType
    BY <1>0
  <2> QED  BY <1>0, <1>2, <2>1 DEF SameCards, CardType
<1>5. CardsInv' /\ Open' = Open
  BY <1>0, <1>1, <1>4, CardsCalm, CardsRead DEF task
<1>6. \A j \in Open : cards'[j].of = cards[j].of
  BY <1>4 DEF SameCards, Open
<1>7. RunInv(w)'
  BY <1>0, <1>1, <1>3, <1>5, <1>6 DEF RunInv, At, HasYes, Unfinished, task
<1> QED  BY <1>5, <1>7

\* A card that is withdrawn says what it said, and was not decided.
LEMMA WithdrawnSays ==
    ASSUME NEW cs \in Seq(CardType), NEW S
    PROVE  \A i \in DOMAIN cs :
              /\ Withdrawn(cs, S)[i].decision = cs[i].decision
              /\ Withdrawn(cs, S)[i].used = cs[i].used
              /\ Withdrawn(cs, S)[i].told = cs[i].told
              /\ Withdrawn(cs, S)[i].status = "decided" <=> cs[i].status = "decided"
<1>1. \A i \in DOMAIN cs : cs[i] \in CardType
  OBVIOUS
<1> QED  BY <1>1 DEF Withdrawn, CardType

\* The card that is open already is asked about once more.
LEMMA ToldAskedAgain ==
    ASSUME TypeInv, WaitsOnACard, ToldInv, Quiet, NEW w \in Workers, RequestApproval(w),
           NEW i \in Open, cards[i].of = call[w].of
    PROVE  CardsInv' /\ RunInv(w)'
<1> DEFINE same == {j \in Open : cards[j].of = call[w].of}
<1>0. /\ CardsInv /\ RunInv(w) /\ cards \in Seq(CardType)
      /\ \A j \in DOMAIN cards : cards[j] \in CardType
  BY DEF ToldInv, TypeInv, TypeOK
<1>1. At(w, "asking") /\ UNCHANGED <<holder, turn, asks>>
  BY DEF RequestApproval, bounds
<1>2. holder = w /\ status = "running"
  BY <1>0, <1>1 DEF RunInv, At, Unfinished
<1>3. /\ cards' = [j \in DOMAIN cards |->
                     IF j \in same THEN [cards[j] EXCEPT !.decision = "none"] ELSE cards[j]]
      /\ status' = "waiting_approval" /\ Enter(w, "parked")
  BY <1>2 DEF RequestApproval
<1> HIDE DEF same
<1>4. /\ DOMAIN cards' = DOMAIN cards
      /\ \A j \in DOMAIN cards :
            /\ cards'[j].of = cards[j].of /\ cards'[j].status = cards[j].status
            /\ cards'[j].used = cards[j].used /\ cards'[j].told = cards[j].told
            /\ j \notin Open => cards'[j].decision = cards[j].decision
  BY <1>0, <1>3 DEF CardType, same
<1>5. Open' = Open /\ \A j \in Open : j \in DOMAIN cards
  BY <1>4 DEF Open
<1>6. \A j \in Open' : Yeses(cards[j].of)' = {}
  <2>1. \A j \in Open : Yeses(cards[j].of) = {}
    BY <1>0, <1>2 DEF CardsInv
  <2>2. \A j \in DOMAIN cards : cards'[j].status = "decided" => j \notin Open
    BY <1>4 DEF Open
  <2> QED  BY <1>4, <1>5, <2>1, <2>2 DEF Yeses, Approved
<1>7. Told'
  BY <1>0, <1>4, <1>5 DEF Told, CardsInv
<1>8. CardsInv'
  <2>1. \A j \in DOMAIN cards : cards'[j].of = cards[j].of
    BY <1>4
  <2>2. \A j, k \in Open' : cards'[j].of # turn /\ cards'[k].of # turn => j = k
    BY <1>0, <1>5, <2>1 DEF CardsInv
  <2>3. asks = 0 => \A j \in DOMAIN cards' : cards'[j].of = turn
    BY <1>0, <1>4, <2>1 DEF CardsInv
  <2> QED  BY <1>1, <1>3, <1>6, <1>7, <2>2, <2>3 DEF CardsInv, Going
<1>9. RunInv(w)'
  <2>1. call'[w].phase = "parked"
    BY <1>3, AfterEnter
  <2> QED  BY <1>1, <1>2, <1>3, <2>1 DEF RunInv, At, HasYes
<1> QED  BY <1>8, <1>9

\* A card is opened with what was read of the yeses before, and makes way.
LEMMA ToldAsked ==
    ASSUME TypeInv, ToldInv, Quiet, NEW w \in Workers, RequestApproval(w),
           \A i \in Open : cards[i].of # call[w].of
    PROVE  CardsInv' /\ RunInv(w)'
<1> DEFINE other == {i \in Open : CapabilityOf[cards[i].of] = CapabilityOf[call[w].of]}
<1>0. /\ CardsInv /\ RunInv(w) /\ cards \in Seq(CardType)
      /\ \A j \in DOMAIN cards : cards[j] \in CardType
  BY DEF ToldInv, TypeInv, TypeOK
<1>1. At(w, "asking") /\ UNCHANGED <<holder, turn, asks>>
  BY DEF RequestApproval, bounds
<1>2. /\ holder = w /\ status = "running" /\ call[w].of = turn
      /\ Yeses(call[w].of) # {} => asks = 1 /\ Open = {}
      /\ Interrupted(call[w].of) => call[w].told
  BY <1>0, <1>1 DEF RunInv, At, Unfinished
<1>3. /\ cards' = Append(Withdrawn(cards, other), Card(w))
      /\ status' = "waiting_approval" /\ Enter(w, "parked")
  BY <1>2 DEF RequestApproval
<1>4. PICK ds : ds = Withdrawn(cards, other)
  OBVIOUS
<1>5. ds \in Seq(CardType) /\ DOMAIN ds = DOMAIN cards
  BY <1>0, <1>4, WithdrawnType, OpenAfterWithdrawn
<1>6. \A j \in DOMAIN cards :
        /\ ds[j].of = cards[j].of /\ ds[j].decision = cards[j].decision
        /\ ds[j].used = cards[j].used /\ ds[j].told = cards[j].told
        /\ ds[j].status = "decided" <=> cards[j].status = "decided"
        /\ ds[j].status = "open" => j \in Open
  BY <1>0, <1>4, OpenAfterWithdrawn, WithdrawnSays DEF Open
<1>7. /\ Card(w).status = "open" /\ Card(w).of = call[w].of
      /\ Card(w).used = FALSE /\ Card(w).told = call[w].told
  BY DEF Card
<1> DEFINE n == Len(ds) + 1
<1>8. /\ DOMAIN cards' = DOMAIN cards \cup {n} /\ n \notin DOMAIN cards
      /\ cards'[n] = Card(w)
      /\ \A j \in DOMAIN cards : cards'[j] = ds[j]
  <2>1. /\ DOMAIN cards' = 1 .. n /\ cards'[n] = Card(w)
        /\ \A j \in DOMAIN ds : cards'[j] = ds[j]
        /\ 1 .. n = DOMAIN ds \cup {n}
    <3>1. cards' = Append(ds, Card(w))
      BY <1>3, <1>4
    <3> QED  BY <1>5, <3>1
  <2>2. n \notin DOMAIN ds
    <3>1. Len(ds) \in Nat /\ DOMAIN ds = 1 .. Len(ds)
      BY <1>5
    <3> QED  BY <3>1
  <2> QED  BY <1>5, <2>1, <2>2
<1> HIDE DEF other, n
<1>9. /\ \A j \in Open : j \in DOMAIN cards
      /\ \A j \in Open' : j = n \/ j \in Open
      /\ cards'[n].of = call[w].of
      /\ \A j \in DOMAIN cards : cards'[j].of = cards[j].of
  BY <1>6, <1>7, <1>8 DEF Open
<1>10. \A p : Yeses(p)' = Yeses(p)
  BY <1>6, <1>7, <1>8 DEF Yeses, Approved
<1>11. \A j \in Open' : Yeses(cards[j].of)' # {} => asks = 1 /\ Open = {}
  <2>1. ASSUME NEW j \in Open', Yeses(cards'[j].of) # {} PROVE asks = 1 /\ Open = {}
    <3>1. CASE j = n
      BY <1>2, <1>9, <2>1, <3>1
    <3>2. CASE j \in Open
      <4>1. cards'[j].of = cards[j].of /\ Yeses(cards[j].of) = {}
        BY <1>0, <1>2, <1>9, <3>2 DEF CardsInv
      <4> QED  BY <2>1, <4>1
    <3> QED  BY <1>9, <2>1, <3>1, <3>2
  <2>2. \A j : Yeses(cards[j].of)' = Yeses(cards'[j].of)
    BY <1>6, <1>7, <1>8 DEF Yeses, Approved
  <2> QED  BY <2>1, <2>2
<1>12. Told'
  <2>1. ASSUME NEW i \in Open', NEW j \in DOMAIN cards', cards'[j].of = cards'[i].of, cards'[j].used
        PROVE  cards'[i].told
    <3>1. j \in DOMAIN cards /\ cards[j].of = cards'[i].of /\ cards[j].used
      BY <1>6, <1>7, <1>8, <2>1
    <3>2. CASE i = n
      BY <1>2, <1>7, <1>8, <1>9, <3>1, <3>2 DEF Interrupted
    <3>3. CASE i \in Open
      <4>1. cards[i].of = cards[j].of /\ cards'[i].told = cards[i].told
        BY <1>6, <1>8, <1>9, <3>1, <3>3
      <4> QED  BY <1>0, <3>1, <3>3, <4>1 DEF CardsInv, Told
    <3> QED  BY <1>9, <2>1, <3>2, <3>3
  <2> QED  BY <2>1 DEF Told
<1>13. CardsInv'
  <2>1. asks = 0 => \A i \in DOMAIN cards' : cards'[i].of = turn
    BY <1>0, <1>2, <1>8, <1>9 DEF CardsInv
  <2>2. \A i, j \in Open' : cards'[i].of # turn /\ cards'[j].of # turn => i = j
    BY <1>0, <1>2, <1>9 DEF CardsInv
  <2>3. \A i \in Open' : Yeses(cards[i].of)' # {} => asks = 1 /\ \A j \in Open' : j = i
    BY <1>9, <1>11
  <2> QED  BY <1>1, <1>3, <1>12, <2>1, <2>2, <2>3 DEF CardsInv, Going
<1>14. RunInv(w)'
  <2>1. call'[w].phase = "parked"
    BY <1>3, AfterEnter
  <2> QED  BY <1>1, <1>2, <1>3, <2>1 DEF RunInv, At, HasYes
<1> QED  BY <1>13, <1>14

\* Every step of a run.
LEMMA ToldWork ==
    ASSUME TypeInv, YesInv, WaitsOnACard, ToldInv, Quiet, Quiet', NEW w \in Workers, Work(w)
    PROVE  CardsInv' /\ \A v \in Workers : RunInv(v)'
<1>1. CardsInv' /\ RunInv(w)'
  <2>1. CASE RequestApproval(w)
    <3>1. CASE \E i \in Open : cards[i].of = call[w].of
      BY <2>1, <3>1, ToldAskedAgain
    <3>2. CASE \A i \in Open : cards[i].of # call[w].of
      BY <2>1, <3>2, ToldAsked
    <3> QED  BY <3>1, <3>2
  <2> QED  BY <2>1, ToldWorkCalm, ToldSpend, ToldReturn, ToldAct DEF Work
<1>2. ASSUME NEW v \in Workers, v # w PROVE RunInv(v)'
  BY <1>2, OnlyItsCall, OneRun, RunIsOver
<1> QED  BY <1>1, <1>2

\* A run begins for what the model asks; before the question that is what
\* every card is about, or there is none.
LEMMA ToldBegin ==
    ASSUME TypeInv, ToldInv, Quiet, NEW w \in Workers, Begin(w)
    PROVE  CardsInv' /\ \A v \in Workers : RunInv(v)'
<1>0. /\ CardsInv /\ holder = NoWorker
      /\ status \in Going /\ status' = "running" /\ holder' = w
      /\ UNCHANGED <<cards, asks>>
  BY DEF ToldInv, Begin, bounds, Going
<1>1. \A j \in DOMAIN cards : cards[j].of \in Proposals
  <2>1. cards \in Seq(CardType)
    BY DEF TypeInv, TypeOK
  <2>2. \A j \in DOMAIN cards : cards[j] \in CardType
    BY <2>1
  <2> QED  BY <2>2 DEF CardType
<1>2. turn # NoProposal => turn' = turn
  BY DEF Begin
<1>3. turn = NoProposal => \A j \in DOMAIN cards : cards[j].of # turn
  BY <1>1, ApprovalsAssumption
<1>4. \A i \in Open : i \in DOMAIN cards
  BY DEF Open
<1>5. Open' = Open /\ \A p : Yeses(p)' = Yeses(p)
  BY <1>0 DEF Open, Yeses
<1>6. \A i \in Open' : Yeses(cards[i].of)' = {}
  <2>1. \A i \in Open : Yeses(cards[i].of) = {}
    BY <1>0 DEF CardsInv, Going
  <2> QED  BY <1>0, <1>5, <2>1 DEF Yeses
<1>7. Told'
  BY <1>0, <1>5 DEF CardsInv, Told
<1>8. CardsInv'
  <2>1. asks = 0 => \A i \in DOMAIN cards : cards[i].of = turn'
    BY <1>0, <1>2, <1>3 DEF CardsInv
  <2>2. \A i, j \in Open : cards[i].of # turn' /\ cards[j].of # turn' => i = j
    BY <1>0, <1>2, <1>3, <1>4 DEF CardsInv
  <2>3. (asks = 0 => Open = {}) /\ \A i, j \in Open : i = j
    BY <1>0 DEF CardsInv
  <2> QED  BY <1>0, <1>5, <1>6, <1>7, <2>1, <2>2, <2>3 DEF CardsInv
<1>9. ASSUME NEW v \in Workers PROVE RunInv(v)'
  <2>1. call[v].phase \notin Unfinished
    BY <1>0, ApprovalsAssumption DEF ToldInv, RunInv
  <2>2. CASE v = w
    <3>1. call'[w].phase = "deciding" /\ call'[w].of = turn'
      BY DEF Begin, TypeInv, TypeOK, CallType
    <3> QED  BY <1>0, <2>2, <3>1 DEF RunInv, At, HasYes
  <2>3. CASE v # w
    <3>1. call'[v] = call[v]
      BY <2>3 DEF Begin, TypeInv, TypeOK
    <3> QED  BY <2>1, <3>1, RunIsOver
  <2> QED  BY <2>2, <2>3
<1> QED  BY <1>8, <1>9

\* A yes closes its card, and leaves one open at most.
LEMMA ToldApprove ==
    ASSUME TypeInv, YesInv, WaitsOnACard, ToldInv, Quiet, NEW i \in DOMAIN cards, Approve(i)
    PROVE  CardsInv' /\ \A v \in Workers : RunInv(v)'
<1>0. /\ CardsInv /\ cards \in Seq(CardType) /\ i \in Open
      /\ \A j \in DOMAIN cards : cards[j] \in CardType
  BY DEF ToldInv, TypeInv, TypeOK, Approve
<1>1. /\ cards' = [cards EXCEPT ![i] = [cards[i] EXCEPT !.status = "decided", !.decision = "approve"]]
      /\ UNCHANGED <<holder, turn, call, asks>>
      /\ status' = IF status \in {"waiting_approval", "waiting_window"} THEN "running" ELSE status
  BY DEF Approve, GoesOn, bounds
<1>2. /\ DOMAIN cards' = DOMAIN cards
      /\ \A j \in DOMAIN cards :
            /\ cards'[j].of = cards[j].of /\ cards'[j].used = cards[j].used
            /\ cards'[j].told = cards[j].told
            /\ j # i => cards'[j].status = cards[j].status /\ cards'[j].decision = cards[j].decision
            /\ j = i => cards'[j].status = "decided"
  BY <1>0, <1>1 DEF CardType
<1>3. Open' = Open \ {i} /\ \A j \in Open : j \in DOMAIN cards /\ cards'[j].of = cards[j].of
  BY <1>2 DEF Open
<1>4. \A j, k \in Open : cards[j].of = cards[k].of => j = k
  BY DEF WaitsOnACard
<1>5. \A j, k \in Open' : j = k
  BY <1>0, <1>3, <1>4 DEF CardsInv
<1>6. asks = 0 => Open' = {}
  <2>1. asks = 0 => \A j \in Open : j = i
    BY <1>0, <1>3, <1>4 DEF CardsInv
  <2> QED  BY <1>3, <2>1
<1>7. \A j \in Open' : Yeses(cards[j].of)' = {}
  <2>1. ASSUME NEW j \in Open' PROVE Yeses(cards[j].of) = {}
    BY <1>0, <1>3 DEF CardsInv
  <2>2. ASSUME NEW j \in Open' PROVE cards[j].of # cards[i].of
    BY <1>0, <1>3, <1>4
  <2> QED  BY <1>2, <1>3, <2>1, <2>2 DEF Yeses, Approved
<1>8. Told'
  BY <1>0, <1>2, <1>3 DEF CardsInv, Told
<1>9. CardsInv'
  <2>1. asks = 0 => \A j \in DOMAIN cards' : cards'[j].of = turn
    BY <1>0, <1>2 DEF CardsInv
  <2> QED  BY <1>1, <1>5, <1>6, <1>7, <1>8, <2>1 DEF CardsInv
<1>10. ASSUME NEW v \in Workers, call[v].phase \in Unfinished PROVE RunInv(v)'
  <2>1. RunInv(v)
    BY DEF ToldInv
  <2>2. status' = "running"
    BY <1>1, <1>10, <2>1 DEF RunInv
  <2>3. \A p : Interrupted(p)' => Interrupted(p)
    BY <1>2 DEF Interrupted
  <2>4. CASE At(v, "parked")
    BY <1>1, <1>10, <2>1, <2>2, <2>4 DEF RunInv, At, HasYes
  <2>5. CASE ~At(v, "parked")
    <3>1. status = "running"
      BY <1>10, <2>1, <2>5 DEF RunInv
    <3>2. asks = 1 /\ Open' = {}
      <4>1. asks # 0 /\ \A j \in Open : j = i
        BY <1>0, <3>1 DEF CardsInv, Going
      <4>2. asks \in Nat /\ asks <= 1
        BY DEF Quiet, TypeInv, TypeOK
      <4>3. Open' = {}
        BY <1>3, <4>1
      <4> QED  BY <4>1, <4>2, <4>3
    <3>3. At(v, "yes") => ~cards'[call[v].yes].used
      BY <1>2, <1>10, <2>1 DEF RunInv, At, YesInv, YesIsForIt, HasYes
    <3>4. Interrupted(call[v].of)' => Interrupted(call[v].of)
      BY <1>1, <1>2 DEF Interrupted
    <3> QED  BY <1>1, <1>10, <2>1, <2>2, <2>5, <3>2, <3>3, <3>4 DEF RunInv, At
  <2> QED  BY <2>4, <2>5
<1>11. ASSUME NEW v \in Workers, call[v].phase \notin Unfinished PROVE RunInv(v)'
  BY <1>1, <1>11, RunIsOver
<1> QED  BY <1>9, <1>10, <1>11

\* The question leaves the one card open, and no run but one that is parked.
LEMMA ToldAsk ==
    ASSUME TypeInv, WaitsOnACard, ToldInv, Quiet, Quiet', NEW i \in DOMAIN cards, Ask(i)
    PROVE  CardsInv' /\ \A v \in Workers : RunInv(v)'
<1>0. /\ CardsInv /\ cards \in Seq(CardType) /\ i \in Open
      /\ \A j \in DOMAIN cards : cards[j] \in CardType
  BY DEF ToldInv, TypeInv, TypeOK, Ask
<1>1. asks = 0 /\ asks' = 1
  BY DEF Ask, Quiet, TypeInv, TypeOK
<1>2. status = "waiting_approval"
  BY <1>0, <1>1 DEF CardsInv, Quiet, TypeInv, TypeOK, Going
<1>3. /\ cards' = [cards EXCEPT ![i] = [cards[i] EXCEPT !.decision = "ask"]]
      /\ UNCHANGED <<holder, call>> /\ status' = "running"
  BY <1>2 DEF Ask, GoesOn
<1>4. /\ DOMAIN cards' = DOMAIN cards
      /\ \A j \in DOMAIN cards :
            /\ cards'[j].of = cards[j].of /\ cards'[j].status = cards[j].status
            /\ cards'[j].used = cards[j].used /\ cards'[j].told = cards[j].told
            /\ j # i => cards'[j].decision = cards[j].decision
  BY <1>0, <1>3 DEF CardType
<1>5. Open' = Open /\ \A j \in Open : j \in DOMAIN cards /\ cards'[j].of = cards[j].of
  BY <1>4 DEF Open
<1>6. \A j \in Open : j = i
  BY <1>0, <1>1, <1>5 DEF CardsInv, WaitsOnACard
<1>7. \A j \in Open' : Yeses(cards[j].of)' = {}
  <2>1. \A j \in Open : Yeses(cards[j].of) = {}
    BY <1>0, <1>1 DEF CardsInv
  <2>2. i \in DOMAIN cards /\ cards'[i].status # "decided"
    BY <1>0, <1>4 DEF Open
  <2> QED  BY <1>4, <1>5, <2>1, <2>2 DEF Yeses, Approved
<1>8. Told'
  BY <1>0, <1>4, <1>5 DEF CardsInv, Told
<1>9. CardsInv'
  BY <1>1, <1>5, <1>6, <1>7, <1>8 DEF CardsInv
<1>10. ASSUME NEW v \in Workers, call[v].phase \in Unfinished PROVE RunInv(v)'
  <2>1. holder = v /\ At(v, "parked")
    BY <1>2, <1>10 DEF ToldInv, RunInv
  <2> QED  BY <1>3, <2>1 DEF RunInv, At, HasYes
<1>11. ASSUME NEW v \in Workers, call[v].phase \notin Unfinished PROVE RunInv(v)'
  BY <1>3, <1>11, RunIsOver
<1> QED  BY <1>9, <1>10, <1>11

\* Every step keeps it.
LEMMA ToldKept ==
    ASSUME TypeInv, YesInv, WaitsOnACard, ToldInv, [Next]_vars
    PROVE  ToldInv'
<1> SUFFICES ASSUME Quiet' PROVE CardsInv' /\ \A v \in Workers : RunInv(v)'
  BY DEF ToldInv
<1>0. Quiet /\ CardsInv /\ \A v \in Workers : RunInv(v)
  BY QuietBefore DEF ToldInv
<1>1. ASSUME NEW w \in Workers, Work(w) PROVE CardsInv' /\ \A v \in Workers : RunInv(v)'
  BY <1>0, <1>1, ToldWork
<1>2. ASSUME NEW w \in Workers, Begin(w) PROVE CardsInv' /\ \A v \in Workers : RunInv(v)'
  BY <1>0, <1>2, ToldBegin
<1>3. ASSUME NEW w \in Workers, Crash(w) \/ Restart(w)
      PROVE  CardsInv' /\ \A v \in Workers : RunInv(v)'
  <2>1. UNCHANGED <<task, turn, cards, asks>>
    BY <1>3 DEF Crash, Restart, bounds
  <2>2. CardsInv'
    BY <1>0, <2>1, CardsCalm DEF SameCards, task
  <2>3. call'[w].phase \notin Unfinished /\ \A v \in Workers : v # w => call'[v] = call[v]
    BY <1>3 DEF Crash, Restart, Leave, NoCall, Unfinished, TypeInv, TypeOK
  <2>4. ASSUME NEW v \in Workers, v # w PROVE RunInv(v)'
    <3>1. RunInv(v) /\ call'[v] = call[v]
      BY <1>0, <2>3, <2>4
    <3>2. Open' = Open
      BY <2>1 DEF Open
    <3>3. Yeses(call[v].of)' = Yeses(call[v].of) /\ (Interrupted(call[v].of)' <=> Interrupted(call[v].of))
      BY <2>1, <3>1 DEF Yeses, Interrupted
    <3> QED  BY <2>1, <3>1, <3>2, <3>3 DEF RunInv, At, task
  <2> QED  BY <2>2, <2>3, <2>4, RunIsOver
<1>4. CASE LeaseRunsOut
  <2>1. /\ UNCHANGED <<turn, cards, call, asks>>
        /\ status' = IF status = "running" THEN "pending" ELSE status
    BY <1>4 DEF LeaseRunsOut, TakeBack, bounds
  <2>2. CardsInv'
    BY <1>0, <2>1, CardsCalm DEF SameCards, Going
  <2>3. \A v \in Workers : call[v].phase \notin Unfinished
    BY <1>0, <1>4 DEF LeaseRunsOut, RunInv, Unfinished
  <2> QED  BY <2>1, <2>2, <2>3, RunIsOver
<1>5. ~LeaseIsLost
  BY <1>0 DEF LeaseIsLost, Quiet
<1>6. ~StopEverything
  BY DEF StopEverything, End, EndWith, Quiet, Terminal
<1>7. ASSUME NEW i \in DOMAIN cards, Approve(i) \/ Deny(i) \/ Ask(i) \/ Expire(i)
      PROVE  CardsInv' /\ \A v \in Workers : RunInv(v)'
  <2>1. ~Deny(i) /\ ~Expire(i)
    BY DEF Deny, Expire, CancelWith, EndWith, Quiet, Terminal
  <2> QED  BY <1>0, <1>7, <2>1, ToldApprove, ToldAsk
<1>8. CASE UNCHANGED vars
  <2>1. UNCHANGED <<status, holder, turn, cards, call, asks>>
    BY <1>8 DEF vars, task, bounds
  <2>2. CardsInv'
    BY <1>0, <2>1, CardsCalm DEF SameCards
  <2>3. ASSUME NEW v \in Workers PROVE RunInv(v)'
    BY <1>0, <2>1 DEF RunInv, At, Open, Yeses, Approved, Interrupted
  <2> QED  BY <2>2, <2>3
<1> QED
  BY <1>1, <1>2, <1>3, <1>4, <1>5, <1>6, <1>7, <1>8 DEF Next, Owner

\* The owner is told that it may have happened (broker.ts askOwner and
\* spentByInterruptedStep): as long as no run that stood still goes on, and
\* the owner asked one question, a card they have still to answer says so
\* whenever an earlier yes to the same is used.
THEOREM OwnerIsTold == Spec => []ToldItMayHaveHappened
<1>1. Init => ToldInv
  BY ApprovalsAssumption DEF Init, ToldInv, CardsInv, RunInv, Told, Open, Yeses, NoCall, Unfinished
<1>2. WaitsOnACard /\ ToldInv => ToldItMayHaveHappened
  BY DEF WaitsOnACard, ToldInv, CardsInv, Told, Quiet, ToldItMayHaveHappened
<1> QED
  BY <1>1, <1>2, ToldKept, YesesInOrder, OneCardIsOpen, PTL DEF Spec


-----------------------------------------------------------------------------
(* The state machine of a task.                                            *)

LEMMA Table ==
    /\ {"running", "cancelled"} \subseteq TS!Transitions["pending"]
    /\ {"completed", "waiting_approval", "waiting_window", "pending", "failed", "halted", "cancelled"}
          \subseteq TS!Transitions["running"]
    /\ {"running", "cancelled"} \subseteq TS!Transitions["waiting_approval"]
    /\ {"running", "cancelled"} \subseteq TS!Transitions["waiting_window"]
  BY DEF TS!Transitions, TS!Status

\* What moves a status along the table implements it.
LEMMA OneEdge ==
    ASSUME TypeInv, TypeInv', status' # status => status' \in TS!Transitions[status]
    PROVE  [TS!Next]_status
<1>1. status' \in TS!Status
  BY DEF TypeInv, TypeOK, Terminal, TS!Status
<1> QED
  BY <1>1 DEF TS!Next

\* Whatever the owner decides, asks or lets expire, and whoever has lost the task
\* and goes on with it, the status keeps to the table of domain/task.ts
\* (inbox.ts settleTask and expireOverdue, the engine's parking and ending of a
\* run, and the sweep, whose SQL does not ask the table).
THEOREM AnswersKeepToTheTable == Spec => StatusMachine
<1> DEFINE Edge == status' # status => status' \in TS!Transitions[status]
<1>1. ASSUME TypeInv, [Next]_vars PROVE Edge
  <2>0. status \in Terminal \cup {"pending", "running", "waiting_approval", "waiting_window"}
    BY <1>1 DEF TypeInv, TypeOK
  <2>1. ASSUME NEW w \in Workers, Work(w) PROVE Edge
    <3>1. \A to : End(to) => status' = to
      BY DEF End, EndWith
    <3>2. ~UNCHANGED status => RequestApproval(w) \/ Unverified(w) \/ Answer(w) \/ Fail(w)
      BY <2>1 DEF Work, Confirm, ClaimStep, FindGrantedApproval, SpendApproval, AskOwner, Act, Refuse,
         ReturnApproval, ConfirmCommit, Commit, Park, task
    <3>3. RequestApproval(w) => Edge
      BY Table DEF RequestApproval
    <3>4. Unverified(w) \/ Answer(w) => Edge
      BY <3>1, Table DEF Unverified, Answer
    <3>5. Fail(w) => Edge
      BY <3>1, Table DEF Fail, Charged, task
    <3> QED  BY <3>2, <3>3, <3>4, <3>5
  <2>2. ASSUME NEW w \in Workers, Begin(w) PROVE Edge
    BY <2>2, Table DEF Begin
  <2>3. CASE TakeBack
    BY <2>0, <2>3, Table DEF TakeBack
  <2>4. CASE UNCHANGED status
    BY <2>4
  <2>5. CASE StopEverything
    BY <2>0, <2>5, Table DEF StopEverything, End, EndWith, Terminal
  <2>6. ASSUME NEW i \in DOMAIN cards, Approve(i) \/ Ask(i) PROVE Edge
    BY <2>0, <2>6, Table DEF Approve, Ask, GoesOn
  <2>7. ASSUME NEW i \in DOMAIN cards, Deny(i) \/ Expire(i) PROVE Edge
    <3>1. status' = status \/ (status \notin Terminal /\ status' = "cancelled")
      BY <2>7 DEF Deny, Expire, CancelWith, EndWith
    <3> QED  BY <2>0, <3>1, Table
  <2> HIDE DEF Edge
  <2> QED
    BY <1>1, <2>1, <2>2, <2>3, <2>4, <2>5, <2>6, <2>7
       DEF Next, Owner, LeaseRunsOut, LeaseIsLost, Crash, Restart, task, vars
<1>2. TypeInv /\ TypeInv' /\ [Next]_vars => [TS!Next]_status
  BY <1>1, OneEdge
<1> QED
  BY <1>2, Types, PTL DEF Spec, StatusMachine
=============================================================================
