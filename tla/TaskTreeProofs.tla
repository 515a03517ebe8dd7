--------------------------- MODULE TaskTreeProofs ---------------------------
(* How far a tree outgrows its bounds and outlives its end, and what the    *)
(* ledger of handoffs is worth, for every tree, every number of steps in    *)
(* flight and of workers, and every limit.                                  *)
EXTENDS TaskTree, FiniteSetTheorems, TLAPS

\* A step makes a sub-task that is no successor, and is at nothing else.
StepsAsk ==
    \A m \in Runs : call[m].at # "off" =>
        /\ call[m].at \in {"look", "insert"}
        /\ call[m].child \in Tasks \ Successors /\ call[m].child # Root

\* A handoff is of a completed task, and makes its successor.
HandoffsAreOwed ==
    \A w \in Workers : call[w].at \in {"look", "insert", "record"} =>
        /\ call[w].of \in Tasks /\ status[call[w].of] = "completed"
        /\ call[w].child \in Successor(call[w].of)

\* What is about to be recorded is so.
SaysWhatIs ==
    \A w \in Workers : call[w].at = "record" =>
        /\ call[w].says = "created" => status[call[w].child] # "none"
        /\ call[w].says = "final" => Limited(call[w].child)

\* The steps past the count, and the successor past it: one, whoever makes it.
Calling(p) == {m \in Runs : call[m].at = "insert" /\ Parent[call[m].child] = p}
Coming(p) == {s \in Successor(p) : /\ status[s] = "none"
                                   /\ \E w \in Workers : call[w].at = "insert" /\ call[w].child = s}

\* Tasks that are there and those past the count keep to the bound together.
RoomForAll ==
    \A p \in Tasks :
        /\ IsFiniteSet(Children(p))
        /\ Cardinality(Children(p)) + Cardinality(Calling(p)) + Cardinality(Coming(p))
              <= FanOutMax + Cardinality(Runs)

\* The steps that have confirmed their lease of p.
Asking(p) == {m \in Runs : call[m].at \in {"look", "insert"} /\ Parent[call[m].child] = p}

LiveUnder(p) == {u \in Children(p) : status[u] = "live"}

\* Live sub-tasks of a cancelled task are of steps that have made theirs.
EachOfAStep ==
    \A p \in Tasks : status[p] = "cancelled" =>
        Cardinality(LiveUnder(p)) + Cardinality(Asking(p)) <= Cardinality(Runs)

\* What a pass has read is a batch at most.
ListsAreFinite == \A w \in Workers : IsFiniteSet(call[w].list)

IInv == /\ TypeOK /\ ListsAreFinite /\ StepsAsk /\ HandoffsAreOwed /\ SaysWhatIs
        /\ RoomForAll /\ EachOfAStep /\ LedgerIsTrue

-----------------------------------------------------------------------------
(* Types.                                                                  *)

LEMMA InitTypes == Init => TypeOK /\ ListsAreFinite
<1> SUFFICES ASSUME Init PROVE TypeOK /\ ListsAreFinite
  OBVIOUS
<1>1. Off \in CallType
  BY DEF Off, CallType, Steps, Outcomes
<1>2. \A w \in Workers : w \in Makers /\ call[w].list = {}
  BY DEF Init, Off, Makers
<1>3. ListsAreFinite
  BY <1>2, FS_EmptySet DEF ListsAreFinite
<1>4. status \in [Tasks -> TaskStatuses] /\ ledger \in [Tasks -> Outcomes]
  BY DEF Init, TaskStatuses, Outcomes
<1>5. finished \in Seq(Tasks) /\ DOMAIN finished = {} /\ aged \in 0 .. Len(finished)
  BY DEF Init
<1>6. crashes \in 0 .. MaxCrashes /\ refusing \in {"no", "paused", "poor"}
  BY TreeAssumption DEF Init
<1>7. call \in [Makers -> CallType]
  BY <1>1 DEF Init
<1> QED BY <1>2, <1>3, <1>4, <1>5, <1>6, <1>7 DEF TypeOK

\* A task that has ended stays as it ended, and a task that is made is there for good.
LEMMA TasksGoOneWay ==
    ASSUME TypeOK, [Next]_vars, NEW t \in Tasks
    PROVE  /\ status[t] \notin {"none", "live"} => status'[t] = status[t]
           /\ status[t] # "none" => status'[t] # "none"
<1>1. CASE UNCHANGED status
  BY <1>1
<1>2. CASE \E s : Insert(s)
  BY <1>2 DEF Insert, TypeOK
<1>3. CASE \E u \in Tasks : End(u)
  BY <1>3 DEF End, Ends, TypeOK
<1>4. CASE \E u \in Tasks : Cancel(u)
  BY <1>4 DEF Cancel, TypeOK
<1> QED
  BY <1>1, <1>2, <1>3, <1>4
     DEF Next, vars, Pass, Ask, Look, Make, List, TakeUp, Say, LookHandoff, MakeSuccessor, Record,
         Fails, CutOff, Refuse, Ages

\* The list a pass makes: a batch of places at most, with what their rows say.
LEMMA ListIsABatch ==
    ASSUME TypeOK, NEW list, NEW taken, taken = BatchOf(OwedPlaces),
           list = {[at |-> i, row |-> ledger[finished[i]]] : i \in taken}
    PROVE  /\ list \in SUBSET Rows /\ IsFiniteSet(list)
           /\ \A x \in list : /\ x.at \in DOMAIN finished
                              /\ Cardinality({y \in list : y.at < x.at}) < Batch
<1> DEFINE RowOf(i) == [at |-> i, row |-> ledger[finished[i]]]
<1>1. Len(finished) \in Nat /\ DOMAIN finished = 1 .. Len(finished) /\ finished \in [DOMAIN finished -> Tasks]
  BY DEF TypeOK
<1>2. taken \subseteq OwedPlaces /\ OwedPlaces \subseteq DOMAIN finished
  <2>1. aged \in Nat
    BY <1>1 DEF TypeOK
  <2> QED BY <2>1, <1>1 DEF BatchOf, OwedPlaces
<1>3. \A i \in taken : RowOf(i) \in Rows
  BY <1>1, <1>2 DEF Rows, TypeOK
<1>4. IsFiniteSet(DOMAIN finished) /\ IsFiniteSet(OwedPlaces)
  BY <1>1, <1>2, FS_Interval, FS_Subset
<1>5. \A x \in list : x.at \in taken /\ x = RowOf(x.at)
  OBVIOUS
<1>6. ASSUME NEW T \in SUBSET list, NEW S \in SUBSET OwedPlaces, \A x \in T : x.at \in S
      PROVE  IsFiniteSet(T) /\ Cardinality(T) <= Cardinality(S)
  <2> DEFINE place == [x \in T |-> x.at]
  <2>1. IsFiniteSet(S)
    BY <1>4, FS_Subset
  <2>2. \A x \in T : x = RowOf(x.at)
    BY <1>5
  <2>3. \A x, y \in T : x.at = y.at => x = y
    BY <2>2
  <2>4. place \in [T -> S] /\ \A x, y \in T : place[x] = place[y] => x = y
    BY <1>6, <2>3
  <2>5. place \in Injection(T, S)
    BY <2>4 DEF Injection, IsInjective
  <2> QED BY <2>1, <2>5, FS_Injection
<1>7. IsFiniteSet(list)
  <2>1. \A x \in list : x.at \in OwedPlaces
    BY <1>2, <1>5
  <2> QED BY <2>1, <1>6
<1>8. ASSUME NEW x \in list
      PROVE  /\ x.at \in DOMAIN finished
             /\ Cardinality({y \in list : y.at < x.at}) < Batch
  <2> DEFINE S == {j \in OwedPlaces : j < x.at}
             T == {y \in list : y.at < x.at}
  <2>1. x.at \in taken
    BY <1>5
  <2>2. Cardinality(S) < Batch
    BY <2>1 DEF BatchOf
  <2>3. \A y \in T : y.at \in S
    BY <1>2, <1>5
  <2>4. Cardinality(T) <= Cardinality(S)
    BY <2>3, <1>6
  <2>5. IsFiniteSet(S) /\ IsFiniteSet(T) /\ Cardinality(S) \in Nat /\ Cardinality(T) \in Nat
    BY <1>4, <1>7, FS_Subset, FS_CardinalityType
  <2> QED BY <2>1, <2>2, <2>4, <2>5, <1>2, TreeAssumption
<1> QED BY <1>3, <1>5, <1>7, <1>8


\* What a step of one caller leaves to show: its own record.
LEMMA OneCallTyped ==
    ASSUME TypeOK, ListsAreFinite, NEW m \in Makers, NEW c \in CallType,
           call' = [call EXCEPT ![m] = c],
           UNCHANGED <<finished, aged>>, \A i \in DOMAIN finished : status'[finished[i]] = "completed",
           m \in Workers => /\ IsFiniteSet(c.list)
                            /\ \A x \in c.list : /\ x.at \in DOMAIN finished
                                                 /\ Cardinality({y \in c.list : y.at < x.at}) < Batch,
           status' \in [Tasks -> TaskStatuses], ledger' \in [Tasks -> Outcomes],
           refusing' \in {"no", "paused", "poor"}, crashes' \in 0 .. MaxCrashes
    PROVE  TypeOK' /\ ListsAreFinite'
<1>1. \A w \in Workers : w \in Makers /\ call'[w] = IF w = m THEN c ELSE call[w]
  BY DEF TypeOK, Makers
<1>2. call' \in [Makers -> CallType]
  BY DEF TypeOK
<1>3. ListsAreFinite'
  BY <1>1 DEF ListsAreFinite
<1>4. ASSUME NEW w \in Workers, NEW x \in call'[w].list
      PROVE  /\ x.at \in DOMAIN finished
             /\ Cardinality({y \in call'[w].list : y.at < x.at}) < Batch
  <2>1. CASE w = m
    BY <2>1, <1>1
  <2>2. CASE w # m
    BY <2>2, <1>1 DEF TypeOK
  <2> QED BY <2>1, <2>2
<1>5. /\ finished' \in Seq(Tasks) /\ \A i \in DOMAIN finished' : status'[finished'[i]] = "completed"
      /\ aged' \in 0 .. Len(finished')
  BY DEF TypeOK
<1> QED BY <1>2, <1>3, <1>4, <1>5 DEF TypeOK

\* Less of a list is a list.
LEMMA LessOfAList ==
    ASSUME TypeOK, ListsAreFinite, NEW w \in Workers, NEW list \in SUBSET call[w].list
    PROVE  /\ IsFiniteSet(list) /\ list \in SUBSET Rows
           /\ \A x \in list : /\ x.at \in DOMAIN finished
                              /\ Cardinality({y \in list : y.at < x.at}) < Batch
<1>1. w \in Makers /\ call[w] \in CallType
  BY DEF TypeOK, Makers
<1>2. call[w].list \in SUBSET Rows /\ IsFiniteSet(call[w].list)
  BY <1>1 DEF CallType, ListsAreFinite
<1>3. ASSUME NEW x \in list
      PROVE  x.at \in DOMAIN finished /\ Cardinality({y \in list : y.at < x.at}) < Batch
  <2> DEFINE T == {y \in call[w].list : y.at < x.at}
             L == {y \in list : y.at < x.at}
  <2>1. IsFiniteSet(T) /\ Cardinality(T) < Batch /\ x.at \in DOMAIN finished
    BY <1>2, FS_Subset DEF TypeOK
  <2>2. L \in SUBSET T
    OBVIOUS
  <2>3. IsFiniteSet(L) /\ Cardinality(L) <= Cardinality(T)
    BY <2>1, <2>2, FS_Subset
  <2>4. Cardinality(L) \in Nat /\ Cardinality(T) \in Nat
    BY <2>1, <2>3, FS_CardinalityType
  <2> QED BY <2>1, <2>3, <2>4, TreeAssumption
<1> QED BY <1>2, <1>3, FS_Subset

LEMMA TypeStep == IInv /\ [Next]_vars => TypeOK' /\ ListsAreFinite'
<1> SUFFICES ASSUME IInv, [Next]_vars PROVE TypeOK' /\ ListsAreFinite'
  OBVIOUS
<1> USE DEF IInv
<1>1. \A i \in DOMAIN finished : finished[i] \in Tasks
  BY DEF TypeOK
<1>2. \A i \in DOMAIN finished : status'[finished[i]] = "completed"
  BY <1>1, TasksGoOneWay DEF TypeOK
<1>3. /\ Off \in CallType /\ \A m \in Makers : call[m] \in CallType
      /\ \A m \in Runs : m \in Makers
      /\ \A w \in Workers : w \in Makers /\ w \notin Runs
  BY TreeAssumption DEF Off, CallType, Steps, Outcomes, TypeOK, Makers
<1>4. \A w \in Workers : call[w].at \in {"look", "insert", "record"} => call[w].child \in Tasks
  BY TreeAssumption DEF HandoffsAreOwed, Successor
<1>5. \A t : Found(t) \in {"lifts", "created", "final", "room"} /\ Inserted(t) \in {"lifts", "created"}
  BY DEF Found, Inserted
<1>6. \A t : Insert(t) => status' \in [Tasks -> TaskStatuses]
  BY DEF Insert, TypeOK, TaskStatuses
<1>7. \A w \in Workers :
         LET c == call[w] IN /\ IsFiniteSet(c.list)
                             /\ \A x \in c.list : /\ x.at \in DOMAIN finished
                                                  /\ Cardinality({y \in c.list : y.at < x.at}) < Batch
  BY DEF TypeOK, ListsAreFinite
<1>8. IsFiniteSet(Off.list) /\ Off.list = {}
  BY FS_EmptySet DEF Off
<1>9. CASE UNCHANGED vars
  BY <1>9 DEF vars, TypeOK, ListsAreFinite
<1>10. ASSUME NEW m \in Runs, NEW t \in Tasks, Ask(m, t) PROVE TypeOK' /\ ListsAreFinite'
  <2> DEFINE c == [Off EXCEPT !.at = "look", !.child = t]
  <2>1. c \in CallType /\ call' = [call EXCEPT ![m] = c]
    BY <1>10, <1>3 DEF Ask, CallType, Steps
  <2> HIDE DEF c
  <2> QED BY <1>10, <1>2, <1>3, <2>1, OneCallTyped DEF Ask, TypeOK
<1>11. ASSUME NEW m \in Runs, Look(m) PROVE TypeOK' /\ ListsAreFinite'
  <2> DEFINE c == IF Found(call[m].child) = "room" THEN [call[m] EXCEPT !.at = "insert"] ELSE Off
  <2>1. c \in CallType
    BY <1>3 DEF CallType, Steps
  <2>2. call' = [call EXCEPT ![m] = c]
    BY <1>11, <1>3 DEF Look, TypeOK
  <2> HIDE DEF c
  <2> QED BY <1>11, <1>2, <1>3, <2>1, <2>2, OneCallTyped DEF Look, TypeOK
<1>12. ASSUME NEW m \in Runs, Make(m) PROVE TypeOK' /\ ListsAreFinite'
  BY <1>12, <1>2, <1>3, <1>6, OneCallTyped DEF Make, TypeOK
<1>13. ASSUME NEW w \in Workers, List(w) PROVE TypeOK' /\ ListsAreFinite'
  <2> DEFINE taken == BatchOf(OwedPlaces)
             list == {[at |-> i, row |-> ledger[finished[i]]] : i \in taken}
             c == [Off EXCEPT !.at = "next", !.list = list]
  <2>1. call' = [call EXCEPT ![w] = c]
    BY <1>13 DEF List
  <2>2. /\ list \in SUBSET Rows /\ IsFiniteSet(list)
        /\ \A x \in list : /\ x.at \in DOMAIN finished
                           /\ Cardinality({y \in list : y.at < x.at}) < Batch
    <3> HIDE DEF taken, list
    <3> QED BY ListIsABatch DEF taken, list
  <2> HIDE DEF list
  <2>3. c \in CallType /\ c.list = list
    BY <2>2, <1>3 DEF CallType, Steps, Off
  <2> HIDE DEF c
  <2> QED BY <1>13, <1>2, <1>3, <2>1, <2>2, <2>3, OneCallTyped DEF List, TypeOK
<1>14. ASSUME NEW w \in Workers, TakeUp(w) PROVE TypeOK' /\ ListsAreFinite'
  <2>1. PICK x \in call[w].list : \E s \in Successor(finished[x.at]) :
          LET there == x.row = "none" /\ status[s] # "none" IN
             call' = [call EXCEPT ![w] =
                [at |-> IF there THEN "record" ELSE "look", of |-> finished[x.at], child |-> s,
                 list |-> call[w].list \ {x}, says |-> IF there THEN "created" ELSE "none"]]
    BY <1>14 DEF TakeUp
  <2>2. PICK s \in Successor(finished[x.at]) :
          LET there == x.row = "none" /\ status[s] # "none" IN
             call' = [call EXCEPT ![w] =
                [at |-> IF there THEN "record" ELSE "look", of |-> finished[x.at], child |-> s,
                 list |-> call[w].list \ {x}, says |-> IF there THEN "created" ELSE "none"]]
    BY <2>1
  <2> DEFINE there == x.row = "none" /\ status[s] # "none"
             list == call[w].list \ {x}
             c == [at |-> IF there THEN "record" ELSE "look", of |-> finished[x.at], child |-> s,
                   list |-> list, says |-> IF there THEN "created" ELSE "none"]
  <2>3. list \in SUBSET call[w].list /\ x.at \in DOMAIN finished
    BY <1>7
  <2> HIDE DEF list
  <2>4. /\ IsFiniteSet(list) /\ list \in SUBSET Rows
        /\ \A y \in list : /\ y.at \in DOMAIN finished
                           /\ Cardinality({z \in list : z.at < y.at}) < Batch
    BY <2>3, LessOfAList
  <2>5. c \in CallType /\ c.list = list
    BY <2>3, <2>4, <1>1, TreeAssumption DEF CallType, Steps, Outcomes, Successor
  <2>6. call' = [call EXCEPT ![w] = c]
    BY <2>2 DEF list
  <2> HIDE DEF c
  <2> QED BY <1>14, <1>2, <1>3, <2>4, <2>5, <2>6, OneCallTyped DEF TakeUp, TypeOK
<1>15. ASSUME NEW w \in Workers, LookHandoff(w) PROVE TypeOK' /\ ListsAreFinite'
  <2> DEFINE s == call[w].child
             c == IF Found(s) = "room" THEN [call[w] EXCEPT !.at = "insert"]
                  ELSE [call[w] EXCEPT !.at = "record", !.child = s, !.says = Found(s)]
  <2>1. c \in CallType /\ c.list = call[w].list
    BY <1>3, <1>5 DEF CallType, Steps, Outcomes
  <2>2. call' = [call EXCEPT ![w] = c]
    BY <1>15, <1>3 DEF LookHandoff, Say, TypeOK
  <2> HIDE DEF c
  <2> QED BY <1>15, <1>2, <1>3, <1>7, <2>1, <2>2, OneCallTyped DEF LookHandoff, TypeOK
<1>16. ASSUME NEW w \in Workers, MakeSuccessor(w) PROVE TypeOK' /\ ListsAreFinite'
  <2> DEFINE s == call[w].child
             c == [call[w] EXCEPT !.at = "record", !.child = s, !.says = Inserted(s)]
  <2>1. c \in CallType /\ c.list = call[w].list
    BY <1>3, <1>5 DEF CallType, Steps, Outcomes
  <2>2. call' = [call EXCEPT ![w] = c]
    BY <1>16, <1>3 DEF MakeSuccessor, Say, TypeOK
  <2> HIDE DEF c
  <2> QED BY <1>16, <1>2, <1>3, <1>6, <1>7, <2>1, <2>2, OneCallTyped DEF MakeSuccessor, TypeOK
<1>17. ASSUME NEW w \in Workers, Record(w) PROVE TypeOK' /\ ListsAreFinite'
  <2> DEFINE c == IF call[w].list = {} THEN Off ELSE [Off EXCEPT !.at = "next", !.list = call[w].list]
  <2>1. c \in CallType /\ (c.list = call[w].list \/ c = Off)
    BY <1>3 DEF CallType, Steps, Off
  <2>2. call' = [call EXCEPT ![w] = c] /\ ledger' \in [Tasks -> Outcomes]
    BY <1>17, <1>3 DEF Record, TypeOK, CallType
  <2> HIDE DEF c
  <2>3. /\ IsFiniteSet(c.list)
        /\ \A x \in c.list : /\ x.at \in DOMAIN finished
                             /\ Cardinality({y \in c.list : y.at < x.at}) < Batch
    <3>1. CASE c.list = call[w].list
      BY <3>1, <1>7
    <3>2. CASE c = Off
      BY <3>2, <1>8
    <3> QED BY <2>1, <3>1, <3>2
  <2> QED BY <1>17, <1>2, <1>3, <2>1, <2>2, <2>3, OneCallTyped DEF Record, TypeOK
<1>18. ASSUME NEW w \in Workers, CutOff(w) PROVE TypeOK' /\ ListsAreFinite'
  <2>1. crashes' \in 0 .. MaxCrashes
    BY <1>18, TreeAssumption DEF CutOff, TypeOK
  <2> QED BY <1>18, <1>2, <1>3, <1>8, <2>1, OneCallTyped DEF CutOff, TypeOK
<1>22. ASSUME NEW w \in Workers, Fails(w) PROVE TypeOK' /\ ListsAreFinite'
  <2> DEFINE s == call[w].child
             c == [call[w] EXCEPT !.at = "record", !.child = s, !.says = "failed"]
  <2>1. c \in CallType /\ c.list = call[w].list
    BY <1>3 DEF CallType, Steps, Outcomes
  <2>2. call' = [call EXCEPT ![w] = c]
    BY <1>22, <1>3 DEF Fails, Say, TypeOK
  <2>3. crashes' \in 0 .. MaxCrashes /\ status' \in [Tasks -> TaskStatuses]
    BY <1>22, <1>6, TreeAssumption DEF Fails, TypeOK
  <2> HIDE DEF c
  <2> QED BY <1>22, <1>2, <1>3, <1>7, <2>1, <2>2, <2>3, OneCallTyped DEF Fails, TypeOK
<1>19. ASSUME NEW t \in Tasks, End(t) PROVE TypeOK' /\ ListsAreFinite'
  <2>1. status' \in [Tasks -> TaskStatuses] /\ ledger' \in [Tasks -> Outcomes]
    BY <1>19 DEF End, Ends, TypeOK, TaskStatuses
  <2>2. /\ finished' \in Seq(Tasks) /\ \A i \in DOMAIN finished : i \in DOMAIN finished'
        /\ \A i \in DOMAIN finished' : status'[finished'[i]] = "completed"
        /\ aged' \in 0 .. Len(finished')
    <3>1. CASE finished' = finished
      BY <3>1, <1>2, <1>19 DEF TypeOK, End
    <3>2. CASE finished' = Append(finished, t) /\ status' = [status EXCEPT ![t] = "completed"]
      BY <3>2, <1>2, <1>19 DEF TypeOK, End
    <3> QED BY <3>1, <3>2, <1>19 DEF End, Ends
  <2> QED BY <1>19, <2>1, <2>2 DEF End, Ends, TypeOK, ListsAreFinite
<1>20. ASSUME NEW t \in Tasks, Cancel(t) PROVE TypeOK' /\ ListsAreFinite'
  BY <1>20, <1>2 DEF Cancel, TypeOK, ListsAreFinite, TaskStatuses
<1>21. CASE Refuse
  BY <1>21 DEF Refuse, TypeOK, ListsAreFinite
<1>23. CASE Ages
  <2>1. aged' \in 0 .. Len(finished)
    <3>1. Len(finished) \in Nat /\ aged \in 0 .. Len(finished)
      BY DEF TypeOK
    <3> QED BY <1>23, <3>1 DEF Ages
  <2> QED BY <1>23, <2>1 DEF Ages, TypeOK, ListsAreFinite
<1> QED
  BY <1>9, <1>10, <1>11, <1>12, <1>13, <1>14, <1>15, <1>16, <1>17, <1>18, <1>19, <1>20, <1>21, <1>22, <1>23
     DEF Next, Pass


-----------------------------------------------------------------------------
(* Calls.                                                                  *)

\* A step makes one task at most, and the tasks under another are finitely many.
LEMMA ChildrenGrow ==
    ASSUME TypeOK, [Next]_vars, NEW p \in Tasks, IsFiniteSet(Children(p))
    PROVE  /\ IsFiniteSet(Children(p)')
           /\ Children(p) \subseteq Children(p)'
           /\ Cardinality(Children(p)) \in Nat /\ Cardinality(Children(p)') \in Nat
           /\ Cardinality(Children(p)) <= Cardinality(Children(p)')
<1>1. Children(p) \subseteq Children(p)'
  BY TasksGoOneWay DEF Children
<1>2. \E s : Children(p)' \subseteq Children(p) \cup {s}
  <2>1. CASE UNCHANGED status
    BY <2>1 DEF Children
  <2>2. ASSUME NEW s, Insert(s) PROVE Children(p)' \subseteq Children(p) \cup {s}
    BY <2>2 DEF Insert, TypeOK, Children
  <2>3. CASE \E u \in Tasks : End(u)
    BY <2>3 DEF End, Ends, TypeOK, Children
  <2>4. CASE \E u \in Tasks : Cancel(u)
    BY <2>4 DEF Cancel, TypeOK, Children
  <2> QED
    BY <2>1, <2>2, <2>3, <2>4
       DEF Next, vars, Pass, Ask, Look, Make, List, TakeUp, Say, LookHandoff, MakeSuccessor, Record,
           Fails, CutOff, Refuse, Ages
<1>3. IsFiniteSet(Children(p)')
  <2>1. PICK s : Children(p)' \subseteq Children(p) \cup {s}
    BY <1>2
  <2> QED BY <2>1, FS_AddElement, FS_Subset
<1> QED BY <1>1, <1>3, FS_Subset, FS_CardinalityType

\* A limit that is reached stays reached.
LEMMA LimitedForGood ==
    ASSUME TypeOK, RoomForAll, [Next]_vars, NEW s \in Tasks, Parent[s] \in Tasks, Limited(s)
    PROVE  Limited(s)'
<1> DEFINE p == Parent[s]
<1>1. IsFiniteSet(Children(p))
  BY DEF RoomForAll
<1>2. ~Room(p) => ~Room(p)'
  BY <1>1, ChildrenGrow, TreeAssumption DEF Room
<1> QED BY <1>2 DEF Limited, HopDepth

\* Whoever takes a step, the records of the others are as they were.
StepOf(n) == Look(n) \/ Make(n) \/ (\E t \in Tasks : Ask(n, t)) \/ Pass(n) \/ Fails(n) \/ CutOff(n)

LEMMA OthersKeep ==
    ASSUME TypeOK, NEW m \in Makers, NEW n \in Makers, n # m, StepOf(n)
    PROVE  call'[m] = call[m]
BY DEF TypeOK, StepOf, Look, Make, Ask, Pass, List, TakeUp, LookHandoff, Say, MakeSuccessor, Record, Fails, CutOff

\* Whoever's step it is.
LEMMA StepsAreOf ==
    ASSUME TypeOK, [Next]_vars, NEW m \in Makers, call'[m] # call[m]
    PROVE  \/ m \in Runs /\ (Look(m) \/ Make(m) \/ \E t \in Tasks : Ask(m, t))
           \/ m \in Workers /\ (Pass(m) \/ Fails(m) \/ CutOff(m))
<1>1. \A n \in Makers : n # m => ~ StepOf(n)
  BY OthersKeep
<1> QED BY <1>1 DEF StepOf, Makers, Next, vars, End, Cancel, Refuse, Ages

LEMMA StepsStep == IInv /\ [Next]_vars => StepsAsk'
<1> SUFFICES ASSUME IInv, [Next]_vars, NEW m \in Runs, call'[m].at # "off"
             PROVE  /\ call'[m].at \in {"look", "insert"}
                    /\ call'[m].child \in Tasks \ Successors /\ call'[m].child # Root
  BY DEF StepsAsk
<1> USE DEF IInv
<1>1. m \in Makers /\ m \notin Workers /\ call[m] \in CallType /\ Off.at = "off"
  BY TreeAssumption DEF Makers, TypeOK, Off
<1>2. call[m].at # "off" => /\ call[m].at \in {"look", "insert"}
                            /\ call[m].child \in Tasks \ Successors /\ call[m].child # Root
  BY DEF StepsAsk
<1>3. CASE call'[m] = call[m]
  BY <1>2, <1>3
<1>4. CASE \E t \in Tasks : Ask(m, t)
  BY <1>1, <1>4 DEF Ask, TypeOK, Off
<1>5. CASE Look(m)
  BY <1>1, <1>2, <1>5 DEF Look, TypeOK, CallType, Off
<1>6. CASE Make(m)
  BY <1>1, <1>2, <1>6 DEF Make, TypeOK, Off
<1> QED BY <1>1, <1>3, <1>4, <1>5, <1>6, StepsAreOf

LEMMA HandoffsStep == IInv /\ [Next]_vars => HandoffsAreOwed' /\ SaysWhatIs'
<1> DEFINE Then(s) == \/ HopDepth(s) > HopMax \/ s \in Cyclic
                      \/ ~(Cardinality({t \in Tasks : Parent[t] = Parent[s] /\ status'[t] # "none"}) < FanOutMax)
<1> SUFFICES ASSUME IInv, [Next]_vars, NEW w \in Workers
             PROVE  /\ call'[w].at \in {"look", "insert", "record"} =>
                          /\ call'[w].of \in Tasks /\ status'[call'[w].of] = "completed"
                          /\ call'[w].child \in Successor(call'[w].of)
                    /\ call'[w].at = "record" =>
                          /\ call'[w].says = "created" => status'[call'[w].child] # "none"
                          /\ call'[w].says = "final" => Then(call'[w].child)
  BY DEF HandoffsAreOwed, SaysWhatIs, Successor, Limited, Room, Children, HopDepth
<1> USE DEF IInv
<1>10. \A s \in Tasks : Parent[s] \in Tasks /\ Limited(s) => Then(s)
  BY LimitedForGood DEF Limited, Room, Children, HopDepth
<1> HIDE DEF Then
<1>1. w \in Makers /\ w \notin Runs /\ call[w] \in CallType /\ Off.at = "off"
  BY TreeAssumption DEF Makers, TypeOK, Off
<1>2. call[w].at \in {"look", "insert", "record"} =>
         /\ call[w].of \in Tasks /\ status[call[w].of] = "completed"
         /\ call[w].child \in Successor(call[w].of) /\ call[w].child \in Tasks
         /\ Parent[call[w].child] = call[w].of
  BY TreeAssumption DEF HandoffsAreOwed, Successor
<1>3. \A t \in Tasks : /\ status[t] = "completed" => status'[t] = "completed"
                       /\ status[t] # "none" => status'[t] # "none"
  BY TasksGoOneWay
<1>4. call[w].at \in {"look", "insert", "record"} =>
         (Limited(call[w].child) => Then(call[w].child))
  BY <1>10, <1>2
<1>5. CASE call'[w] = call[w]
  BY <1>2, <1>3, <1>4, <1>5 DEF SaysWhatIs
<1>6. CASE List(w) \/ Record(w) \/ CutOff(w)
  <2>1. call'[w].at \in {"off", "next"}
    BY <1>1, <1>6 DEF List, Record, CutOff, TypeOK, Off
  <2> QED BY <2>1
<1>7. CASE TakeUp(w)
  <2>1. PICK x \in call[w].list : \E s \in Successor(finished[x.at]) :
          LET there == x.row = "none" /\ status[s] # "none" IN
             call' = [call EXCEPT ![w] =
                [at |-> IF there THEN "record" ELSE "look", of |-> finished[x.at], child |-> s,
                 list |-> call[w].list \ {x}, says |-> IF there THEN "created" ELSE "none"]]
    BY <1>7 DEF TakeUp
  <2>2. PICK s \in Successor(finished[x.at]) :
          LET there == x.row = "none" /\ status[s] # "none" IN
             call' = [call EXCEPT ![w] =
                [at |-> IF there THEN "record" ELSE "look", of |-> finished[x.at], child |-> s,
                 list |-> call[w].list \ {x}, says |-> IF there THEN "created" ELSE "none"]]
    BY <2>1
  <2>3. x.at \in DOMAIN finished /\ finished[x.at] \in Tasks /\ status[finished[x.at]] = "completed"
    <3>1. x.at \in DOMAIN finished
      BY DEF TypeOK
    <3> QED BY <3>1 DEF TypeOK
  <2>4. /\ call'[w].of = finished[x.at] /\ call'[w].child = s
        /\ call'[w].at \in {"record", "look"} /\ call'[w].says \in {"created", "none"}
        /\ call'[w].at = "record" => status[s] # "none"
    BY <1>1, <2>2 DEF TypeOK
  <2>5. s \in Tasks
    BY TreeAssumption DEF Successor
  <2> QED BY <2>3, <2>4, <2>5, <1>3
<1>8. CASE LookHandoff(w)
  <2> DEFINE s == call[w].child
  <2>1. call[w].at = "look"
    BY <1>8 DEF LookHandoff
  <2>2. CASE Found(s) = "room"
    <3>1. call'[w] = [call[w] EXCEPT !.at = "insert"]
      BY <1>1, <1>8, <2>2 DEF LookHandoff, TypeOK
    <3> QED BY <3>1, <2>1, <1>1, <1>2, <1>3 DEF CallType
  <2>3. CASE Found(s) # "room"
    <3>1. call'[w] = [call[w] EXCEPT !.at = "record", !.child = s, !.says = Found(s)]
      BY <1>1, <1>8, <2>3 DEF LookHandoff, TypeOK, Say
    <3>2. Found(s) = "created" => status[s] # "none"
      BY DEF Found
    <3>3. Found(s) = "final" => Limited(s)
      BY DEF Found
    <3>4. call'[w].of = call[w].of /\ call'[w].child = s /\ call'[w].says = Found(s)
      BY <3>1, <1>1 DEF CallType
    <3> QED BY <3>2, <3>3, <3>4, <2>1, <1>2, <1>3, <1>4
  <2> QED BY <2>2, <2>3
<1>9. CASE MakeSuccessor(w)
  <2> DEFINE s == call[w].child
  <2>1. call[w].at = "insert" /\ Insert(s)
    BY <1>9 DEF MakeSuccessor
  <2>2. call'[w] = [call[w] EXCEPT !.at = "record", !.child = s, !.says = Inserted(s)]
    BY <1>1, <1>9 DEF MakeSuccessor, TypeOK, Say
  <2>3. call'[w].of = call[w].of /\ call'[w].child = s /\ call'[w].says = Inserted(s)
    BY <2>2, <1>1 DEF CallType
  <2>4. Inserted(s) = "created" => status'[s] # "none"
    BY <2>1, <1>2 DEF Inserted, Insert, TypeOK
  <2>5. Inserted(s) # "final"
    BY DEF Inserted
  <2> QED BY <2>1, <2>3, <2>4, <2>5, <1>2, <1>3
<1>11. CASE Fails(w)
  <2> DEFINE s == call[w].child
  <2>1. call[w].at \in {"look", "insert"}
    BY <1>11 DEF Fails
  <2>2. call'[w] = [call[w] EXCEPT !.at = "record", !.child = s, !.says = "failed"]
    BY <1>1, <1>11 DEF Fails, TypeOK, Say
  <2>3. call'[w].of = call[w].of /\ call'[w].child = s /\ call'[w].says = "failed"
    BY <2>2, <1>1 DEF CallType
  <2> QED BY <2>1, <2>3, <1>2, <1>3
<1> QED BY <1>1, <1>5, <1>6, <1>7, <1>8, <1>9, <1>11, StepsAreOf DEF Pass

LEMMA LedgerStep == IInv /\ [Next]_vars => LedgerIsTrue'
<1> SUFFICES ASSUME IInv, [Next]_vars, NEW p \in Tasks, NEW s \in Successor(p)
             PROVE  /\ ledger'[p] = "created" => status'[s] # "none"
                    /\ ledger'[p] = "final" => Limited(s)'
  BY DEF LedgerIsTrue, Limited, Successor
<1> USE DEF IInv
<1>1. s \in Tasks /\ (status[s] # "none" => status'[s] # "none")
  BY TasksGoOneWay, TreeAssumption DEF Successor
<1>2. Limited(s) => Limited(s)'
  BY <1>1, LimitedForGood DEF Successor
<1>3. CASE ledger'[p] = ledger[p]
  BY <1>1, <1>2, <1>3 DEF LedgerIsTrue, Limited
<1>4. ASSUME NEW w \in Workers, Record(w), call[w].of = p
      PROVE  /\ ledger'[p] = "created" => status'[s] # "none"
             /\ ledger'[p] = "final" => Limited(s)'
  <2>1. call[w].at = "record" /\ ledger'[p] = call[w].says
    BY <1>4 DEF Record, TypeOK
  <2>2. call[w].child = s
    BY <2>1, <1>4, TreeAssumption DEF HandoffsAreOwed, Successor
  <2> QED BY <2>1, <2>2, <1>1, <1>2, <1>4 DEF SaysWhatIs
<1>5. ASSUME NEW w \in Workers, Record(w), call[w].of # p PROVE ledger'[p] = ledger[p]
  BY <1>5 DEF Record, TypeOK
<1>6. ledger'[p] # ledger[p] => \E w \in Workers : Record(w)
  BY DEF Next, vars, Pass, Ask, Look, Make, List, TakeUp, LookHandoff, MakeSuccessor,
         Fails, CutOff, Refuse, Ages, End, Cancel
<1> QED BY <1>3, <1>4, <1>5, <1>6


-----------------------------------------------------------------------------
(* The bounds.                                                             *)

\* A task has one successor at most, and so one that is coming.
LEMMA OneIsComing ==
    ASSUME NEW S, \A s, t \in S : s = t
    PROVE  IsFiniteSet(S) /\ Cardinality(S) <= 1
<1>1. CASE S = {}
  BY <1>1, FS_EmptySet
<1>2. ASSUME NEW s \in S PROVE IsFiniteSet(S) /\ Cardinality(S) <= 1
  <2>1. S = {s}
    OBVIOUS
  <2>2. IsFiniteSet({s}) /\ Cardinality({s}) = 1
    BY FS_Singleton
  <2> QED BY <2>1, <2>2
<1> QED BY <1>1, <1>2

\* What is made was not there, or nothing is made.
LEMMA InsertMakesOne ==
    ASSUME TypeOK, NEW s \in Tasks, Insert(s)
    PROVE  \/ status' = status
           \/ status[s] = "none" /\ status' = [status EXCEPT ![s] = "live"]
BY DEF Insert

LEMMA RoomStep == IInv /\ [Next]_vars => RoomForAll'
<1> SUFFICES ASSUME IInv, [Next]_vars, NEW p \in Tasks
             PROVE  /\ IsFiniteSet(Children(p)')
                    /\ Cardinality(Children(p)') + Cardinality(Calling(p)') + Cardinality(Coming(p)')
                          <= FanOutMax + Cardinality(Runs)
  BY DEF RoomForAll
<1> USE DEF IInv
<1> DEFINE C == Children(p)
           A == Calling(p)
           B == Coming(p)
           Goal == Cardinality(C') + Cardinality(A') + Cardinality(B') <= FanOutMax + Cardinality(Runs)
<1>1. /\ IsFiniteSet(C) /\ IsFiniteSet(C') /\ Cardinality(C) \in Nat /\ Cardinality(C') \in Nat
      /\ C \subseteq C'
  BY ChildrenGrow DEF RoomForAll
<1>2. Cardinality(C) + Cardinality(A) + Cardinality(B) <= FanOutMax + Cardinality(Runs)
  BY DEF RoomForAll
<1>3. /\ A \subseteq Runs /\ A' \subseteq Runs /\ IsFiniteSet(A) /\ IsFiniteSet(A')
      /\ Cardinality(A) \in Nat /\ Cardinality(A') \in Nat /\ Cardinality(Runs) \in Nat
      /\ Cardinality(A') <= Cardinality(Runs)
  <2>1. A \in SUBSET Runs /\ A' \in SUBSET Runs /\ IsFiniteSet(Runs)
    BY TreeAssumption DEF Calling
  <2> HIDE DEF A
  <2> QED BY <2>1, FS_Subset, FS_CardinalityType
<1>4. /\ IsFiniteSet(B) /\ IsFiniteSet(B') /\ Cardinality(B) \in Nat /\ Cardinality(B') \in Nat
      /\ Cardinality(B') <= 1
  <2>1. /\ \A s, t \in B : s = t
        /\ \A s, t \in B' : s = t
    BY TreeAssumption DEF Coming, Successor
  <2> HIDE DEF B
  <2> QED BY <2>1, OneIsComing, FS_CardinalityType
<1>5. FanOutMax \in Nat
  BY TreeAssumption
<1>6. ASSUME C' = C, A' \subseteq A, B' \subseteq B PROVE Goal
  <2> HIDE DEF A, B, C
  <2>1. Cardinality(A') <= Cardinality(A) /\ Cardinality(B') <= Cardinality(B)
    BY <1>3, <1>4, <1>6, FS_Subset
  <2> QED BY <2>1, <1>1, <1>2, <1>3, <1>4, <1>5, <1>6
<1>7. ASSUME C' = C, Cardinality(C) < FanOutMax PROVE Goal
  <2> HIDE DEF A, B, C
  <2> QED BY <1>1, <1>3, <1>4, <1>5, <1>7
<1>8. ASSUME NEW u, C' \subseteq C \cup {u}, NEW m \in A, A' \subseteq A \ {m}, B' \subseteq B PROVE Goal
  <2> HIDE DEF A, B, C
  <2>1. Cardinality(C') <= Cardinality(C) + 1
    BY <1>1, <1>8, FS_AddElement, FS_Subset
  <2>2. Cardinality(A') <= Cardinality(A) - 1
    BY <1>3, <1>8, FS_RemoveElement, FS_Subset
  <2>3. Cardinality(B') <= Cardinality(B)
    BY <1>4, <1>8, FS_Subset
  <2> QED BY <2>1, <2>2, <2>3, <1>1, <1>2, <1>3, <1>4, <1>5
<1>9. ASSUME NEW s \in B, C' \subseteq C \cup {s}, B' \subseteq B \ {s}, A' \subseteq A PROVE Goal
  <2> HIDE DEF A, B, C
  <2>1. Cardinality(C') <= Cardinality(C) + 1
    BY <1>1, <1>9, FS_AddElement, FS_Subset
  <2>2. Cardinality(B') <= Cardinality(B) - 1
    <3>1. IsFiniteSet(B \ {s}) /\ Cardinality(B \ {s}) = Cardinality(B) - 1
      BY <1>4, <1>9, FS_RemoveElement
    <3> QED BY <3>1, <1>9, FS_Subset
  <2>3. Cardinality(A') <= Cardinality(A)
    BY <1>3, <1>9, FS_Subset
  <2> QED BY <2>1, <2>2, <2>3, <1>1, <1>2, <1>3, <1>4, <1>5
<1>10. /\ \A m \in Runs : m \in Makers /\ m \notin Workers
       /\ \A w \in Workers : w \in Makers /\ w \notin Runs
       /\ Off.at = "off"
  BY TreeAssumption DEF Makers, Off
<1>11. ASSUME UNCHANGED status PROVE Goal
  <2>1. C' = C
    BY <1>11 DEF Children
  <2>2. CASE UNCHANGED call
    <3>1. A' \subseteq A /\ B' \subseteq B
      BY <2>2, <1>11 DEF Calling, Coming
    <3> QED BY <3>1, <2>1, <1>6
  <2>3. ASSUME NEW m \in Makers, call'[m].at # "insert", \A n \in Makers : n # m => call'[n] = call[n]
        PROVE  Goal
    <3>1. A' \subseteq A /\ B' \subseteq B
      BY <1>10, <1>11, <2>3 DEF Calling, Coming
    <3> QED BY <2>1, <3>1, <1>6
  <2>4. ASSUME NEW m \in Makers, NEW u \in Tasks, call' = [call EXCEPT ![m].at = "insert"], call[m].child = u,
               Found(u) = "room"
        PROVE  Goal
    <3>1. CASE Parent[u] = p
      <4>1. Room(p)
        BY <2>4, <3>1 DEF Found, Limited
      <4> QED BY <4>1, <2>1, <1>7 DEF Room
    <3>2. CASE Parent[u] # p
      <4>1. /\ call'[m].child = u
            /\ \A n \in Makers : n # m => call'[n] = call[n]
        BY <2>4 DEF TypeOK, CallType
      <4>2. A' \subseteq A
        BY <4>1, <3>2, <1>10 DEF Calling
      <4>3. B' \subseteq B
        BY <4>1, <3>2, <1>10, <1>11 DEF Coming, Successor
      <4> QED BY <4>2, <4>3, <2>1, <1>6
    <3> QED BY <3>1, <3>2
  <2>5. \A m \in Makers : call[m].at \in {"look", "insert"} => call[m].child \in Tasks
    BY TreeAssumption DEF StepsAsk, HandoffsAreOwed, Successor, Makers
  <2>6. ASSUME NEW m \in Makers, call'[m] # call[m] PROVE Goal
    <3>1. \A n \in Makers : n # m => call'[n] = call[n]
      <4>1. StepOf(m)
        BY <2>6, StepsAreOf DEF StepOf
      <4> QED BY <4>1, OthersKeep
    <3>2. CASE call'[m].at # "insert"
      BY <3>1, <3>2, <2>3
    <3>3. CASE call'[m].at = "insert"
      <4>1. ~Make(m) /\ ~List(m) /\ ~Record(m) /\ ~CutOff(m) /\ ~Fails(m) /\ \A t \in Tasks : ~Ask(m, t)
        <5>1. ~Make(m) /\ ~CutOff(m)
          BY <3>3 DEF Make, CutOff, TypeOK, Off
        <5>2. ~List(m)
          BY <3>3 DEF List, TypeOK, Off
        <5>3. ~Record(m)
          <6>1. Record(m) => call'[m].at \in {"off", "next"}
            <7>1. Record(m) => call'[m] \in {Off, [Off EXCEPT !.at = "next", !.list = call[m].list]}
              BY DEF Record, TypeOK
            <7>2. Off.at = "off" /\ [Off EXCEPT !.at = "next", !.list = call[m].list].at = "next"
              BY DEF Off
            <7> QED BY <7>1, <7>2
          <6> QED BY <6>1, <3>3
        <5>4. \A t \in Tasks : ~Ask(m, t)
          BY <3>3 DEF Ask, TypeOK, Off
        <5>5. ~Fails(m)
          BY <3>3 DEF Fails, Say, TypeOK, CallType
        <5> QED BY <5>1, <5>2, <5>3, <5>4, <5>5
      <4>2. ~MakeSuccessor(m)
        BY <3>3 DEF MakeSuccessor, Say, TypeOK, CallType
      <4>3. ~TakeUp(m)
        BY <3>3 DEF TakeUp, TypeOK, CallType
      <4>4. \/ m \in Runs /\ Look(m)
            \/ m \in Workers /\ LookHandoff(m)
        BY <2>6, <4>1, <4>2, <4>3, StepsAreOf DEF Pass
      <4>5. call[m].at = "look" /\ Found(call[m].child) = "room" /\ call' = [call EXCEPT ![m].at = "insert"]
        BY <4>4, <3>3, <1>10 DEF Look, LookHandoff, Say, TypeOK, CallType, Off
      <4> QED BY <4>5, <2>4, <2>5
    <3> QED BY <3>2, <3>3
  <2>7. CASE \A m \in Makers : call'[m] = call[m]
    <3>1. A' \subseteq A /\ B' \subseteq B
      BY <2>7, <1>10, <1>11 DEF Calling, Coming
    <3> QED BY <3>1, <2>1, <1>6
  <2> QED BY <2>6, <2>7
<1>12. ASSUME UNCHANGED call, \A t \in Tasks : status'[t] = "none" <=> status[t] = "none"
       PROVE  Goal
  <2>1. C' = C /\ A' = A
    BY <1>12 DEF Children, Calling
  <2>2. B' = B
    BY <1>12, TreeAssumption DEF Coming, Successor
  <2> QED BY <2>1, <2>2, <1>6
<1>13. ASSUME NEW t \in Tasks, End(t) \/ Cancel(t) PROVE Goal
  <2>1. UNCHANGED call /\ \A u \in Tasks : status'[u] = "none" <=> status[u] = "none"
    BY <1>13 DEF End, Ends, Cancel, TypeOK
  <2> QED BY <2>1, <1>12
<1>14. ASSUME NEW m \in Runs, Make(m), ~UNCHANGED status PROVE Goal
  <2> DEFINE u == call[m].child
  <2>1. u \in Tasks \ Successors /\ call[m].at = "insert" /\ Insert(u)
    BY <1>14 DEF Make, StepsAsk
  <2>2. status[u] = "none" /\ status' = [status EXCEPT ![u] = "live"]
    BY <2>1, <1>14, InsertMakesOne
  <2>3. call'[m].at = "off" /\ \A n \in Makers : n # m => call'[n] = call[n]
    BY <1>14, <1>10 DEF Make, TypeOK
  <2>4. B' \subseteq B
    BY <2>1, <2>2, <2>3, <1>10, TreeAssumption DEF Coming, Successor, TypeOK
  <2>5. A' \subseteq A /\ m \notin A'
    BY <2>3, <1>10 DEF Calling
  <2>6. CASE Parent[u] = p
    <3>1. C' \subseteq C \cup {u}
      BY <2>2 DEF Children, TypeOK
    <3>2. m \in A
      BY <2>1, <2>6 DEF Calling
    <3> QED BY <3>1, <3>2, <2>4, <2>5, <1>8
  <2>7. CASE Parent[u] # p
    <3>1. C' = C
      BY <2>2, <2>7 DEF Children, TypeOK
    <3> QED BY <3>1, <2>4, <2>5, <1>6
  <2> QED BY <2>6, <2>7
<1>15. ASSUME NEW w \in Workers, MakeSuccessor(w) \/ Fails(w), ~UNCHANGED status PROVE Goal
  <2> DEFINE s == call[w].child
  <2>1. call[w].at = "insert" /\ Insert(s)
    BY <1>15 DEF MakeSuccessor, Fails
  <2>2. s \in Successors /\ s \in Tasks
    BY <2>1, TreeAssumption DEF HandoffsAreOwed, Successor
  <2>3. status[s] = "none" /\ status' = [status EXCEPT ![s] = "live"]
    BY <2>1, <2>2, <1>15, InsertMakesOne
  <2>4. call'[w].at = "record" /\ \A n \in Makers : n # w => call'[n] = call[n]
    BY <1>15, <1>10 DEF MakeSuccessor, Fails, Say, TypeOK, CallType
  <2>5. A' \subseteq A
    BY <2>4, <1>10 DEF Calling
  <2>6. B' \subseteq B /\ s \notin B'
    BY <2>2, <2>3, <2>4, <1>10, TreeAssumption DEF Coming, Successor, TypeOK
  <2>7. CASE Parent[s] = p
    <3>1. C' \subseteq C \cup {s}
      BY <2>3 DEF Children, TypeOK
    <3>2. s \in B
      BY <2>1, <2>2, <2>3, <2>7 DEF Coming, Successor
    <3> QED BY <3>1, <3>2, <2>5, <2>6, <1>9
  <2>8. CASE Parent[s] # p
    <3>1. C' = C
      BY <2>3, <2>8 DEF Children, TypeOK
    <3> QED BY <3>1, <2>5, <2>6, <1>6
  <2> QED BY <2>7, <2>8
<1>16. Goal
  BY <1>11, <1>13, <1>14, <1>15
     DEF Next, vars, Pass, Ask, Look, List, TakeUp, LookHandoff, Record, CutOff, Refuse, Ages
<1> QED BY <1>1, <1>16


LEMMA EachStep == IInv /\ [Next]_vars => EachOfAStep'
<1> SUFFICES ASSUME IInv, [Next]_vars, NEW p \in Tasks, status'[p] = "cancelled"
             PROVE  Cardinality(LiveUnder(p)') + Cardinality(Asking(p)') <= Cardinality(Runs)
  BY DEF EachOfAStep
<1> USE DEF IInv
<1> DEFINE D == LiveUnder(p)
           E == Asking(p)
           Goal == Cardinality(D') + Cardinality(E') <= Cardinality(Runs)
<1>1. /\ IsFiniteSet(D) /\ IsFiniteSet(D') /\ Cardinality(D) \in Nat /\ Cardinality(D') \in Nat
  <2>1. IsFiniteSet(Children(p)) /\ IsFiniteSet(Children(p)')
    BY ChildrenGrow DEF RoomForAll
  <2>2. D \in SUBSET Children(p) /\ D' \in SUBSET (Children(p)')
    BY DEF LiveUnder
  <2> HIDE DEF D
  <2> QED BY <2>1, <2>2, FS_Subset, FS_CardinalityType
<1>2. /\ E \subseteq Runs /\ E' \subseteq Runs /\ IsFiniteSet(E) /\ IsFiniteSet(E')
      /\ Cardinality(E) \in Nat /\ Cardinality(E') \in Nat /\ Cardinality(Runs) \in Nat
      /\ Cardinality(E') <= Cardinality(Runs)
  <2>1. E \in SUBSET Runs /\ E' \in SUBSET Runs /\ IsFiniteSet(Runs)
    BY TreeAssumption DEF Asking
  <2> HIDE DEF E
  <2> QED BY <2>1, FS_Subset, FS_CardinalityType
<1>3. status[p] = "cancelled" => Cardinality(D) + Cardinality(E) <= Cardinality(Runs)
  BY DEF EachOfAStep
<1>4. ASSUME status[p] = "cancelled", D' \subseteq D, E' \subseteq E PROVE Goal
  <2> HIDE DEF D, E
  <2>1. Cardinality(D') <= Cardinality(D) /\ Cardinality(E') <= Cardinality(E)
    BY <1>1, <1>2, <1>4, FS_Subset
  <2> QED BY <2>1, <1>1, <1>2, <1>3, <1>4
<1>5. ASSUME D' = {} PROVE Goal
  <2> HIDE DEF D, E
  <2>1. Cardinality(D') = 0
    BY <1>5, FS_EmptySet
  <2> QED BY <2>1, <1>2
<1>6. ASSUME status[p] = "cancelled", NEW u, D' \subseteq D \cup {u}, NEW m \in E, E' \subseteq E \ {m} PROVE Goal
  <2> HIDE DEF D, E
  <2>1. Cardinality(D') <= Cardinality(D) + 1
    <3>1. IsFiniteSet(D \cup {u}) /\ Cardinality(D \cup {u}) <= Cardinality(D) + 1
      <4>1. /\ IsFiniteSet(D \cup {u})
            /\ Cardinality(D \cup {u}) = IF u \in D THEN Cardinality(D) ELSE Cardinality(D) + 1
        BY <1>1, FS_AddElement, Zenon
      <4> QED BY <4>1, <1>1
    <3>2. Cardinality(D \cup {u}) \in Nat /\ Cardinality(D') <= Cardinality(D \cup {u})
      BY <3>1, <1>6, FS_CardinalityType, FS_Subset
    <3> QED BY <3>1, <3>2, <1>1
  <2>2. Cardinality(E') <= Cardinality(E) - 1
    <3>1. IsFiniteSet(E \ {m}) /\ Cardinality(E \ {m}) = Cardinality(E) - 1
      BY <1>2, <1>6, FS_RemoveElement
    <3> QED BY <3>1, <1>6, FS_Subset
  <2> QED BY <2>1, <2>2, <1>1, <1>2, <1>3, <1>6
<1>7. \A m \in Runs : m \in Makers /\ call[m] \in CallType
  BY DEF Makers, TypeOK
<1>8. /\ \A m \in Runs : m \notin Workers
      /\ Off.at = "off"
  BY TreeAssumption DEF Off
<1>9. ASSUME NEW t \in Tasks, Cancel(t) PROVE Goal
  <2>1. E' = E
    BY <1>9 DEF Cancel, Asking
  <2>2. CASE status[p] = "cancelled"
    <3>1. D' \subseteq D
      BY <1>9 DEF Cancel, LiveUnder, Children
    <3> QED BY <3>1, <2>1, <2>2, <1>4
  \* All that was under it goes with it.
  <2>3. CASE status[p] # "cancelled"
    <3>1. t \in Above[p]
      BY <1>9, <2>3 DEF Cancel
    <3>2. \A u \in Children(p)' : t \in Above[u]
      BY <3>1, TreeAssumption DEF Children
    <3>3. D' = {}
      BY <3>2, <1>9 DEF Cancel, LiveUnder, Children
    <3> QED BY <3>3, <1>5
  <2> QED BY <2>2, <2>3
<1>10. ASSUME NEW t \in Tasks, End(t) PROVE Goal
  <2>1. status[p] = "cancelled" /\ E' = E /\ D' \subseteq D
    BY <1>10 DEF End, Ends, TypeOK, Asking, LiveUnder, Children
  <2> QED BY <2>1, <1>4
<1>11. ASSUME UNCHANGED status, \A m \in Runs : call'[m].at \in {"look", "insert"} =>
                 /\ call[m].at \in {"look", "insert"} /\ call'[m].child = call[m].child
       PROVE  Goal
  <2>1. status[p] = "cancelled" /\ D' \subseteq D /\ E' \subseteq E
    BY <1>11 DEF Asking, LiveUnder, Children
  <2> QED BY <2>1, <1>4
<1>12. ASSUME NEW m \in Runs, NEW t \in Tasks, Ask(m, t) PROVE Goal
  <2>1. status[Parent[t]] = "live" /\ UNCHANGED status
    BY <1>12 DEF Ask, Confirmed
  <2>2. call'[m].child = t /\ \A n \in Runs : n # m => call'[n] = call[n]
    BY <1>12, <1>7 DEF Ask, TypeOK, Off
  <2>3. status[p] = "cancelled" /\ Parent[t] # p
    BY <2>1
  <2>4. E' \subseteq E
    BY <2>2, <2>3 DEF Asking
  <2>5. D' \subseteq D
    BY <2>1 DEF LiveUnder, Children
  <2> QED BY <2>3, <2>4, <2>5, <1>4
<1>13. ASSUME NEW m \in Runs, Look(m) PROVE Goal
  <2>1. call[m].at = "look" /\ UNCHANGED status
    BY <1>13 DEF Look
  <2>2. call'[m] \in {Off, [call[m] EXCEPT !.at = "insert"]} /\ \A n \in Runs : n # m => call'[n] = call[n]
    BY <1>13, <1>7 DEF Look, TypeOK
  <2>3. call'[m].at \in {"look", "insert"} => call'[m].child = call[m].child
    BY <2>2, <1>7, <1>8 DEF CallType
  <2> QED BY <2>1, <2>2, <2>3, <1>11
<1>14. ASSUME NEW m \in Runs, Make(m) PROVE Goal
  <2> DEFINE u == call[m].child
  <2>1. call[m].at = "insert" /\ Insert(u) /\ u \in Tasks
    BY <1>14 DEF Make, StepsAsk
  <2>2. call'[m].at = "off" /\ \A n \in Runs : n # m => call'[n] = call[n]
    BY <1>14, <1>7, <1>8 DEF Make, TypeOK
  <2>3. status' = status \/ status' = [status EXCEPT ![u] = "live"]
    BY <2>1, InsertMakesOne
  <2>4. status[p] = "cancelled" /\ E' \subseteq E /\ m \notin E'
    BY <2>1, <2>2, <2>3 DEF Asking, TypeOK
  <2>5. CASE Parent[u] = p
    <3>1. m \in E
      BY <2>1, <2>5 DEF Asking
    <3>2. D' \subseteq D \cup {u}
      BY <2>3 DEF LiveUnder, Children, TypeOK
    <3> QED BY <3>1, <3>2, <2>4, <1>6
  <2>6. CASE Parent[u] # p
    <3>1. D' \subseteq D
      BY <2>3, <2>6 DEF LiveUnder, Children, TypeOK
    <3> QED BY <3>1, <2>4, <1>4
  <2> QED BY <2>5, <2>6
<1>15. ASSUME NEW w \in Workers, Pass(w) \/ Fails(w) \/ CutOff(w) PROVE Goal
  <2>1. \A m \in Runs : call'[m] = call[m]
    BY <1>15, <1>7, <1>8, OthersKeep DEF StepOf, Makers
  <2>2. CASE UNCHANGED status
    BY <2>1, <2>2, <1>11
  <2>3. CASE (MakeSuccessor(w) \/ Fails(w)) /\ ~UNCHANGED status
    <3> DEFINE s == call[w].child
    <3>1. s \in Tasks /\ status[Parent[s]] = "completed" /\ Insert(s)
      BY <2>3, TreeAssumption DEF MakeSuccessor, Fails, HandoffsAreOwed, Successor
    <3>2. status[s] = "none" /\ status' = [status EXCEPT ![s] = "live"]
      BY <2>3, <3>1, InsertMakesOne
    <3>3. status[p] = "cancelled" /\ Parent[s] # p
      BY <3>1, <3>2 DEF TypeOK
    <3>4. D' \subseteq D /\ E' \subseteq E
      BY <2>1, <3>2, <3>3 DEF LiveUnder, Children, Asking, TypeOK
    <3> QED BY <3>3, <3>4, <1>4
  <2> QED BY <1>15, <2>2, <2>3 DEF Pass, List, TakeUp, LookHandoff, Record, CutOff
<1>16. CASE Refuse \/ Ages \/ UNCHANGED vars
  <2>1. UNCHANGED <<status, call>>
    BY <1>16 DEF Refuse, Ages, vars
  <2> QED BY <2>1, <1>11
<1> QED
  BY <1>9, <1>10, <1>12, <1>13, <1>14, <1>15, <1>16 DEF Next


-----------------------------------------------------------------------------
(* The theorems.                                                           *)

LEMMA InitIInv == Init => IInv
<1> SUFFICES ASSUME Init PROVE IInv
  OBVIOUS
<1>1. TypeOK /\ ListsAreFinite
  BY InitTypes
<1>2. \A m \in Makers : call[m].at = "off"
  BY DEF Init, Off
<1>3. StepsAsk /\ HandoffsAreOwed /\ SaysWhatIs
  BY <1>2 DEF StepsAsk, HandoffsAreOwed, SaysWhatIs, Makers
<1>4. LedgerIsTrue
  BY DEF Init, LedgerIsTrue
<1>5. EachOfAStep
  BY DEF Init, EachOfAStep
<1>6. ASSUME NEW p \in Tasks
      PROVE  Children(p) = {} /\ Calling(p) = {} /\ Coming(p) = {}
  BY <1>2, TreeAssumption DEF Init, Children, Calling, Coming, Makers
<1>7. RoomForAll
  <2>1. IsFiniteSet({}) /\ Cardinality({}) = 0 /\ Cardinality(Runs) \in Nat /\ FanOutMax \in Nat
    BY FS_EmptySet, FS_CardinalityType, TreeAssumption
  <2>2. 0 + 0 + 0 <= FanOutMax + Cardinality(Runs)
    BY <2>1
  <2> QED BY <1>6, <2>1, <2>2, Zenon DEF RoomForAll
<1> QED BY <1>1, <1>3, <1>4, <1>5, <1>7 DEF IInv

LEMMA Invariance == Spec => []IInv
<1>1. IInv /\ [Next]_vars => IInv'
  BY TypeStep, StepsStep, HandoffsStep, LedgerStep, RoomStep, EachStep DEF IInv
<1> QED BY <1>1, InitIInv, PTL DEF Spec

\* The trees, the calls that make sub-tasks and the ledger keep their types; a
\* pass never holds more of the ledger than a batch (processHandoffs).
THEOREM TreesAreTyped == Spec => []TypeOK
<1>1. IInv => TypeOK
  BY DEF IInv
<1> QED BY <1>1, Invariance, PTL

\* However many steps and workers make sub-tasks of one task at once, the
\* fan-out createSubTask counts without a lock is exceeded by the steps in
\* flight at most.
THEOREM FanOutIsBounded == Spec => []FanOutOvershoot
<1>1. IInv => FanOutOvershoot
  <2> SUFFICES ASSUME IInv, NEW p \in Tasks
               PROVE  Cardinality(Children(p)) <= FanOutMax + Cardinality(Runs)
    BY DEF FanOutOvershoot
  <2>1. /\ Cardinality(Children(p)) \in Nat
        /\ Cardinality(Children(p)) + Cardinality(Calling(p)) + Cardinality(Coming(p))
              <= FanOutMax + Cardinality(Runs)
    BY FS_CardinalityType DEF IInv, RoomForAll
  <2>2. Cardinality(Calling(p)) \in Nat
    <3>1. Calling(p) \in SUBSET Runs
      BY DEF Calling
    <3> QED BY <3>1, FS_Subset, FS_CardinalityType, TreeAssumption
  <2>3. Cardinality(Coming(p)) \in Nat
    <3>1. \A s, t \in Coming(p) : s = t
      BY TreeAssumption DEF Coming, Successor
    <3> QED BY <3>1, OneIsComing, FS_CardinalityType
  <2>4. Cardinality(Runs) \in Nat /\ FanOutMax \in Nat
    BY FS_CardinalityType, TreeAssumption
  <2> QED BY <2>1, <2>2, <2>3, <2>4
<1> QED BY <1>1, Invariance, PTL

\* What a cancellation of a tree leaves live under a cancelled task was being
\* made when it was cancelled, and is one task for each step at most.
THEOREM LeftBehindIsBounded == Spec => []LeftBehindWereUnderWay
<1>1. IInv => LeftBehindWereUnderWay
  <2> SUFFICES ASSUME IInv, NEW p \in Tasks, status[p] = "cancelled"
               PROVE  Cardinality(LiveUnder(p)) <= Cardinality(Runs)
    BY DEF LeftBehindWereUnderWay, LiveUnder
  <2>1. Cardinality(LiveUnder(p)) + Cardinality(Asking(p)) <= Cardinality(Runs)
    BY DEF IInv, EachOfAStep
  <2>2. Cardinality(LiveUnder(p)) \in Nat
    <3>1. LiveUnder(p) \in SUBSET Children(p)
      BY DEF LiveUnder
    <3> QED BY <3>1, FS_Subset, FS_CardinalityType DEF IInv, RoomForAll
  <2>3. Cardinality(Asking(p)) \in Nat /\ Cardinality(Runs) \in Nat
    <3>1. Asking(p) \in SUBSET Runs
      BY DEF Asking
    <3> QED BY <3>1, FS_Subset, FS_CardinalityType, TreeAssumption
  <2> QED BY <2>1, <2>2, <2>3
<1> QED BY <1>1, Invariance, PTL

\* A handoff recorded is there and one refused for good was refused for a limit
\* that is reached or a cycle, or failed in some way that is neither, though it is
\* decided in one transaction and recorded in another, by as many workers at once
\* as there are (handoff.ts).
THEOREM LedgersAreTrue == Spec => []LedgerIsTrue
<1>1. IInv => LedgerIsTrue
  BY DEF IInv
<1> QED BY <1>1, Invariance, PTL

\* What has ended stays as it ended, whoever ends it: neither a run, a handoff
\* nor a cancellation brings a task back or takes it away.
THEOREM EndsAreForGood ==
    Spec => [][\A t \in Tasks : /\ status[t] \notin {"none", "live"} => status'[t] = status[t]
                                /\ status[t] # "none" => status'[t] # "none"]_vars
<1>1. TypeOK /\ [Next]_vars =>
         [\A t \in Tasks : /\ status[t] \notin {"none", "live"} => status'[t] = status[t]
                           /\ status[t] # "none" => status'[t] # "none"]_vars
  BY TasksGoOneWay
<1> QED BY <1>1, TreesAreTyped, PTL DEF Spec
=============================================================================
