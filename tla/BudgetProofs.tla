---------------------------- MODULE BudgetProofs ----------------------------
(* What holds of the accounts for every tree of accounts, every ceiling,   *)
(* every finite number of tasks and months: no ceiling is passed, a        *)
(* division has spent no more than the account above it, and what is       *)
(* reserved is what tasks hold, the sum of it over all of them.            *)
EXTENDS Budget, FiniteSetTheorems, TLAPS

\* An account and its ancestors are opened before anything draws on it, an
\* account that is not open has spent nothing, and no account is ahead of the
\* clock.
OpenedFromTheTop ==
    /\ \A a \in opened : Chain[a] \subseteq opened
    /\ \A a \in Accounts : a \notin opened => tokensSpent[a] = 0
    /\ \A a \in Accounts : periodStart[a] <= month

\* An account whose month is later than its parent's was opened in a month its
\* parent has not begun to count, and has spent nothing.
AheadIsEmpty ==
    \A a \in Accounts : Parent[a] # NoAccount /\ periodStart[a] > periodStart[Parent[a]]
       => tokensSpent[a] = 0

IInv == TypeOK /\ TokensWithinCeiling /\ OpenedFromTheTop /\ AheadIsEmpty
          /\ TokenLedgerAgrees

\* Charging n tokens to a set S of accounts that is closed under Parent, as
\* every function of the database does (n = 0 for a reservation or a new month).
ChargedTo(S, n) ==
    /\ tokensSpent' \in [Accounts -> Nat]
    /\ \A c \in Accounts : tokensSpent'[c] = Spent(S)[c] + (IF c \in S THEN n ELSE 0)
    /\ periodStart' = Period(S)
    /\ UNCHANGED <<month, opened, tokensMax>>

IsClosed(S) == /\ S \subseteq opened
               /\ \A c \in S : Parent[c] # NoAccount => Parent[c] \in S

LEMMA OpenIsClosed ==
    ASSUME IInv, NEW a \in opened
    PROVE  IsClosed(Chain[a])
  BY ChainAssumption DEF IInv, TypeOK, OpenedFromTheTop, IsClosed

LEMMA AllIsClosed == IInv => IsClosed(opened)
  BY DEF IInv, TypeOK, IsClosed

LEMMA ChargeKeeps ==
    ASSUME IInv, NEW S, IsClosed(S), NEW n \in Nat, ChargedTo(S, n),
           \A c \in S : Spent(S)[c] + n <= tokensMax[c]
    PROVE  /\ tokensSpent' \in [Accounts -> Nat] /\ periodStart' \in [Accounts -> Nat]
           /\ TokensWithinCeiling' /\ OpenedFromTheTop' /\ AheadIsEmpty'
           /\ TokenLedgerAgrees'
<1>1. /\ S \subseteq Accounts
      /\ month \in Nat
      /\ periodStart \in [Accounts -> Nat]
      /\ tokensSpent \in [Accounts -> Nat]
      /\ tokensMax \in [Accounts -> Nat]
      /\ \A a \in Accounts : periodStart[a] <= month
  BY DEF IInv, TypeOK, IsClosed, OpenedFromTheTop
<1>2. \A c \in Accounts : c \in S =>
        /\ periodStart'[c] = month
        /\ tokensSpent'[c] = n + (IF periodStart[c] = month THEN tokensSpent[c] ELSE 0)
  BY <1>1 DEF ChargedTo, Spent, Period, Passed
<1>3. \A c \in Accounts : c \notin S =>
        periodStart'[c] = periodStart[c] /\ tokensSpent'[c] = tokensSpent[c]
  BY <1>1 DEF ChargedTo, Spent, Period, Passed
<1>4. /\ tokensSpent' \in [Accounts -> Nat]
      /\ periodStart' \in [Accounts -> Nat]
  BY <1>1 DEF ChargedTo, Spent, Period, Passed
<1>5. TokensWithinCeiling'
  <2> SUFFICES ASSUME NEW a \in Accounts
               PROVE  tokensSpent'[a] <= tokensMax[a]
    BY DEF TokensWithinCeiling, ChargedTo
  <2>1. CASE a \in S
    BY <2>1, <1>1 DEF ChargedTo
  <2>2. CASE a \notin S
    BY <2>2, <1>3 DEF IInv, TokensWithinCeiling
  <2> QED BY <2>1, <2>2
<1>6. OpenedFromTheTop'
  <2>1. \A a \in Accounts : periodStart'[a] <= month
    BY <1>1, <1>2, <1>3
  <2>2. \A a \in Accounts : a \notin opened => tokensSpent'[a] = 0
    BY <1>1, <1>3 DEF IInv, OpenedFromTheTop, IsClosed
  <2> QED BY <2>1, <2>2 DEF ChargedTo, IInv, OpenedFromTheTop
<1>7. ASSUME NEW a \in Accounts, Parent[a] # NoAccount
      PROVE  /\ periodStart'[a] > periodStart'[Parent[a]] => tokensSpent'[a] = 0
             /\ periodStart'[a] = periodStart'[Parent[a]]
                   => tokensSpent'[a] <= tokensSpent'[Parent[a]]
  <2> DEFINE p == Parent[a]
  <2>0. p \in Accounts
    BY <1>7, ChainAssumption
  <2>1. /\ periodStart[a] > periodStart[p] => tokensSpent[a] = 0
        /\ periodStart[a] = periodStart[p] => tokensSpent[a] <= tokensSpent[p]
    BY <1>7 DEF IInv, AheadIsEmpty, TokenLedgerAgrees
  <2>2. CASE a \in S
    <3>1. p \in S
      BY <2>2, <1>7 DEF IsClosed
    <3> QED BY <3>1, <2>0, <2>1, <2>2, <1>1, <1>2
  <2>3. CASE a \notin S /\ p \in S
    BY <2>0, <2>1, <2>3, <1>1, <1>2, <1>3
  <2>4. CASE a \notin S /\ p \notin S
    BY <2>0, <2>1, <2>4, <1>3
  <2> QED BY <2>2, <2>3, <2>4
<1> QED BY <1>4, <1>5, <1>6, <1>7 DEF AheadIsEmpty, TokenLedgerAgrees

\* The actions that leave the accounts' tokens, months and openings alone.
LEMMA QuietKeeps ==
    ASSUME IInv, UNCHANGED <<tokensSpent, tokensMax, periodStart, month, opened>>
    PROVE  /\ tokensSpent' \in [Accounts -> Nat] /\ periodStart' \in [Accounts -> Nat]
           /\ TokensWithinCeiling' /\ OpenedFromTheTop' /\ AheadIsEmpty'
           /\ TokenLedgerAgrees'
  BY DEF IInv, TypeOK, TokensWithinCeiling, OpenedFromTheTop, AheadIsEmpty,
         TokenLedgerAgrees

LEMMA InitIInv == Init => IInv
  BY DEF Init, IInv, TypeOK, TokensWithinCeiling, OpenedFromTheTop, AheadIsEmpty,
         TokenLedgerAgrees, IdleRequest

\* A task draws on an account that is open.
LEMMA TaskAccountOpen ==
    ASSUME IInv, NEW t \in Tasks, taskState[t] # "new"
    PROVE  taskAccount[t] \in opened
  BY DEF IInv, TypeOK

LEMMA OwnerKeeps == IInv /\ OwnerNext => IInv'
<1> SUFFICES ASSUME IInv, OwnerNext PROVE IInv'
  OBVIOUS
<1> USE DEF IInv
<1>1. ASSUME NEW a \in Accounts, NEW n \in TokenCeilings,
             NEW m \in MoneyCeilings \cup {Unsaid}, CreateAccount(a, n, m)
      PROVE  IInv'
  <2>1. m # Unsaid => m \in Nat
    BY AmountAssumption
  <2>2. n \in Nat
    BY AmountAssumption
  <2>3. TypeOK'
    BY <1>1, <2>1, <2>2, ChainAssumption DEF CreateAccount, TypeOK, tasks, runs
  <2>4. OpenedFromTheTop'
    BY <1>1, ChainAssumption DEF CreateAccount, TypeOK, OpenedFromTheTop
  <2>5. TokensWithinCeiling'
    BY <1>1, <2>2 DEF CreateAccount, TypeOK, OpenedFromTheTop, TokensWithinCeiling
  <2>6. ASSUME NEW c \in Accounts, Parent[c] # NoAccount
        PROVE  /\ periodStart'[c] > periodStart'[Parent[c]] => tokensSpent'[c] = 0
               /\ periodStart'[c] = periodStart'[Parent[c]]
                     => tokensSpent'[c] <= tokensSpent'[Parent[c]]
    <3>0. Parent[c] \in Accounts
      BY <2>6, ChainAssumption
    <3>1. CASE c = a
      BY <3>0, <3>1, <1>1 DEF CreateAccount, TypeOK, OpenedFromTheTop
    <3>2. CASE Parent[c] = a
      BY <3>0, <3>2, <1>1, <2>6 DEF CreateAccount, TypeOK, OpenedFromTheTop
    <3>3. CASE c # a /\ Parent[c] # a
      BY <3>0, <3>3, <1>1, <2>6 DEF CreateAccount, TypeOK, AheadIsEmpty, TokenLedgerAgrees
    <3> QED BY <3>1, <3>2, <3>3
  <2> QED BY <2>3, <2>4, <2>5, <2>6 DEF AheadIsEmpty, TokenLedgerAgrees
<1>2. ASSUME NEW r \in Requests, NEW a \in Accounts, NEW n \in TokenCeilings,
             NEW m \in MoneyCeilings \cup {Unsaid}, ReadCeilings(r, a, n, m)
      PROVE  IInv'
  <2>1. n \in Nat /\ (m # Unsaid => m \in Nat)
    BY AmountAssumption
  <2>2. TypeOK'
    BY <1>2, <2>1 DEF ReadCeilings, TypeOK, counts, ceilings, tasks, runs
  <2> QED BY <1>2, <2>2, QuietKeeps DEF ReadCeilings, counts, ceilings
<1>3. ASSUME NEW r \in Requests, WriteCeilings(r)
      PROVE  IInv'
  <2> DEFINE q == request[r]
  <2>1. /\ q \in [account : Accounts \cup {NoAccount}, tokens : Nat, money : Nat, proved : BOOLEAN]
        /\ q.account \in Accounts
    BY <1>3 DEF TypeOK, WriteCeilings
  <2>2. /\ tokensMax' \in [Accounts -> Nat] /\ moneyMax' \in [Accounts -> Nat]
        /\ request' \in [Requests -> [account : Accounts \cup {NoAccount}, tokens : Nat,
                                      money : Nat, proved : BOOLEAN]]
    BY <1>3, <2>1 DEF WriteCeilings, TypeOK, IdleRequest
  <2>3. TypeOK'
    BY <1>3, <2>2 DEF WriteCeilings, TypeOK, counts, tasks, runs
  <2>4. TokensWithinCeiling'
    BY <1>3, <2>1 DEF WriteCeilings, TypeOK, counts, TokensWithinCeiling
  <2> QED BY <1>3, <2>3, <2>4 DEF WriteCeilings, counts, OpenedFromTheTop, AheadIsEmpty,
                                  TokenLedgerAgrees
<1> QED BY <1>1, <1>2, <1>3 DEF OwnerNext

\* What every move of tokens on a task's chain keeps of the rest of TypeOK.
LEMMA ReserveKeeps ==
    ASSUME IInv, NEW a \in opened, NEW n \in Nat, Reserve(a, n),
           UNCHANGED <<month, opened, tokensMax>>
    PROVE  /\ tokensSpent' \in [Accounts -> Nat] /\ periodStart' \in [Accounts -> Nat]
           /\ tokensReserved' \in [Accounts -> Nat] /\ moneySpent' \in [Accounts -> Nat]
           /\ TokensWithinCeiling' /\ OpenedFromTheTop' /\ AheadIsEmpty'
           /\ TokenLedgerAgrees'
<1>1. \A c \in Accounts : tokensReserved[c] \in Nat /\ Spent(Chain[a])[c] \in Nat
  BY DEF IInv, TypeOK, Spent, Passed
<1>2. ChargedTo(Chain[a], 0)
  <2>1. Spent(Chain[a]) \in [Accounts -> Nat]
    BY <1>1 DEF Spent
  <2> QED BY <1>1, <2>1 DEF Reserve, ChargedTo
<1>3. \A c \in Chain[a] : Spent(Chain[a])[c] + 0 <= tokensMax[c]
  BY <1>1, OpenIsClosed DEF Reserve, HasRoom, IInv, TypeOK, IsClosed
<1>4. tokensReserved' \in [Accounts -> Nat] /\ moneySpent' \in [Accounts -> Nat]
  BY <1>1 DEF Reserve, Money, Passed, IInv, TypeOK
<1> QED BY <1>2, <1>3, <1>4, OpenIsClosed, ChargeKeeps

LEMMA TaskKeeps == IInv /\ TaskNext => IInv'
<1> SUFFICES ASSUME IInv, TaskNext PROVE IInv'
  OBVIOUS
<1>0. TypeOK /\ opened \subseteq Accounts /\ DefaultReserve \in Nat
  BY AmountAssumption DEF IInv, TypeOK
<1>1. ASSUME NEW a \in Accounts, AdmitAdopted(a) PROVE IInv'
  <2>1. \A c \in Accounts : tokensReserved[c] \in Nat /\ Spent(Chain[a])[c] \in Nat
    BY <1>0 DEF TypeOK, Spent, Passed
  <2>2. ChargedTo(Chain[a], 0)
    <3>1. Spent(Chain[a]) \in [Accounts -> Nat]
      BY <2>1 DEF Spent
    <3> QED BY <1>1, <2>1, <3>1 DEF AdmitAdopted, ChargedTo, ceilings
  <2>3. \A c \in Chain[a] : Spent(Chain[a])[c] + 0 <= tokensMax[c]
    BY <1>0, <1>1, <2>1, OpenIsClosed DEF AdmitAdopted, HasRoom, TypeOK, IsClosed
  <2>4. tokensReserved' \in [Accounts -> Nat] /\ moneySpent' \in [Accounts -> Nat]
    BY <1>0, <1>1, <2>1 DEF AdmitAdopted, Money, Passed, TypeOK, AtLeastZero
  <2>5. IsClosed(Chain[a])
    BY <1>1, OpenIsClosed DEF AdmitAdopted
  <2>6. /\ tokensSpent' \in [Accounts -> Nat] /\ periodStart' \in [Accounts -> Nat]
        /\ TokensWithinCeiling' /\ OpenedFromTheTop' /\ AheadIsEmpty' /\ TokenLedgerAgrees'
    BY <2>2, <2>3, <2>5, ChargeKeeps
  <2>7. TypeOK'
    BY <1>0, <1>1, <2>4, <2>6 DEF AdmitAdopted, TypeOK, ceilings, tasks, runs
  <2> QED BY <2>6, <2>7 DEF IInv
<1>2. ASSUME NEW t \in Tasks, NEW a \in Accounts, Admit(t, a) PROVE IInv'
  <2>1. /\ tokensSpent' \in [Accounts -> Nat] /\ periodStart' \in [Accounts -> Nat]
        /\ tokensReserved' \in [Accounts -> Nat] /\ moneySpent' \in [Accounts -> Nat]
        /\ TokensWithinCeiling' /\ OpenedFromTheTop' /\ AheadIsEmpty' /\ TokenLedgerAgrees'
    BY <1>0, <1>2, ReserveKeeps DEF Admit, ceilings
  <2>2. TypeOK'
    BY <1>0, <1>2, <2>1 DEF Admit, TypeOK, ceilings, runs
  <2> QED BY <2>1, <2>2 DEF IInv
<1>3. ASSUME NEW t \in Tasks, NEW to \in {"halted", "ended"}, End(t, to) PROVE IInv'
  <2>1. tokensReserved' \in [Accounts -> Nat]
    BY <1>3 DEF End, Release, AtLeastZero
  <2>2. TypeOK'
    BY <1>0, <1>3, <2>1 DEF End, TypeOK, ceilings, runs
  <2> QED BY <1>3, <2>2, QuietKeeps DEF End, ceilings, IInv
<1>4. ASSUME NEW t \in Tasks, ContinueHalted(t) PROVE IInv'
  <2>1. taskAccount[t] \in opened
    BY <1>4, TaskAccountOpen DEF ContinueHalted
  <2>2. /\ tokensSpent' \in [Accounts -> Nat] /\ periodStart' \in [Accounts -> Nat]
        /\ tokensReserved' \in [Accounts -> Nat] /\ moneySpent' \in [Accounts -> Nat]
        /\ TokensWithinCeiling' /\ OpenedFromTheTop' /\ AheadIsEmpty' /\ TokenLedgerAgrees'
    BY <1>0, <1>4, <2>1, ReserveKeeps DEF ContinueHalted, ceilings
  <2>3. TypeOK'
    BY <1>0, <1>4, <2>2 DEF ContinueHalted, TypeOK, ceilings, runs
  <2> QED BY <2>2, <2>3 DEF IInv
<1>5. ASSUME NEW T \in SUBSET Tasks, Cancel(T) PROVE IInv'
  <2>1. tokensReserved' \in [Accounts -> Nat]
    BY <1>5 DEF Cancel, Release, AtLeastZero
  <2>2. TypeOK'
    BY <1>0, <1>5, <2>1 DEF Cancel, TypeOK, ceilings, runs
  <2> QED BY <1>5, <2>2, QuietKeeps DEF Cancel, ceilings, IInv
<1> QED BY <1>1, <1>2, <1>3, <1>4, <1>5 DEF TaskNext

LEMMA SpendKeeps ==
    ASSUME IInv, NEW a \in opened, NEW n \in Nat, NEW cents \in Nat, NEW drawn \in Nat,
           Spend(a, n, cents, drawn), UNCHANGED <<month, opened, tokensMax>>
    PROVE  /\ tokensSpent' \in [Accounts -> Nat] /\ periodStart' \in [Accounts -> Nat]
           /\ tokensReserved' \in [Accounts -> Nat] /\ moneySpent' \in [Accounts -> Nat]
           /\ TokensWithinCeiling' /\ OpenedFromTheTop' /\ AheadIsEmpty'
           /\ TokenLedgerAgrees'
<1>1. \A c \in Accounts : /\ tokensReserved[c] \in Nat
                          /\ Spent(Chain[a])[c] \in Nat /\ Money(Chain[a])[c] \in Nat
  BY DEF IInv, TypeOK, Spent, Money, Passed
<1>2. /\ tokensSpent' \in [Accounts -> Nat]
      /\ moneySpent' \in [Accounts -> Nat]
      /\ tokensReserved' \in [Accounts -> Nat]
  BY <1>1 DEF Spend, AtLeastZero
<1>3. ChargedTo(Chain[a], n)
  BY <1>2 DEF Spend, ChargedTo
<1>4. \A c \in Chain[a] : Spent(Chain[a])[c] + n <= tokensMax[c]
  BY DEF Spend, CanSpend
<1> QED BY <1>2, <1>3, <1>4, OpenIsClosed, ChargeKeeps

\* A settlement moves money only.
LEMMA SettleKeeps ==
    ASSUME IInv, NEW a, NEW delta, Settle(a, delta), UNCHANGED <<month, opened, tokensMax>>
    PROVE  /\ moneySpent' \in [Accounts -> Nat]
           /\ UNCHANGED <<tokensSpent, tokensReserved, periodStart>>
           /\ TokensWithinCeiling' /\ OpenedFromTheTop' /\ AheadIsEmpty'
           /\ TokenLedgerAgrees'
<1>1. UNCHANGED <<tokensSpent, tokensReserved, periodStart>>
  BY DEF Settle
<1>2. moneySpent' \in [Accounts -> Nat]
  BY DEF Settle, IInv, TypeOK, AtLeastZero
<1> QED BY <1>1, <1>2, QuietKeeps

LEMMA RunKeeps == IInv /\ RunNext => IInv'
<1> SUFFICES ASSUME IInv, NEW t \in Tasks,
                    \/ StartRun(t) \/ EndRun(t) \/ RefundEstimate(t)
                    \/ \E n \in TokenAmounts, m \in MoneyAmounts :
                          ReportUsage(t, n, m) \/ UsageRefused(t, n, m)
                    \/ \E m \in MoneyAmounts :
                          RunBill(t, m) \/ ChargeEstimate(t, m) \/ SettleActual(t, m)
             PROVE  IInv'
  BY DEF RunNext
<1>0. TypeOK /\ opened \subseteq Accounts
  BY DEF IInv, TypeOK
<1>1. CASE StartRun(t)
  <2>1. TypeOK'
    BY <1>0, <1>1 DEF StartRun, TypeOK, counts, ceilings, tasks
  <2> QED BY <1>1, <2>1, QuietKeeps DEF StartRun, counts, ceilings, IInv
<1>2. CASE EndRun(t)
  <2>1. TypeOK'
    BY <1>0, <1>2 DEF EndRun, TypeOK, counts, ceilings, tasks
  <2> QED BY <1>2, <2>1, QuietKeeps DEF EndRun, counts, ceilings, IInv
<1>3. CASE RefundEstimate(t)
  <2>1. TypeOK'
    BY <1>0, <1>3, SettleKeeps DEF RefundEstimate, TypeOK, ceilings, tasks
  <2> QED BY <1>3, <2>1, SettleKeeps DEF RefundEstimate, ceilings, IInv
<1>4. ASSUME NEW n \in TokenAmounts, NEW m \in MoneyAmounts, ReportUsage(t, n, m)
      PROVE  IInv'
  <2> DEFINE drawn == Lesser(taskReserved[t], n)
  <2>1. n \in Nat /\ m \in Nat /\ taskReserved[t] \in Nat /\ runCharged[t] \in Nat
    BY <1>0, AmountAssumption DEF TypeOK
  <2>2. drawn \in Nat /\ taskReserved[t] - drawn \in Nat
    BY <2>1 DEF Lesser
  <2>3. taskAccount[t] \in opened
    BY <1>0, <1>4, TaskAccountOpen DEF ReportUsage, TypeOK
  <2>4. /\ tokensSpent' \in [Accounts -> Nat] /\ periodStart' \in [Accounts -> Nat]
        /\ tokensReserved' \in [Accounts -> Nat] /\ moneySpent' \in [Accounts -> Nat]
        /\ TokensWithinCeiling' /\ OpenedFromTheTop' /\ AheadIsEmpty' /\ TokenLedgerAgrees'
    BY <1>4, <2>1, <2>2, <2>3, SpendKeeps DEF ReportUsage, ceilings
  <2>5. taskReserved' \in [Tasks -> Nat] /\ runCharged' \in [Tasks -> Nat]
    BY <1>0, <1>4, <2>1, <2>2 DEF ReportUsage, TypeOK
  <2>6. TypeOK'
    BY <1>0, <1>4, <2>4, <2>5 DEF ReportUsage, TypeOK, ceilings
  <2> QED BY <2>4, <2>6 DEF IInv
<1>5. ASSUME NEW n \in TokenAmounts, NEW m \in MoneyAmounts, UsageRefused(t, n, m)
      PROVE  IInv'
  <2> DEFINE S == Chain[taskAccount[t]]
  <2>1. m \in Nat /\ taskAccount[t] \in opened
    BY <1>0, <1>5, AmountAssumption, TaskAccountOpen DEF UsageRefused, TypeOK
  <2>2. Spent(S) \in [Accounts -> Nat] /\ \A c \in Accounts : Money(S)[c] \in Nat
    BY <1>0 DEF Spent, Money, Passed, TypeOK
  <2>3. ChargedTo(S, 0)
    BY <1>5, <2>2 DEF UsageRefused, ChargedTo, ceilings
  <2>4. \A c \in S : Spent(S)[c] + 0 <= tokensMax[c]
    BY <1>0, <2>1, <2>2, OpenIsClosed
    DEF Spent, Passed, TypeOK, IInv, TokensWithinCeiling, IsClosed
  <2>5. /\ tokensSpent' \in [Accounts -> Nat] /\ periodStart' \in [Accounts -> Nat]
        /\ TokensWithinCeiling' /\ OpenedFromTheTop' /\ AheadIsEmpty' /\ TokenLedgerAgrees'
    BY <2>1, <2>3, <2>4, OpenIsClosed, ChargeKeeps
  <2>6. moneySpent' \in [Accounts -> Nat]
    BY <1>5, <2>1, <2>2 DEF UsageRefused
  <2>7. TypeOK'
    BY <1>0, <1>5, <2>5, <2>6 DEF UsageRefused, TypeOK, ceilings, tasks
  <2> QED BY <2>5, <2>7 DEF IInv
<1>6. ASSUME NEW m \in MoneyAmounts, RunBill(t, m) PROVE IInv'
  <2>1. m \in Nat
    BY AmountAssumption
  <2>2. TypeOK'
    BY <1>0, <1>6, <2>1, SettleKeeps DEF RunBill, TypeOK, ceilings, tasks
  <2> QED BY <1>6, <2>2, SettleKeeps DEF RunBill, ceilings, IInv
<1>7. ASSUME NEW m \in MoneyAmounts, ChargeEstimate(t, m) PROVE IInv'
  <2>1. m \in Nat
    BY AmountAssumption
  <2>2. taskAccount[t] \in opened
    BY <1>0, <1>7, TaskAccountOpen DEF ChargeEstimate, TypeOK
  <2>3. /\ tokensSpent' \in [Accounts -> Nat] /\ periodStart' \in [Accounts -> Nat]
        /\ tokensReserved' \in [Accounts -> Nat] /\ moneySpent' \in [Accounts -> Nat]
        /\ TokensWithinCeiling' /\ OpenedFromTheTop' /\ AheadIsEmpty' /\ TokenLedgerAgrees'
    BY <1>7, <2>1, <2>2, SpendKeeps DEF ChargeEstimate, ceilings
  <2>4. TypeOK'
    BY <1>0, <1>7, <2>1, <2>3 DEF ChargeEstimate, TypeOK, ceilings, tasks
  <2> QED BY <2>3, <2>4 DEF IInv
<1>8. ASSUME NEW m \in MoneyAmounts, SettleActual(t, m) PROVE IInv'
  <2>1. TypeOK'
    BY <1>0, <1>8, SettleKeeps DEF SettleActual, TypeOK, ceilings, tasks
  <2> QED BY <1>8, <2>1, SettleKeeps DEF SettleActual, ceilings, IInv
<1> QED BY <1>1, <1>2, <1>3, <1>4, <1>5, <1>6, <1>7, <1>8

LEMMA ClockKeeps == IInv /\ (StartNewPeriods \/ NextMonth) => IInv'
<1>0. IInv => TypeOK /\ opened \subseteq Accounts
  BY DEF IInv, TypeOK
<1>1. ASSUME IInv, StartNewPeriods PROVE IInv'
  <2>1. Spent(opened) \in [Accounts -> Nat] /\ Money(opened) \in [Accounts -> Nat]
    BY <1>0, <1>1 DEF Spent, Money, Passed, TypeOK
  <2>2. ChargedTo(opened, 0)
    BY <1>1, <2>1 DEF StartNewPeriods, ChargedTo, ceilings
  <2>3. \A c \in opened : Spent(opened)[c] + 0 <= tokensMax[c]
    BY <1>0, <1>1, <2>1 DEF Spent, Passed, TypeOK, IInv, TokensWithinCeiling
  <2>4. /\ tokensSpent' \in [Accounts -> Nat] /\ periodStart' \in [Accounts -> Nat]
        /\ TokensWithinCeiling' /\ OpenedFromTheTop' /\ AheadIsEmpty' /\ TokenLedgerAgrees'
    BY <1>1, <2>2, <2>3, AllIsClosed, ChargeKeeps
  <2>5. TypeOK'
    BY <1>0, <1>1, <2>1, <2>4 DEF StartNewPeriods, TypeOK, ceilings, tasks, runs
  <2> QED BY <2>4, <2>5 DEF IInv
<1>2. ASSUME IInv, NextMonth PROVE IInv'
  <2>1. TypeOK'
    BY <1>0, <1>2 DEF NextMonth, TypeOK, counts, ceilings, tasks, runs
  <2>2. /\ UNCHANGED <<tokensSpent, tokensMax, periodStart, opened>>
        /\ month \in Nat /\ month' = month + 1 /\ periodStart \in [Accounts -> Nat]
    BY <1>0, <1>2 DEF NextMonth, counts, ceilings, TypeOK
  <2> QED BY <1>2, <2>1, <2>2 DEF IInv, TokensWithinCeiling, OpenedFromTheTop, AheadIsEmpty,
                                  TokenLedgerAgrees
<1> QED BY <1>1, <1>2

LEMMA StutterKeeps == IInv /\ UNCHANGED vars => IInv'
  BY DEF vars, counts, ceilings, tasks, runs, IInv, TypeOK, TokensWithinCeiling,
         OpenedFromTheTop, AheadIsEmpty, TokenLedgerAgrees

LEMMA NextKeeps == IInv /\ [Next]_vars => IInv'
  BY OwnerKeeps, TaskKeeps, RunKeeps, ClockKeeps, StutterKeeps DEF Next

\* Whatever the tree of accounts, no account's month spends more tokens than
\* its ceiling (budget_spend, setCeilings, budget_new_period).
THEOREM BudgetCeiling == Spec => [](TypeOK /\ TokensWithinCeiling)
<1>1. IInv => TypeOK /\ TokensWithinCeiling
  BY DEF IInv
<1> QED BY <1>1, InitIInv, NextKeeps, PTL DEF Spec

\* Whatever the tree, no account claims to have spent more of a month's tokens
\* than the account above it counts for that month (0024, 0101).
THEOREM BudgetLedger == Spec => []TokenLedgerAgrees
<1>1. IInv => TokenLedgerAgrees
  BY DEF IInv
<1> QED BY <1>1, InitIInv, NextKeeps, PTL DEF Spec

\* Counts never go below zero, nor reservations, however releases, settlements
\* and new periods come (AtLeastZero, budget_release, budget_settle).
THEOREM CountsAreCounts == Spec => []TypeOK
<1>1. IInv => TypeOK
  BY DEF IInv
<1> QED BY <1>1, InitIInv, NextKeeps, PTL DEF Spec
-----------------------------------------------------------------------------
(* Sums over finite sets.                                                  *)

\* A set of numbers that has zero and with each number the next has them all.
LEMMA Counting ==
    ASSUME NEW T, 0 \in T, \A n \in T \cap Nat : n + 1 \in T
    PROVE  \A n \in Nat : n \in T
<1> SUFFICES ASSUME NEW n \in Nat, n \notin T PROVE FALSE
  OBVIOUS
<1> DEFINE Missed == {m \in Nat : m \notin T}
<1>1. Missed \subseteq Nat /\ Missed # {}
  OBVIOUS
<1>2. PICK m \in Missed : \A k \in Missed : ~(<<k, m>> \in OpToRel(<, Nat))
  BY <1>1, NatLessThanWellFounded, WFMin
<1>3. m # 0 /\ m - 1 \in Nat /\ <<m - 1, m>> \in OpToRel(<, Nat)
  BY <1>2 DEF OpToRel
<1>4. m - 1 \in T
  BY <1>2, <1>3
<1>5. (m - 1) + 1 = m
  <2>1. m \in Nat
    OBVIOUS
  <2> HIDE DEF Missed
  <2> QED  BY <2>1
<1>6. (m - 1) + 1 \in T
  BY <1>3, <1>4
<1> QED
  BY <1>2, <1>5, <1>6

Pick(s) == CHOOSE x \in s : TRUE

\* One step of a sum: what it is over s, from what it is over less.
Added(f, g, s) == IF s = {} THEN 0 ELSE f[Pick(s)] + g[s \ {Pick(s)}]
Sums(f, D, g) == g = [s \in SUBSET D |-> Added(f, g, s)]

LEMMA SumIs == ASSUME NEW f, NEW D PROVE SumFunctionOnSet(f, D) = (CHOOSE g : Sums(f, D, g))[D]
  BY DEF SumFunctionOnSet, FoldFunctionOnSet, MapThenFoldSet, Sums, Added, Pick

LEMMA PickType == ASSUME NEW s, s # {} PROVE Pick(s) \in s
  BY DEF Pick

LEMMA PickLess ==
    ASSUME NEW D, IsFiniteSet(D), NEW s \in SUBSET D, s # {}
    PROVE  /\ s \ {Pick(s)} \in SUBSET D
           /\ Cardinality(s) \in Nat /\ Cardinality(s) # 0
           /\ Cardinality(s \ {Pick(s)}) = Cardinality(s) - 1
<1>1. IsFiniteSet(s) /\ Cardinality(s) \in Nat
  BY FS_Subset, FS_CardinalityType
<1>2. Cardinality(s \ {Pick(s)}) = Cardinality(s) - 1
  BY <1>1, PickType, FS_RemoveElement
<1>3. Cardinality(s) # 0
  BY <1>1, FS_EmptySet
<1> QED
  BY <1>1, <1>2, <1>3

\* There is a function that sums over the subsets of a finite set.
LEMMA SumsExist ==
    ASSUME NEW f, NEW D, IsFiniteSet(D)
    PROVE  \E g : Sums(f, D, g)
<1> DEFINE UpTo(g, n) == \A s \in SUBSET D : Cardinality(s) <= n => g[s] = Added(f, g, s)
           T == {n \in Nat : \E g : UpTo(g, n)}
<1>0. \A s \in SUBSET D : Cardinality(s) \in Nat /\ (Cardinality(s) = 0 => s = {})
  BY FS_Subset, FS_CardinalityType, FS_EmptySet
<1>1. 0 \in T
  <2> DEFINE g == [s \in SUBSET D |-> 0]
  <2>1. \A s \in SUBSET D : Cardinality(s) <= 0 => g[s] = Added(f, g, s)
    BY <1>0 DEF Added
  <2> QED  BY <2>1
<1>2. ASSUME NEW n \in T \cap Nat PROVE n + 1 \in T
  <2>1. PICK g : UpTo(g, n)
    BY <1>2
  <2> DEFINE h == [s \in SUBSET D |-> IF Cardinality(s) <= n THEN g[s] ELSE Added(f, g, s)]
  <2>2. ASSUME NEW s \in SUBSET D, Cardinality(s) <= n + 1 PROVE h[s] = Added(f, h, s)
    <3>1. h[s] = Added(f, g, s)
      BY <2>1
    <3>2. CASE s = {}
      BY <3>1, <3>2 DEF Added
    <3>3. CASE s # {}
      <4>1. s \ {Pick(s)} \in SUBSET D /\ Cardinality(s \ {Pick(s)}) <= n
        BY <2>2, <3>3, PickLess
      <4>2. h[s \ {Pick(s)}] = g[s \ {Pick(s)}]
        BY <4>1
      <4> HIDE DEF h
      <4> QED  BY <3>1, <3>3, <4>2 DEF Added
    <3> QED  BY <3>2, <3>3
  <2>3. UpTo(h, n + 1)
    BY <2>2
  <2> HIDE DEF h, UpTo
  <2> QED  BY <2>3
<1>3. Cardinality(D) \in T
  <2> HIDE DEF T
  <2> QED  BY <1>1, <1>2, Counting, FS_CardinalityType
<1>4. PICK g : \A s \in SUBSET D : Cardinality(s) <= Cardinality(D) => g[s] = Added(f, g, s)
  BY <1>3
<1> DEFINE h == [s \in SUBSET D |-> g[s]]
<1>5. ASSUME NEW s \in SUBSET D PROVE h[s] = Added(f, h, s)
  <2>1. g[s] = Added(f, g, s)
    BY <1>4, FS_Subset
  <2>2. s \ {Pick(s)} \in SUBSET D
    OBVIOUS
  <2> QED  BY <2>1, <2>2 DEF Added
<1>6. h = [s \in SUBSET D |-> Added(f, h, s)]
  BY <1>5
<1> QED
  BY <1>6 DEF Sums

\* Any two agree wherever both sum.
LEMMA SumsAgree ==
    ASSUME NEW f, NEW D, IsFiniteSet(D), NEW E \in SUBSET D, NEW g, NEW h, Sums(f, D, g), Sums(f, E, h)
    PROVE  \A s \in SUBSET E : g[s] = h[s]
<1> DEFINE T == {n \in Nat : \A s \in SUBSET E : Cardinality(s) = n => g[s] = h[s]}
<1>0. \A s \in SUBSET E : g[s] = Added(f, g, s) /\ h[s] = Added(f, h, s)
  BY DEF Sums
<1>1. \A s \in SUBSET E : Cardinality(s) \in Nat /\ (Cardinality(s) = 0 => s = {})
  BY FS_Subset, FS_CardinalityType, FS_EmptySet
<1>2. 0 \in T
  BY <1>0, <1>1 DEF Added
<1>3. ASSUME NEW n \in T \cap Nat PROVE n + 1 \in T
  <2>1. ASSUME NEW s \in SUBSET E, Cardinality(s) = n + 1 PROVE g[s] = h[s]
    <3>1. s # {}
      <4>1. n \in Nat
        OBVIOUS
      <4>2. Cardinality(s) # 0
        BY <2>1, <4>1
      <4> QED  BY <4>2, FS_EmptySet
    <3>2. s \ {Pick(s)} \in SUBSET E /\ Cardinality(s \ {Pick(s)}) = n
      BY <1>3, <2>1, <3>1, PickLess
    <3>3. g[s \ {Pick(s)}] = h[s \ {Pick(s)}]
      BY <1>3, <3>2
    <3> QED  BY <1>0, <3>1, <3>3 DEF Added
  <2> QED  BY <1>3, <2>1
<1>4. \A n \in Nat : n \in T
  <2> HIDE DEF T
  <2> QED  BY <1>2, <1>3, Counting
<1> QED
  BY <1>1, <1>4

\* A sum over a finite set is nothing, or what is picked and the rest.
LEMMA SumStep ==
    ASSUME NEW f, NEW D, IsFiniteSet(D)
    PROVE  /\ D = {} => SumFunctionOnSet(f, D) = 0
           /\ D # {} => SumFunctionOnSet(f, D) = f[Pick(D)] + SumFunctionOnSet(f, D \ {Pick(D)})
<1>1. PICK g : Sums(f, D, g) /\ SumFunctionOnSet(f, D) = g[D]
  BY SumsExist, SumIs
<1>2. g[D] = Added(f, g, D)
  BY <1>1 DEF Sums
<1>3. CASE D # {}
  <2> DEFINE E == D \ {Pick(D)}
  <2>1. IsFiniteSet(E) /\ E \in SUBSET D
    BY FS_Subset
  <2>2. PICK h : Sums(f, E, h) /\ SumFunctionOnSet(f, E) = h[E]
    BY <2>1, SumsExist, SumIs
  <2>3. g[E] = h[E]
    BY <1>1, <2>1, <2>2, SumsAgree
  <2> QED  BY <1>1, <1>2, <1>3, <2>2, <2>3 DEF Added
<1> QED
  BY <1>1, <1>2, <1>3 DEF Added

\* Over finite sets there is an induction: what holds of nothing, and with a
\* set of it with one more, holds of the whole.
LEMMA OneByOne ==
    ASSUME NEW D, IsFiniteSet(D), NEW T \in SUBSET (SUBSET D), {} \in T,
           \A s \in T : \A x \in D \ s : s \cup {x} \in T
    PROVE  D \in T
<1> DEFINE N == {n \in Nat : \A s \in SUBSET D : Cardinality(s) = n => s \in T}
<1>0. \A s \in SUBSET D : /\ IsFiniteSet(s) /\ Cardinality(s) \in Nat
                          /\ Cardinality(s) = 0 <=> s = {}
  BY FS_Subset, FS_CardinalityType, FS_EmptySet
<1>1. 0 \in N
  BY <1>0
<1>2. ASSUME NEW n \in N \cap Nat PROVE n + 1 \in N
  <2>1. ASSUME NEW s \in SUBSET D, Cardinality(s) = n + 1 PROVE s \in T
    <3>1. n \in Nat
      OBVIOUS
    <3>2. s # {}
      BY <1>0, <2>1, <3>1
    <3>3. Pick(s) \in s /\ s \ {Pick(s)} \in SUBSET D /\ Cardinality(s \ {Pick(s)}) = n
      BY <2>1, <3>1, <3>2, PickLess, PickType
    <3>4. s \ {Pick(s)} \in T
      BY <3>3
    <3>5. (s \ {Pick(s)}) \cup {Pick(s)} \in T
      BY <3>3, <3>4
    <3>6. (s \ {Pick(s)}) \cup {Pick(s)} = s
      BY <3>3
    <3> QED  BY <3>5, <3>6
  <2> QED  BY <2>1
<1>3. Cardinality(D) \in N
  <2> HIDE DEF N
  <2> QED  BY <1>0, <1>1, <1>2, Counting
<1> QED  BY <1>3

\* A sum of numbers is a number, and any one of them can be taken out.
LEMMA SumTakeOut ==
    ASSUME NEW f, NEW D, IsFiniteSet(D), \A x \in D : f[x] \in Nat
    PROVE  /\ SumFunctionOnSet(f, D) \in Nat
           /\ \A x \in D : SumFunctionOnSet(f, D) = f[x] + SumFunctionOnSet(f, D \ {x})
<1> DEFINE S(s) == SumFunctionOnSet(f, s)
           Fine(s) == S(s) \in Nat /\ \A x \in s : S(s) = f[x] + S(s \ {x})
           N == {n \in Nat : \A s \in SUBSET D : Cardinality(s) <= n => Fine(s)}
<1>0. \A s \in SUBSET D : /\ IsFiniteSet(s) /\ Cardinality(s) \in Nat
                          /\ Cardinality(s) = 0 <=> s = {}
  BY FS_Subset, FS_CardinalityType, FS_EmptySet
<1>1. \A s \in SUBSET D : /\ s = {} => S(s) = 0
                          /\ s # {} => S(s) = f[Pick(s)] + S(s \ {Pick(s)})
  BY <1>0, SumStep
<1> HIDE DEF S
<1>2. 0 \in N
  <2>1. Fine({})
    <3>1. S({}) = 0
      BY <1>1
    <3> QED  BY <3>1
  <2> HIDE DEF Fine
  <2>2. ASSUME NEW s \in SUBSET D, Cardinality(s) <= 0 PROVE s = {}
    <3>1. Cardinality(s) \in Nat /\ (Cardinality(s) = 0 <=> s = {})
      BY <1>0
    <3> QED  BY <2>2, <3>1
  <2> QED  BY <2>1, <2>2
<1>3. ASSUME NEW n \in N \cap Nat PROVE n + 1 \in N
  <2>0. n \in Nat /\ \A s \in SUBSET D : Cardinality(s) <= n => Fine(s)
    OBVIOUS
  <2> HIDE DEF N
  <2>1. ASSUME NEW s \in SUBSET D, Cardinality(s) <= n + 1, s # {} PROVE Fine(s)
    <3> DEFINE c == Pick(s)
    <3>1. c \in s /\ S(s) = f[c] + S(s \ {c}) /\ f[c] \in Nat
      BY <1>1, <2>1, PickType
    <3>2. ASSUME NEW x \in s PROVE s \ {x} \in SUBSET D /\ Cardinality(s \ {x}) <= n
      BY <1>0, <2>0, <2>1, FS_RemoveElement
    <3>3. S(s \ {c}) \in Nat
      BY <2>0, <3>1, <3>2
    <3>4. ASSUME NEW x \in s, x # c PROVE S(s) = f[x] + S(s \ {x})
      <4>1. S(s \ {c}) = f[x] + S((s \ {c}) \ {x})
        BY <2>0, <3>1, <3>2, <3>4
      <4>2. S(s \ {x}) = f[c] + S((s \ {x}) \ {c}) /\ S(s \ {x}) \in Nat
        BY <2>0, <3>1, <3>2, <3>4
      <4>3. (s \ {c}) \ {x} = (s \ {x}) \ {c}
        OBVIOUS
      <4>4. S((s \ {x}) \ {c}) \in Nat /\ f[x] \in Nat
        <5>1. (s \ {x}) \ {c} \in SUBSET D /\ Cardinality((s \ {x}) \ {c}) <= n
          <6>1. s \ {x} \in SUBSET D /\ IsFiniteSet(s \ {x}) /\ Cardinality(s \ {x}) <= n
            BY <1>0, <3>2
          <6>2. (s \ {x}) \ {c} \in SUBSET D /\ Cardinality((s \ {x}) \ {c}) <= Cardinality(s \ {x})
            BY <6>1, FS_Subset
          <6> QED  BY <1>0, <2>0, <6>1, <6>2
        <5> QED  BY <2>0, <5>1
      <4>5. S(s) = f[c] + (f[x] + S((s \ {x}) \ {c}))
        BY <3>1, <4>1, <4>3
      <4> HIDE DEF c, Fine
      <4> QED  BY <3>1, <4>2, <4>4, <4>5
    <3>5. S(s) \in Nat
      BY <3>1, <3>3
    <3> QED  BY <3>1, <3>4, <3>5
  <2>2. Fine({})
    BY <1>1
  <2>3. \A s \in SUBSET D : Cardinality(s) <= n + 1 => Fine(s)
    BY <2>1, <2>2
  <2> QED  BY <2>0, <2>3 DEF N
<1>4. Cardinality(D) \in N
  <2> HIDE DEF N
  <2> QED  BY <1>0, <1>2, <1>3, Counting
<1>5. Fine(D)
  BY <1>0, <1>4
<1> QED
  BY <1>5 DEF S

\* It is what its terms are.
LEMMA SumSame ==
    ASSUME NEW f, NEW g, NEW D, IsFiniteSet(D), \A x \in D : f[x] \in Nat /\ g[x] = f[x]
    PROVE  SumFunctionOnSet(g, D) = SumFunctionOnSet(f, D)
<1> DEFINE T == {s \in SUBSET D : SumFunctionOnSet(g, s) = SumFunctionOnSet(f, s)}
<1>0. \A s \in SUBSET D : IsFiniteSet(s)
  BY FS_Subset
<1>1. {} \in T
  BY <1>0, SumStep
<1>2. ASSUME NEW s \in T, NEW x \in D \ s PROVE s \cup {x} \in T
  <2>1. s \cup {x} \in SUBSET D /\ (s \cup {x}) \ {x} = s
    OBVIOUS
  <2>2. /\ SumFunctionOnSet(f, s \cup {x}) = f[x] + SumFunctionOnSet(f, s)
        /\ SumFunctionOnSet(g, s \cup {x}) = g[x] + SumFunctionOnSet(g, s)
    BY <1>0, <2>1, SumTakeOut
  <2> QED  BY <2>1, <2>2
<1> HIDE DEF T
<1>3. D \in T
  BY <1>1, <1>2, OneByOne DEF T
<1> QED
  BY <1>3 DEF T

\* A sum is the sum over a part and the sum over the rest.
LEMMA SumSplit ==
    ASSUME NEW f, NEW D, IsFiniteSet(D), \A x \in D : f[x] \in Nat, NEW B \in SUBSET D
    PROVE  SumFunctionOnSet(f, D) = SumFunctionOnSet(f, B) + SumFunctionOnSet(f, D \ B)
<1> DEFINE S(s) == SumFunctionOnSet(f, s)
           T == {s \in SUBSET B : S(D) = S(s) + S(D \ s)}
<1>0. \A s \in SUBSET D : IsFiniteSet(s)
  BY FS_Subset
<1>1. \A s \in SUBSET D : S(s) \in Nat /\ \A x \in s : S(s) = f[x] + S(s \ {x})
  BY <1>0, SumTakeOut
<1>2. S({}) = 0
  BY <1>0, SumStep
<1> HIDE DEF S
<1>3. {} \in T
  <2>1. D \ {} = D
    OBVIOUS
  <2> QED  BY <1>1, <1>2, <2>1
<1>4. ASSUME NEW s \in T, NEW x \in B \ s PROVE s \cup {x} \in T
  <2>1. /\ s \cup {x} \in SUBSET B /\ (s \cup {x}) \ {x} = s
        /\ D \ s \in SUBSET D /\ x \in D \ s /\ (D \ s) \ {x} = D \ (s \cup {x})
    OBVIOUS
  <2>2. S(s \cup {x}) = f[x] + S(s) /\ S(s) \in Nat
    BY <1>1, <2>1
  <2>3. S(D \ s) = f[x] + S(D \ (s \cup {x})) /\ S(D \ (s \cup {x})) \in Nat
    BY <1>1, <2>1
  <2>4. S(D) = S(s) + S(D \ s)
    OBVIOUS
  <2>5. S(D) = S(s \cup {x}) + S(D \ (s \cup {x}))
    BY <2>1, <2>2, <2>3, <2>4
  <2> QED  BY <2>1, <2>5
<1> HIDE DEF T
<1>5. B \in T
  BY <1>0, <1>3, <1>4, OneByOne DEF T
<1> QED
  BY <1>5 DEF T, S

\* And nothing when every term is.
LEMMA SumOfNothing ==
    ASSUME NEW f, NEW D, IsFiniteSet(D), \A x \in D : f[x] = 0
    PROVE  SumFunctionOnSet(f, D) = 0
<1> DEFINE T == {s \in SUBSET D : SumFunctionOnSet(f, s) = 0}
<1>0. \A s \in SUBSET D : IsFiniteSet(s)
  BY FS_Subset
<1>1. {} \in T
  BY <1>0, SumStep
<1>2. ASSUME NEW s \in T, NEW x \in D \ s PROVE s \cup {x} \in T
  <2>1. s \cup {x} \in SUBSET D /\ (s \cup {x}) \ {x} = s
    OBVIOUS
  <2>2. SumFunctionOnSet(f, s \cup {x}) = f[x] + SumFunctionOnSet(f, s)
    BY <1>0, <2>1, SumTakeOut
  <2> QED  BY <2>1, <2>2
<1> HIDE DEF T
<1>3. D \in T
  BY <1>1, <1>2, OneByOne DEF T
<1> QED
  BY <1>3 DEF T

\* When one term changes, the sum changes with it.
LEMMA SumChange ==
    ASSUME NEW f, NEW g, NEW D, IsFiniteSet(D), NEW x \in D,
           \A y \in D : f[y] \in Nat /\ g[y] \in Nat /\ (y # x => g[y] = f[y])
    PROVE  /\ SumFunctionOnSet(f, D) \in Nat
           /\ SumFunctionOnSet(g, D) = (SumFunctionOnSet(f, D) - f[x]) + g[x]
<1>1. IsFiniteSet(D \ {x})
  BY FS_Subset
<1>2. /\ SumFunctionOnSet(f, D) \in Nat /\ SumFunctionOnSet(f, D \ {x}) \in Nat
      /\ SumFunctionOnSet(f, D) = f[x] + SumFunctionOnSet(f, D \ {x})
      /\ SumFunctionOnSet(g, D) = g[x] + SumFunctionOnSet(g, D \ {x})
  BY <1>1, SumTakeOut
<1>3. SumFunctionOnSet(g, D \ {x}) = SumFunctionOnSet(f, D \ {x})
  BY <1>1, SumSame
<1>4. f[x] \in Nat /\ g[x] \in Nat
  OBVIOUS
<1> QED
  BY <1>2, <1>3, <1>4

-----------------------------------------------------------------------------
(* What is reserved is held.                                               *)

\* The tasks that may hold some of an account's reservation.
Holders(a) == {t \in {u \in Tasks : taskState[u] # "new"} : a \in Chain[taskAccount[t]]}

\* Only a live task holds any.
HeldInv ==
    /\ \A a \in Accounts : tokensReserved[a] = SumFunctionOnSet(taskReserved, Holders(a))
    /\ \A t \in Tasks : taskState[t] # "live" => taskReserved[t] = 0

LEMMA HoldersAreFinite ==
    ASSUME TypeOK, NEW a
    PROVE  /\ Holders(a) \in SUBSET Tasks /\ IsFiniteSet(Holders(a))
           /\ \A t \in Holders(a) : taskReserved[t] \in Nat
<1>1. Holders(a) \in SUBSET Tasks
  BY DEF Holders
<1> QED
  BY <1>1, ChainAssumption, FS_Subset DEF TypeOK

\* What one task holds changes, and every account of its chain with it.
LEMMA HeldChange ==
    ASSUME TypeOK, HeldInv, NEW t \in Tasks, taskState[t] # "new", taskState'[t] # "new",
           \A u \in Tasks : u # t => taskState'[u] = taskState[u],
           NEW n \in Nat, taskState'[t] = "live" \/ n = 0, taskReserved' = [taskReserved EXCEPT ![t] = n], UNCHANGED taskAccount,
           \A a \in Accounts : tokensReserved'[a] =
              IF a \in Chain[taskAccount[t]] THEN (tokensReserved[a] - taskReserved[t]) + n
              ELSE tokensReserved[a]
    PROVE  HeldInv'
<1>1. ASSUME NEW a \in Accounts PROVE Holders(a)' = Holders(a)
  BY DEF Holders
<1>2. \A u \in Tasks : /\ taskReserved[u] \in Nat /\ taskReserved'[u] \in Nat
                       /\ u # t => taskReserved'[u] = taskReserved[u]
                       /\ u = t => taskReserved'[u] = n
  BY DEF TypeOK
<1>3. ASSUME NEW a \in Accounts PROVE tokensReserved'[a] = SumFunctionOnSet(taskReserved', Holders(a))
  <2>1. /\ Holders(a) \in SUBSET Tasks /\ IsFiniteSet(Holders(a))
        /\ tokensReserved[a] = SumFunctionOnSet(taskReserved, Holders(a))
    BY HoldersAreFinite DEF HeldInv
  <2>2. t \in Holders(a) <=> a \in Chain[taskAccount[t]]
    BY DEF Holders
  <2> DEFINE D == Holders(a)
             f == taskReserved
             g == taskReserved'
  <2>3. /\ \A u \in D : f[u] \in Nat /\ g[u] \in Nat /\ (u # t => g[u] = f[u])
        /\ g[t] = n
    BY <1>2, <2>1
  <2>4. IsFiniteSet(D)
    BY <2>1
  <2> HIDE DEF D, f, g
  <2>5. CASE t \in D
    <3>1. SumFunctionOnSet(g, D) = (SumFunctionOnSet(f, D) - f[t]) + g[t]
      BY <2>3, <2>4, <2>5, SumChange
    <3> QED  BY <2>1, <2>2, <2>3, <2>5, <3>1 DEF D, f, g
  <2>6. CASE t \notin D
    <3>1. \A u \in D : f[u] \in Nat /\ g[u] = f[u]
      BY <2>3, <2>6
    <3>2. SumFunctionOnSet(g, D) = SumFunctionOnSet(f, D)
      BY <2>4, <3>1, SumSame
    <3> QED  BY <2>1, <2>2, <2>6, <3>2 DEF D, f, g
  <2> QED  BY <2>5, <2>6
<1>4. \A u \in Tasks : taskState'[u] # "live" => taskReserved'[u] = 0
  BY <1>2 DEF HeldInv
<1> QED
  BY <1>1, <1>3, <1>4 DEF HeldInv

\* Nothing of it changes.
LEMMA HeldCalm ==
    ASSUME HeldInv, UNCHANGED <<tokensReserved, tasks>>
    PROVE  HeldInv'
<1>1. UNCHANGED <<taskState, taskAccount, taskReserved, tokensReserved>>
  BY DEF tasks
<1>2. \A a : Holders(a)' = Holders(a)
  BY <1>1 DEF Holders
<1> QED
  BY <1>1, <1>2 DEF HeldInv

\* Tasks that end give back what they hold, and the account has it to give.
LEMMA HeldReleased ==
    ASSUME TypeOK, HeldInv, NEW T \in SUBSET Tasks, \A t \in T : taskState[t] = "live", Release(T),
           \A t \in T : taskState'[t] \in {"halted", "ended"} /\ taskReserved'[t] = 0,
           \A t \in Tasks \ T : taskState'[t] = taskState[t] /\ taskReserved'[t] = taskReserved[t],
           UNCHANGED taskAccount
    PROVE  HeldInv'
<1>1. ASSUME NEW a \in Accounts PROVE Holders(a)' = Holders(a)
  BY DEF Holders
<1>2. ASSUME NEW a \in Accounts PROVE tokensReserved'[a] = SumFunctionOnSet(taskReserved', Holders(a))
  <2> DEFINE B == {t \in T : a \in Chain[taskAccount[t]]}
             R == Holders(a) \ B
  <2>1. /\ Holders(a) \in SUBSET Tasks /\ IsFiniteSet(Holders(a))
        /\ \A t \in Holders(a) : taskReserved[t] \in Nat
        /\ tokensReserved[a] = SumFunctionOnSet(taskReserved, Holders(a))
    BY HoldersAreFinite DEF HeldInv
  <2>2. B \in SUBSET Holders(a)
    BY DEF Holders
  <2>3. R = {t \in Holders(a) : t \notin T}
    BY DEF Holders
  <2>4. IsFiniteSet(B) /\ IsFiniteSet(R)
    BY <2>1, <2>2, FS_Subset
  <2>5. tokensReserved'[a] = AtLeastZero(tokensReserved[a] - SumFunctionOnSet(taskReserved, B))
    BY DEF Release, HeldUnder
  <2>6. \A t \in Holders(a) : /\ taskReserved'[t] \in Nat
                              /\ t \in B => taskReserved'[t] = 0
                              /\ t \in R => taskReserved'[t] = taskReserved[t]
    BY <2>1, <2>3
  <2> HIDE DEF B, R
  <2>7. /\ SumFunctionOnSet(taskReserved, B) \in Nat /\ SumFunctionOnSet(taskReserved, R) \in Nat
    BY <2>1, <2>2, <2>4, SumTakeOut DEF R
  <2>8. SumFunctionOnSet(taskReserved, Holders(a))
          = SumFunctionOnSet(taskReserved, B) + SumFunctionOnSet(taskReserved, R)
    BY <2>1, <2>2, SumSplit DEF R
  <2>9. SumFunctionOnSet(taskReserved', Holders(a))
          = SumFunctionOnSet(taskReserved', B) + SumFunctionOnSet(taskReserved', R)
    BY <2>1, <2>2, <2>6, SumSplit DEF R
  <2>10. SumFunctionOnSet(taskReserved', B) = 0
    BY <2>2, <2>4, <2>6, SumOfNothing
  <2>11. SumFunctionOnSet(taskReserved', R) = SumFunctionOnSet(taskReserved, R)
    <3>1. \A t \in R : taskReserved[t] \in Nat /\ taskReserved'[t] = taskReserved[t]
      BY <2>1, <2>6 DEF R
    <3> QED  BY <2>4, <3>1, SumSame
  <2>12. tokensReserved[a] - SumFunctionOnSet(taskReserved, B) = SumFunctionOnSet(taskReserved, R)
    BY <2>1, <2>7, <2>8
  <2> QED  BY <2>5, <2>7, <2>9, <2>10, <2>11, <2>12 DEF AtLeastZero
<1>3. \A t \in Tasks : taskState'[t] # "live" => taskReserved'[t] = 0
  BY DEF HeldInv
<1> QED
  BY <1>1, <1>2, <1>3 DEF HeldInv

\* What a task holds its accounts have.
LEMMA HeldIsThere ==
    ASSUME TypeOK, HeldInv, NEW t \in Tasks, taskState[t] # "new",
           NEW a \in Accounts, a \in Chain[taskAccount[t]]
    PROVE  taskReserved[t] <= tokensReserved[a]
<1>1. /\ IsFiniteSet(Holders(a)) /\ \A u \in Holders(a) : taskReserved[u] \in Nat
      /\ tokensReserved[a] = SumFunctionOnSet(taskReserved, Holders(a)) /\ t \in Holders(a)
  BY HoldersAreFinite DEF HeldInv, Holders
<1>2. IsFiniteSet(Holders(a) \ {t})
  BY <1>1, FS_Subset
<1>3. /\ tokensReserved[a] = taskReserved[t] + SumFunctionOnSet(taskReserved, Holders(a) \ {t})
      /\ SumFunctionOnSet(taskReserved, Holders(a) \ {t}) \in Nat
  BY <1>1, <1>2, SumTakeOut
<1> QED
  BY <1>1, <1>3

\* A task that is admitted holds what its accounts reserve for it.
LEMMA HeldAdmitted ==
    ASSUME TypeOK, HeldInv, NEW t \in Tasks, taskState[t] = "new", NEW x \in Accounts, NEW n \in Nat,
           taskState' = [taskState EXCEPT ![t] = "live"],
           taskAccount' = [taskAccount EXCEPT ![t] = x],
           taskReserved' = [taskReserved EXCEPT ![t] = n],
           \A a \in Accounts :
              tokensReserved'[a] = tokensReserved[a] + (IF a \in Chain[x] THEN n ELSE 0)
    PROVE  HeldInv'
<1>1. \A u \in Tasks : /\ taskReserved[u] \in Nat /\ taskReserved'[u] \in Nat
                       /\ u # t => /\ taskReserved'[u] = taskReserved[u] /\ taskState'[u] = taskState[u]
                                   /\ taskAccount'[u] = taskAccount[u]
                       /\ u = t => taskReserved'[u] = n /\ taskState'[u] = "live" /\ taskAccount'[u] = x
  BY DEF TypeOK
<1>2. ASSUME NEW a \in Accounts PROVE tokensReserved'[a] = SumFunctionOnSet(taskReserved', Holders(a)')
  <2> DEFINE D == Holders(a)
             f == taskReserved
             g == taskReserved'
  <2>1. D \in SUBSET Tasks /\ IsFiniteSet(D) /\ tokensReserved[a] = SumFunctionOnSet(f, D)
    BY HoldersAreFinite DEF HeldInv
  <2>2. t \notin D /\ Holders(a)' = IF a \in Chain[x] THEN D \cup {t} ELSE D
    BY <1>1 DEF Holders
  <2>3. /\ \A u \in D : f[u] \in Nat /\ g[u] = f[u]
        /\ \A u \in D \cup {t} : g[u] \in Nat
        /\ g[t] = n
    BY <1>1, <2>1, <2>2
  <2> HIDE DEF D, f, g
  <2>4. SumFunctionOnSet(g, D) = SumFunctionOnSet(f, D) /\ SumFunctionOnSet(f, D) \in Nat
    BY <2>1, <2>3, SumSame, SumTakeOut
  <2>5. IsFiniteSet(D \cup {t})
    BY <2>1, FS_AddElement
  <2>6. SumFunctionOnSet(g, D \cup {t}) = g[t] + SumFunctionOnSet(g, (D \cup {t}) \ {t})
    BY <2>3, <2>5, SumTakeOut
  <2>7. (D \cup {t}) \ {t} = D
    BY <2>2
  <2>8. SumFunctionOnSet(g, D \cup {t}) = SumFunctionOnSet(f, D) + n
    <3>1. SumFunctionOnSet(g, D \cup {t}) = n + SumFunctionOnSet(g, D)
      BY <2>3, <2>6, <2>7
    <3> QED  BY <2>4, <3>1
  <2> QED  BY <2>1, <2>2, <2>4, <2>8 DEF g
<1>3. \A u \in Tasks : taskState'[u] # "live" => taskReserved'[u] = 0
  BY <1>1 DEF HeldInv
<1> QED
  BY <1>2, <1>3 DEF HeldInv

\* Every step of the tasks.
LEMMA HeldTask == IInv /\ HeldInv /\ TaskNext => HeldInv'
<1> SUFFICES ASSUME IInv, HeldInv, TaskNext PROVE HeldInv'
  OBVIOUS
<1>0. TypeOK /\ DefaultReserve \in Nat
  BY AmountAssumption DEF IInv
<1>1. ASSUME NEW a \in Accounts, AdmitAdopted(a) PROVE HeldInv'
  <2>1. \A c \in Accounts : tokensReserved[c] \in Nat
    BY <1>0 DEF TypeOK
  <2>2. \A c \in Accounts : AtLeastZero((tokensReserved[c] + DefaultReserve) - DefaultReserve)
                              = tokensReserved[c]
    BY <1>0, <2>1 DEF AtLeastZero
  <2>3. tokensReserved' = tokensReserved
    BY <1>0, <1>1, <2>2 DEF AdmitAdopted, TypeOK
  <2> QED  BY <1>1, <2>3, HeldCalm DEF AdmitAdopted
<1>2. ASSUME NEW t \in Tasks, NEW a \in Accounts, Admit(t, a) PROVE HeldInv'
  BY <1>0, <1>2, HeldAdmitted DEF Admit, Reserve
<1>3. ASSUME NEW t \in Tasks, NEW to \in {"halted", "ended"}, End(t, to) PROVE HeldInv'
  <2>1. /\ taskState'[t] = to /\ taskReserved'[t] = 0
        /\ \A u \in Tasks \ {t} : taskState'[u] = taskState[u] /\ taskReserved'[u] = taskReserved[u]
        /\ taskState[t] = "live" /\ Release({t}) /\ UNCHANGED taskAccount
    BY <1>0, <1>3 DEF End, TypeOK
  <2> QED  BY <1>0, <2>1, HeldReleased
<1>4. ASSUME NEW t \in Tasks, ContinueHalted(t) PROVE HeldInv'
  <2>1. taskReserved[t] = 0 /\ \A a \in Accounts : tokensReserved[a] \in Nat
    BY <1>0, <1>4 DEF ContinueHalted, HeldInv, TypeOK
  <2>2. /\ taskState[t] # "new" /\ taskState'[t] = "live"
        /\ \A u \in Tasks : u # t => taskState'[u] = taskState[u]
        /\ taskReserved' = [taskReserved EXCEPT ![t] = DefaultReserve] /\ UNCHANGED taskAccount
    BY <1>0, <1>4 DEF ContinueHalted, TypeOK
  <2>3. \A a \in Accounts : tokensReserved'[a] =
           IF a \in Chain[taskAccount[t]] THEN (tokensReserved[a] - taskReserved[t]) + DefaultReserve
           ELSE tokensReserved[a]
    BY <1>0, <1>4, <2>1 DEF ContinueHalted, Reserve
  <2> QED  BY <1>0, <2>2, <2>3, HeldChange
<1>5. ASSUME NEW T \in SUBSET Tasks, Cancel(T) PROVE HeldInv'
  <2>1. /\ \A t \in T : taskState[t] = "live" /\ taskState'[t] = "ended" /\ taskReserved'[t] = 0
        /\ \A t \in Tasks \ T : taskState'[t] = taskState[t] /\ taskReserved'[t] = taskReserved[t]
        /\ Release(T) /\ UNCHANGED taskAccount
    BY <1>5 DEF Cancel
  <2> QED  BY <1>0, <2>1, HeldReleased
<1> QED
  BY <1>1, <1>2, <1>3, <1>4, <1>5 DEF TaskNext

\* A model call draws what it used from what its task still holds, and from
\* every account above it.
LEMMA HeldReport ==
    ASSUME IInv, HeldInv, NEW t \in Tasks, NEW n \in TokenAmounts, NEW m \in MoneyAmounts,
           ReportUsage(t, n, m)
    PROVE  HeldInv'
<1> DEFINE drawn == Lesser(taskReserved[t], n)
<1>0. TypeOK /\ n \in Nat /\ taskReserved[t] \in Nat /\ \A a \in Accounts : tokensReserved[a] \in Nat
  BY AmountAssumption DEF IInv, TypeOK
<1>1. drawn \in Nat /\ drawn <= taskReserved[t] /\ Lesser(drawn, n) = drawn
  BY <1>0 DEF Lesser
<1>2. taskState[t] # "new"
  BY <1>0 DEF ReportUsage, TypeOK
<1>3. /\ taskReserved' = [taskReserved EXCEPT ![t] = taskReserved[t] - drawn]
      /\ UNCHANGED <<taskState, taskAccount>>
      /\ \A a \in Accounts : tokensReserved'[a] =
            IF a \in Chain[taskAccount[t]] THEN AtLeastZero(tokensReserved[a] - Lesser(drawn, n))
            ELSE tokensReserved[a]
  BY DEF ReportUsage, Spend
<1> HIDE DEF drawn
<1>4. \A a \in Accounts : a \in Chain[taskAccount[t]] => taskReserved[t] <= tokensReserved[a]
  BY <1>0, <1>2, HeldIsThere
<1>5. \A a \in Accounts : tokensReserved'[a] =
        IF a \in Chain[taskAccount[t]]
        THEN (tokensReserved[a] - taskReserved[t]) + (taskReserved[t] - drawn)
        ELSE tokensReserved[a]
  BY <1>0, <1>1, <1>3, <1>4 DEF AtLeastZero
<1>6. taskReserved[t] - drawn \in Nat /\ (taskState[t] = "live" \/ taskReserved[t] - drawn = 0)
  BY <1>0, <1>1 DEF HeldInv
<1> QED
  BY <1>0, <1>2, <1>3, <1>5, <1>6, HeldChange

\* Every step keeps it: no other moves a reservation.
LEMMA HeldKept == IInv /\ HeldInv /\ [Next]_vars => HeldInv'
<1> SUFFICES ASSUME IInv, HeldInv, [Next]_vars PROVE HeldInv'
  OBVIOUS
<1>1. CASE OwnerNext
  BY <1>1, HeldCalm DEF OwnerNext, CreateAccount, ReadCeilings, WriteCeilings, counts
<1>2. CASE TaskNext
  BY <1>2, HeldTask
<1>3. ASSUME NEW t \in Tasks, NEW n \in TokenAmounts, NEW m \in MoneyAmounts, ReportUsage(t, n, m)
      PROVE  HeldInv'
  BY <1>3, HeldReport
<1>4. ASSUME NEW t \in Tasks, NEW m \in MoneyAmounts, ChargeEstimate(t, m) PROVE HeldInv'
  <2>1. tokensReserved \in [Accounts -> Nat]
    BY DEF IInv, TypeOK
  <2>2. \A c \in Accounts : AtLeastZero(tokensReserved[c] - Lesser(0, 0)) = tokensReserved[c]
    BY <2>1 DEF AtLeastZero, Lesser
  <2>3. tokensReserved' = tokensReserved
    BY <1>4, <2>1, <2>2 DEF ChargeEstimate, Spend
  <2> QED  BY <1>4, <2>3, HeldCalm DEF ChargeEstimate
<1>5. ASSUME NEW t \in Tasks,
             \/ StartRun(t) \/ EndRun(t) \/ RefundEstimate(t)
             \/ \E n \in TokenAmounts, m \in MoneyAmounts : UsageRefused(t, n, m)
             \/ \E m \in MoneyAmounts : RunBill(t, m) \/ SettleActual(t, m)
      PROVE  HeldInv'
  <2>1. UNCHANGED <<tokensReserved, tasks>>
    BY <1>5 DEF StartRun, EndRun, RefundEstimate, UsageRefused, RunBill, SettleActual, Settle, counts
  <2> QED  BY <2>1, HeldCalm
<1>6. CASE StartNewPeriods \/ NextMonth
  BY <1>6, HeldCalm DEF StartNewPeriods, NextMonth, counts
<1>7. CASE UNCHANGED vars
  BY <1>7, HeldCalm DEF vars, counts
<1> QED
  BY <1>1, <1>2, <1>3, <1>4, <1>5, <1>6, <1>7 DEF Next, RunNext

\* No reservation is left behind and none erased: what an account says is
\* reserved is what the live tasks under it hold, to the token, whatever calls,
\* lost races, cancellations and refusals there were (budget_reserve,
\* budget_spend, budget_release; the clamps at zero never bite).
THEOREM ReservationsAreHeld == Spec => []ReservedIsHeld
<1>1. Init => HeldInv
  <2> SUFFICES ASSUME Init PROVE HeldInv
    OBVIOUS
  <2>1. \A a : Holders(a) = {}
    BY DEF Init, Holders
  <2>2. \A f : SumFunctionOnSet(f, {}) = 0
    BY FS_EmptySet, SumStep
  <2> QED  BY <2>1, <2>2 DEF Init, HeldInv
<1>2. HeldInv => ReservedIsHeld
  BY DEF HeldInv, ReservedIsHeld, HeldUnder, Holders
<1> QED
  BY <1>1, <1>2, HeldKept, InitIInv, NextKeeps, PTL DEF Spec

-----------------------------------------------------------------------------
(* The money of a month.                                                   *)

\* What a refund, a settlement or the provider's bill may yet take back of
\* what a task was charged, and of what an account was.
AtIssue == [t \in Tasks |-> runCharged[t] + estimate[t]]
AtIssueUnder(a) == SumFunctionOnSet(AtIssue, Holders(a))

NewOweNothing == \A t \in Tasks : taskState[t] = "new" => runCharged[t] = 0

\* In one month an account has been charged what may be taken back, and of
\* what may not an account has no more than the one above it.
MoneyInv ==
    month = 0 =>
        /\ \A a \in Accounts : AtIssueUnder(a) <= moneySpent[a]
        /\ \A a \in Accounts : Parent[a] # NoAccount =>
              moneySpent[a] - AtIssueUnder(a) <= moneySpent[Parent[a]] - AtIssueUnder(Parent[a])

LEMMA AtIssueType ==
    ASSUME TypeOK, NEW a
    PROVE  /\ AtIssue \in [Tasks -> Nat] /\ AtIssueUnder(a) \in Nat
           /\ \A t \in Holders(a) : t \in Tasks /\ AtIssue[t] \in Nat /\ AtIssue[t] <= AtIssueUnder(a)
<1>1. AtIssue \in [Tasks -> Nat]
  BY DEF TypeOK, AtIssue
<1>2. Holders(a) \in SUBSET Tasks /\ IsFiniteSet(Holders(a))
  BY HoldersAreFinite
<1>3. \A t \in Holders(a) : t \in Tasks /\ AtIssue[t] \in Nat
  BY <1>1, <1>2
<1>4. AtIssueUnder(a) \in Nat
  BY <1>2, <1>3, SumTakeOut DEF AtIssueUnder
<1>5. ASSUME NEW t \in Holders(a) PROVE AtIssue[t] <= AtIssueUnder(a)
  <2> DEFINE R == SumFunctionOnSet(AtIssue, Holders(a) \ {t})
  <2>1. IsFiniteSet(Holders(a) \ {t})
    BY <1>2, FS_Subset
  <2>2. AtIssueUnder(a) = AtIssue[t] + R /\ R \in Nat
    BY <1>2, <1>3, <2>1, SumTakeOut DEF AtIssueUnder
  <2> HIDE DEF R
  <2> QED  BY <1>3, <2>2
<1> QED
  BY <1>1, <1>3, <1>4, <1>5

\* An account above has at issue what one below it has.
LEMMA AtIssueAbove ==
    ASSUME TypeOK, NEW a \in Accounts, Parent[a] # NoAccount
    PROVE  AtIssueUnder(a) <= AtIssueUnder(Parent[a])
<1> DEFINE H == Holders(Parent[a])
           R == H \ Holders(a)
<1>1. Holders(a) \in SUBSET H
  BY ChainAssumption DEF TypeOK, Holders
<1>2. IsFiniteSet(H) /\ IsFiniteSet(R) /\ \A t \in H : AtIssue[t] \in Nat
  BY HoldersAreFinite, AtIssueType, FS_Subset
<1>3. AtIssueUnder(Parent[a]) = AtIssueUnder(a) + SumFunctionOnSet(AtIssue, R)
  BY <1>1, <1>2, SumSplit DEF AtIssueUnder
<1>4. SumFunctionOnSet(AtIssue, R) \in Nat
  BY <1>2, SumTakeOut
<1>5. AtIssueUnder(a) \in Nat
  BY AtIssueType
<1> HIDE DEF H, R
<1> QED
  BY <1>3, <1>4, <1>5

\* A charge, a refund or a settlement of d for one task moves its accounts by
\* d, and by no less than what is now at issue: the clamp never bites.
LEMMA MoneyChange ==
    ASSUME TypeOK, MoneyInv, month = 0, NEW t \in Tasks, taskState[t] # "new",
           UNCHANGED <<taskState, taskAccount>>,
           NEW n \in Nat, AtIssue' = [AtIssue EXCEPT ![t] = n],
           NEW d \in Int, n - AtIssue[t] <= d,
           \A a \in Accounts : moneySpent'[a] =
              IF a \in Chain[taskAccount[t]] THEN AtLeastZero(moneySpent[a] + d) ELSE moneySpent[a]
    PROVE  MoneyInv'
<1> DEFINE x == taskAccount[t]
           e == n - AtIssue[t]
<1>1. AtIssue[t] \in Nat /\ e \in Int /\ e <= d
  BY AtIssueType
<1>2. \A a \in Accounts : moneySpent[a] \in Nat /\ AtIssueUnder(a) \in Nat
  BY AtIssueType DEF TypeOK
<1>3. x \in Accounts
  BY DEF TypeOK
<1>4. ASSUME NEW a \in Accounts
      PROVE  AtIssueUnder(a)' = AtIssueUnder(a) + (IF a \in Chain[x] THEN e ELSE 0)
  <2> DEFINE D == Holders(a)
             f == AtIssue
             g == AtIssue'
  <2>1. Holders(a)' = D /\ (t \in D <=> a \in Chain[x])
    BY DEF Holders
  <2>2. D \in SUBSET Tasks /\ IsFiniteSet(D)
    BY HoldersAreFinite
  <2>3. /\ \A u \in D : f[u] \in Nat /\ g[u] \in Nat /\ (u # t => g[u] = f[u])
        /\ g[t] = n
    BY <2>2, AtIssueType
  <2> HIDE DEF D, f, g
  <2>4. CASE t \in D
    <3>1. SumFunctionOnSet(g, D) = (SumFunctionOnSet(f, D) - f[t]) + g[t] /\ SumFunctionOnSet(f, D) \in Nat
      BY <2>2, <2>3, <2>4, SumChange
    <3>2. f[t] = AtIssue[t] /\ AtIssueUnder(a)' = SumFunctionOnSet(g, D) /\ AtIssueUnder(a) = SumFunctionOnSet(f, D)
      BY <2>1 DEF AtIssueUnder, D, f, g
    <3> QED  BY <1>1, <2>1, <2>3, <2>4, <3>1, <3>2
  <2>5. CASE t \notin D
    <3>1. \A u \in D : f[u] \in Nat /\ g[u] = f[u]
      BY <2>3, <2>5
    <3>2. SumFunctionOnSet(g, D) = SumFunctionOnSet(f, D)
      BY <2>2, <3>1, SumSame
    <3>3. AtIssueUnder(a)' = SumFunctionOnSet(g, D) /\ AtIssueUnder(a) = SumFunctionOnSet(f, D)
      BY <2>1 DEF AtIssueUnder, D, f, g
    <3> QED  BY <1>2, <2>1, <2>5, <3>2, <3>3
  <2> QED  BY <2>4, <2>5
<1>5. \A a \in Accounts : a \in Chain[x] => AtIssue[t] <= AtIssueUnder(a)
  BY AtIssueType DEF Holders
<1>6. \A a \in Accounts : AtIssueUnder(a) <= moneySpent[a]
  BY DEF MoneyInv
<1> HIDE DEF x
<1>7. \A a \in Accounts : moneySpent'[a] = moneySpent[a] + (IF a \in Chain[x] THEN d ELSE 0)
  <2> SUFFICES ASSUME NEW a \in Accounts, a \in Chain[x]
               PROVE  moneySpent[a] + d \in Nat
    BY <1>2 DEF AtLeastZero, x
  <2> QED  BY <1>1, <1>2, <1>5, <1>6
<1> HIDE DEF e
<1>8. ASSUME NEW a \in Accounts PROVE AtIssueUnder(a)' <= moneySpent'[a]
  BY <1>1, <1>2, <1>4, <1>6, <1>7
<1>9. ASSUME NEW a \in Accounts, Parent[a] # NoAccount
      PROVE  moneySpent'[a] - AtIssueUnder(a)' <= moneySpent'[Parent[a]] - AtIssueUnder(Parent[a])'
  <2> DEFINE p == Parent[a]
  <2>1. p \in Accounts /\ (a \in Chain[x] => p \in Chain[x])
    BY <1>3, <1>9, ChainAssumption
  <2>2. moneySpent[a] - AtIssueUnder(a) <= moneySpent[p] - AtIssueUnder(p)
    BY <1>9 DEF MoneyInv
  <2>3. AtIssueUnder(p)' = AtIssueUnder(p) + (IF p \in Chain[x] THEN e ELSE 0)
    BY <1>4, <2>1
  <2> HIDE DEF p
  <2>4. moneySpent'[a] - AtIssueUnder(a)' <= moneySpent'[p] - AtIssueUnder(p)'
    BY <1>1, <1>2, <1>4, <1>7, <2>1, <2>2, <2>3
  <2> QED  BY <2>4 DEF p
<1> QED
  BY <1>8, <1>9 DEF MoneyInv

\* Nothing of it changes: tasks that ended are owed for what they were.
LEMMA MoneyCalm ==
    ASSUME MoneyInv, UNCHANGED <<month, taskAccount, runCharged, estimate>>,
           \A t \in Tasks : taskState'[t] = "new" <=> taskState[t] = "new",
           \A a \in Accounts : moneySpent'[a] = moneySpent[a]
    PROVE  MoneyInv'
<1>1. AtIssue' = AtIssue /\ \A a : Holders(a)' = Holders(a)
  BY DEF AtIssue, Holders
<1>2. \A a : AtIssueUnder(a)' = AtIssueUnder(a)
  BY <1>1 DEF AtIssueUnder
<1>3. \A a \in Accounts : Parent[a] # NoAccount => Parent[a] \in Accounts
  BY ChainAssumption
<1> QED
  BY <1>2, <1>3 DEF MoneyInv

\* No account starts again in the first month.
LEMMA FirstMonth ==
    ASSUME TypeOK, month = 0, NEW S
    PROVE  \A a \in Accounts : Money(S)[a] = moneySpent[a] /\ moneySpent[a] \in Nat
  BY DEF TypeOK, Money, Passed

\* A task that is admitted has nothing at issue.
LEMMA MoneyAdmitted ==
    ASSUME TypeOK, MoneyInv, NewOweNothing, month = 0, NEW t \in Tasks, NEW x \in Accounts, Admit(t, x)
    PROVE  MoneyInv'
<1>1. /\ taskState[t] = "new" /\ UNCHANGED <<month, runCharged, estimate>>
      /\ \A a \in Accounts : moneySpent'[a] = moneySpent[a]
  BY FirstMonth DEF Admit, Reserve, runs
<1>2. \A u \in Tasks : /\ u # t => taskState'[u] = taskState[u] /\ taskAccount'[u] = taskAccount[u]
                       /\ u = t => taskState'[u] = "live" /\ taskAccount'[u] = x
  BY DEF Admit, TypeOK
<1>3. AtIssue' = AtIssue /\ AtIssue[t] = 0
  BY <1>1 DEF AtIssue, NewOweNothing, TypeOK
<1>4. ASSUME NEW a \in Accounts PROVE AtIssueUnder(a)' = AtIssueUnder(a)
  <2> DEFINE D == Holders(a)
  <2>1. t \notin D /\ Holders(a)' = IF a \in Chain[x] THEN D \cup {t} ELSE D
    BY <1>1, <1>2 DEF Holders
  <2>2. IsFiniteSet(D \cup {t}) /\ \A u \in D \cup {t} : AtIssue[u] \in Nat
    BY <1>3, HoldersAreFinite, AtIssueType, FS_AddElement
  <2>3. AtIssueUnder(a) \in Nat /\ AtIssueUnder(a) = SumFunctionOnSet(AtIssue, D)
    BY AtIssueType DEF AtIssueUnder
  <2> HIDE DEF D
  <2>4. SumFunctionOnSet(AtIssue, D \cup {t}) = AtIssue[t] + SumFunctionOnSet(AtIssue, (D \cup {t}) \ {t})
    BY <2>2, SumTakeOut
  <2>5. (D \cup {t}) \ {t} = D
    BY <2>1
  <2>6. SumFunctionOnSet(AtIssue, D \cup {t}) = AtIssueUnder(a)
    <3>1. SumFunctionOnSet(AtIssue, D \cup {t}) = 0 + SumFunctionOnSet(AtIssue, D)
      BY <1>3, <2>4, <2>5
    <3> QED  BY <2>3, <3>1
  <2>7. AtIssueUnder(a)' = SumFunctionOnSet(AtIssue, Holders(a)')
    BY <1>3 DEF AtIssueUnder
  <2> QED  BY <2>1, <2>3, <2>6, <2>7
<1>5. \A a \in Accounts : Parent[a] # NoAccount => Parent[a] \in Accounts
  BY ChainAssumption
<1> QED
  BY <1>1, <1>4, <1>5 DEF MoneyInv

\* Only a run that has begun was charged anything.
LEMMA NewKept ==
    ASSUME IInv, NewOweNothing, [Next]_vars
    PROVE  NewOweNothing'
<1>0. TypeOK
  BY DEF IInv
<1>1. ASSUME UNCHANGED runCharged, \A t \in Tasks : taskState'[t] = "new" => taskState[t] = "new"
      PROVE  NewOweNothing'
  BY <1>1 DEF NewOweNothing
<1>2. CASE OwnerNext
  BY <1>1, <1>2 DEF OwnerNext, CreateAccount, ReadCeilings, WriteCeilings, tasks, runs
<1>3. CASE TaskNext
  <2>1. UNCHANGED runCharged
    BY <1>3 DEF TaskNext, AdmitAdopted, Admit, End, ContinueHalted, Cancel, runs
  <2>2. \A t \in Tasks : taskState'[t] = "new" => taskState[t] = "new"
    BY <1>0, <1>3 DEF TaskNext, AdmitAdopted, Admit, End, ContinueHalted, Cancel, tasks, TypeOK
  <2> QED  BY <1>1, <2>1, <2>2
<1>4. CASE RunNext
  <2>1. PICK t \in Tasks :
          \/ StartRun(t) \/ EndRun(t) \/ RefundEstimate(t)
          \/ \E n \in TokenAmounts, m \in MoneyAmounts : ReportUsage(t, n, m) \/ UsageRefused(t, n, m)
          \/ \E m \in MoneyAmounts : RunBill(t, m) \/ ChargeEstimate(t, m) \/ SettleActual(t, m)
    BY <1>4 DEF RunNext
  <2>2. UNCHANGED taskState
    BY <2>1 DEF StartRun, EndRun, RefundEstimate, ReportUsage, UsageRefused, RunBill, ChargeEstimate,
                SettleActual, tasks
  <2>3. CASE UNCHANGED runCharged
    BY <1>1, <2>2, <2>3
  <2>4. CASE taskState[t] # "new" /\ \A u \in Tasks : u # t => runCharged'[u] = runCharged[u]
    BY <2>2, <2>4 DEF NewOweNothing
  <2> QED
    BY <1>0, <2>1, <2>3, <2>4 DEF StartRun, EndRun, RefundEstimate, ReportUsage, UsageRefused, RunBill,
                ChargeEstimate, SettleActual, TypeOK
<1>5. CASE StartNewPeriods \/ NextMonth
  BY <1>1, <1>5 DEF StartNewPeriods, NextMonth, tasks, runs
<1>6. CASE UNCHANGED vars
  BY <1>1, <1>6 DEF vars, tasks, runs
<1> QED
  BY <1>2, <1>3, <1>4, <1>5, <1>6 DEF Next

\* What a run does moves the money of its task's accounts, and never takes
\* back what is not at issue.
LEMMA MoneyRun == IInv /\ MoneyInv /\ month = 0 /\ RunNext => MoneyInv'
<1> SUFFICES ASSUME IInv, MoneyInv, month = 0, NEW t \in Tasks,
                    \/ StartRun(t) \/ EndRun(t) \/ RefundEstimate(t)
                    \/ \E n \in TokenAmounts, m \in MoneyAmounts :
                          ReportUsage(t, n, m) \/ UsageRefused(t, n, m)
                    \/ \E m \in MoneyAmounts :
                          RunBill(t, m) \/ ChargeEstimate(t, m) \/ SettleActual(t, m)
             PROVE  MoneyInv'
  BY DEF RunNext
<1>0. /\ TypeOK /\ runCharged[t] \in Nat /\ estimate[t] \in Nat
      /\ \A m \in MoneyAmounts : m \in Nat /\ m \in Int
      /\ \A a \in Accounts : moneySpent[a] \in Nat
  BY AmountAssumption DEF IInv, TypeOK
<1>1. AtIssue[t] = runCharged[t] + estimate[t]
  BY DEF AtIssue
<1>2. ASSUME UNCHANGED <<taskState, taskAccount>>, taskState[t] # "new",
             NEW c \in Nat, NEW e \in Nat,
             runCharged' = [runCharged EXCEPT ![t] = c], estimate' = [estimate EXCEPT ![t] = e],
             NEW d \in Int, (c + e) - (runCharged[t] + estimate[t]) <= d,
             \A a \in Accounts : moneySpent'[a] =
                IF a \in Chain[taskAccount[t]] THEN AtLeastZero(moneySpent[a] + d) ELSE moneySpent[a]
      PROVE  MoneyInv'
  <2>1. AtIssue' = [AtIssue EXCEPT ![t] = c + e] /\ c + e \in Nat
    <3>1. \A u \in Tasks : runCharged'[u] = (IF u = t THEN c ELSE runCharged[u])
                          /\ estimate'[u] = (IF u = t THEN e ELSE estimate[u])
      BY <1>0, <1>2 DEF TypeOK
    <3>2. [u \in Tasks |-> runCharged'[u] + estimate'[u]]
             = [[u \in Tasks |-> runCharged[u] + estimate[u]] EXCEPT ![t] = c + e]
      BY <3>1
    <3> QED  BY <1>2, <3>2 DEF AtIssue
  <2> QED  BY <1>0, <1>1, <1>2, <2>1, MoneyChange
<1>3. /\ runCharged = [runCharged EXCEPT ![t] = runCharged[t]]
      /\ estimate = [estimate EXCEPT ![t] = estimate[t]]
  BY <1>0 DEF TypeOK
<1>4. \A a \in Accounts : AtLeastZero(moneySpent[a] + 0) = moneySpent[a]
  BY <1>0 DEF AtLeastZero
<1>5. CASE StartRun(t)
  <2>1. /\ UNCHANGED <<taskState, taskAccount, estimate, moneySpent>> /\ taskState[t] # "new"
        /\ runCharged' = [runCharged EXCEPT ![t] = 0]
    BY <1>5 DEF StartRun, tasks, counts
  <2>2. (0 + estimate[t]) - (runCharged[t] + estimate[t]) <= 0
    BY <1>0
  <2>3. \A a \in Accounts : moneySpent'[a] =
           IF a \in Chain[taskAccount[t]] THEN AtLeastZero(moneySpent[a] + 0) ELSE moneySpent[a]
    BY <1>4, <2>1
  <2>4. estimate' = [estimate EXCEPT ![t] = estimate[t]] /\ 0 \in Nat /\ 0 \in Int
    BY <1>3, <2>1
  <2> QED  BY <1>0, <1>2, <2>1, <2>2, <2>3, <2>4
<1>6. CASE EndRun(t)
  <2>1. /\ UNCHANGED <<taskState, taskAccount, runCharged, moneySpent>> /\ taskState[t] # "new"
        /\ estimate' = [estimate EXCEPT ![t] = 0]
    BY <1>0, <1>6 DEF EndRun, tasks, counts, TypeOK
  <2>2. (runCharged[t] + 0) - (runCharged[t] + estimate[t]) <= 0
    BY <1>0
  <2>3. \A a \in Accounts : moneySpent'[a] =
           IF a \in Chain[taskAccount[t]] THEN AtLeastZero(moneySpent[a] + 0) ELSE moneySpent[a]
    BY <1>4, <2>1
  <2>4. runCharged' = [runCharged EXCEPT ![t] = runCharged[t]] /\ 0 \in Nat /\ 0 \in Int
    BY <1>3, <2>1
  <2> QED  BY <1>0, <1>2, <2>1, <2>2, <2>3, <2>4
<1>7. CASE RefundEstimate(t)
  <2>1. /\ UNCHANGED <<taskState, taskAccount, runCharged>> /\ taskState[t] # "new"
        /\ estimate' = [estimate EXCEPT ![t] = 0]
        /\ \A a \in Accounts : moneySpent'[a] =
             IF a \in Chain[taskAccount[t]] THEN AtLeastZero(moneySpent[a] + (-estimate[t]))
             ELSE moneySpent[a]
    BY <1>0, <1>7 DEF RefundEstimate, Settle, tasks, TypeOK
  <2>2. -estimate[t] \in Int /\ (runCharged[t] + 0) - (runCharged[t] + estimate[t]) <= -estimate[t]
    BY <1>0
  <2> QED  BY <1>0, <1>2, <1>3, <2>1, <2>2
<1>8. ASSUME NEW n \in TokenAmounts, NEW m \in MoneyAmounts, ReportUsage(t, n, m) PROVE MoneyInv'
  <2>1. /\ UNCHANGED <<taskState, taskAccount, estimate>> /\ taskState[t] # "new"
        /\ runCharged' = [runCharged EXCEPT ![t] = runCharged[t] + m]
    BY <1>0, <1>8 DEF ReportUsage, TypeOK
  <2>2. \A a \in Accounts : moneySpent'[a] =
           IF a \in Chain[taskAccount[t]] THEN AtLeastZero(moneySpent[a] + m) ELSE moneySpent[a]
    BY <1>0, <1>8, FirstMonth DEF ReportUsage, Spend, AtLeastZero
  <2>3. /\ ((runCharged[t] + m) + estimate[t]) - (runCharged[t] + estimate[t]) <= m
        /\ runCharged[t] + m \in Nat
    BY <1>0
  <2> QED  BY <1>0, <1>2, <1>3, <2>1, <2>2, <2>3
<1>9. ASSUME NEW n \in TokenAmounts, NEW m \in MoneyAmounts, UsageRefused(t, n, m) PROVE MoneyInv'
  <2>1. UNCHANGED <<taskState, taskAccount, estimate, runCharged>> /\ taskState[t] # "new"
    BY <1>0, <1>9 DEF UsageRefused, tasks, TypeOK
  <2>2. \A a \in Accounts : moneySpent'[a] =
           IF a \in Chain[taskAccount[t]] THEN AtLeastZero(moneySpent[a] + m) ELSE moneySpent[a]
    BY <1>0, <1>9, FirstMonth DEF UsageRefused, AtLeastZero
  <2>3. (runCharged[t] + estimate[t]) - (runCharged[t] + estimate[t]) <= m
    BY <1>0
  <2> QED  BY <1>0, <1>2, <1>3, <2>1, <2>2, <2>3
<1>10. ASSUME NEW m \in MoneyAmounts, RunBill(t, m) PROVE MoneyInv'
  <2>1. /\ UNCHANGED <<taskState, taskAccount, estimate>> /\ taskState[t] # "new"
        /\ runCharged' = [runCharged EXCEPT ![t] = m]
        /\ \A a \in Accounts : moneySpent'[a] =
             IF a \in Chain[taskAccount[t]] THEN AtLeastZero(moneySpent[a] + (m - runCharged[t]))
             ELSE moneySpent[a]
    BY <1>0, <1>10 DEF RunBill, Settle, tasks, TypeOK
  <2>2. m - runCharged[t] \in Int /\ (m + estimate[t]) - (runCharged[t] + estimate[t]) <= m - runCharged[t]
    BY <1>0
  <2> QED  BY <1>0, <1>2, <1>3, <2>1, <2>2
<1>11. ASSUME NEW m \in MoneyAmounts, ChargeEstimate(t, m) PROVE MoneyInv'
  <2>1. /\ UNCHANGED <<taskState, taskAccount, runCharged>> /\ taskState[t] # "new" /\ estimate[t] = 0
        /\ estimate' = [estimate EXCEPT ![t] = m]
    BY <1>0, <1>11 DEF ChargeEstimate, tasks, TypeOK
  <2>2. \A a \in Accounts : moneySpent'[a] =
           IF a \in Chain[taskAccount[t]] THEN AtLeastZero(moneySpent[a] + m) ELSE moneySpent[a]
    BY <1>0, <1>11, FirstMonth DEF ChargeEstimate, Spend, AtLeastZero
  <2>3. (runCharged[t] + m) - (runCharged[t] + estimate[t]) <= m
    BY <1>0, <2>1
  <2> QED  BY <1>0, <1>2, <1>3, <2>1, <2>2, <2>3
<1>12. ASSUME NEW m \in MoneyAmounts, SettleActual(t, m) PROVE MoneyInv'
  <2>1. /\ UNCHANGED <<taskState, taskAccount, runCharged>> /\ taskState[t] # "new"
        /\ estimate' = [estimate EXCEPT ![t] = 0]
        /\ \A a \in Accounts : moneySpent'[a] =
             IF a \in Chain[taskAccount[t]] THEN AtLeastZero(moneySpent[a] + (m - estimate[t]))
             ELSE moneySpent[a]
    BY <1>0, <1>12 DEF SettleActual, Settle, tasks, TypeOK
  <2>2. m - estimate[t] \in Int /\ (runCharged[t] + 0) - (runCharged[t] + estimate[t]) <= m - estimate[t]
    BY <1>0
  <2> QED  BY <1>0, <1>2, <1>3, <2>1, <2>2
<1> QED
  BY <1>5, <1>6, <1>7, <1>8, <1>9, <1>10, <1>11, <1>12

\* Every step keeps it, as long as the month is the first.
LEMMA MoneyKept == IInv /\ NewOweNothing /\ MoneyInv /\ [Next]_vars => MoneyInv'
<1> SUFFICES ASSUME IInv, NewOweNothing, MoneyInv, [Next]_vars, month' = 0 PROVE MoneyInv'
  BY DEF MoneyInv
<1>0. TypeOK /\ month \in Nat
  BY DEF IInv, TypeOK
<1>1. CASE OwnerNext
  BY <1>1, MoneyCalm DEF OwnerNext, CreateAccount, ReadCeilings, WriteCeilings, tasks, runs, counts
<1>2. CASE TaskNext
  <2>0. month = 0
    BY <1>2 DEF TaskNext, AdmitAdopted, Admit, End, ContinueHalted, Cancel
  <2>1. ASSUME NEW a \in Accounts, AdmitAdopted(a) PROVE MoneyInv'
    BY <1>0, <2>0, <2>1, FirstMonth, MoneyCalm DEF AdmitAdopted, tasks, runs
  <2>2. ASSUME NEW t \in Tasks, NEW a \in Accounts, Admit(t, a) PROVE MoneyInv'
    BY <1>0, <2>0, <2>2, MoneyAdmitted
  <2>3. ASSUME NEW t \in Tasks, NEW to \in {"halted", "ended"}, End(t, to) PROVE MoneyInv'
    <3>1. \A u \in Tasks : taskState'[u] = "new" <=> taskState[u] = "new"
      BY <1>0, <2>3 DEF End, TypeOK
    <3> QED  BY <2>3, <3>1, MoneyCalm DEF End, runs
  <2>4. ASSUME NEW t \in Tasks, ContinueHalted(t) PROVE MoneyInv'
    <3>1. \A u \in Tasks : taskState'[u] = "new" <=> taskState[u] = "new"
      BY <1>0, <2>4 DEF ContinueHalted, TypeOK
    <3>2. \A a \in Accounts : moneySpent'[a] = moneySpent[a]
      BY <1>0, <2>0, <2>4, FirstMonth DEF ContinueHalted, Reserve
    <3> QED  BY <2>4, <3>1, <3>2, MoneyCalm DEF ContinueHalted, runs
  <2>5. ASSUME NEW T \in SUBSET Tasks, Cancel(T) PROVE MoneyInv'
    <3>1. \A u \in Tasks : taskState'[u] = "new" <=> taskState[u] = "new"
      BY <1>0, <2>5 DEF Cancel, TypeOK
    <3> QED  BY <2>5, <3>1, MoneyCalm DEF Cancel, runs
  <2> QED  BY <1>2, <2>1, <2>2, <2>3, <2>4, <2>5 DEF TaskNext
<1>3. CASE RunNext
  <2>1. month = 0
    BY <1>3 DEF RunNext, StartRun, EndRun, RefundEstimate, ReportUsage, UsageRefused, RunBill,
                ChargeEstimate, SettleActual
  <2> QED  BY <1>3, <2>1, MoneyRun
<1>4. CASE StartNewPeriods
  <2>1. month = 0
    BY <1>4 DEF StartNewPeriods
  <2>2. \A a \in Accounts : moneySpent'[a] = moneySpent[a]
    BY <1>0, <1>4, <2>1, FirstMonth DEF StartNewPeriods
  <2> QED  BY <1>4, <2>2, MoneyCalm DEF StartNewPeriods, tasks, runs
<1>5. CASE NextMonth
  BY <1>0, <1>5 DEF NextMonth
<1>6. CASE UNCHANGED vars
  BY <1>6, MoneyCalm DEF vars, tasks, runs, counts
<1> QED
  BY <1>1, <1>2, <1>3, <1>4, <1>5, <1>6 DEF Next

\* In one month no division says it spent more money than the account above it
\* (budget_spend, budget_settle over the whole chain, 0037): whatever charges,
\* refunds, settlements and bills run against each other, no settlement is
\* clamped at one account and taken in full from another.
THEOREM MoneyLedger == Spec => []MoneyAgreesInAMonth
<1>1. Init => NewOweNothing /\ MoneyInv
  <2> SUFFICES ASSUME Init PROVE NewOweNothing /\ MoneyInv
    OBVIOUS
  <2>1. \A a : Holders(a) = {}
    BY DEF Init, Holders
  <2>2. \A f : SumFunctionOnSet(f, {}) = 0
    BY FS_EmptySet, SumStep
  <2>3. \A a : AtIssueUnder(a) = 0
    BY <2>1, <2>2 DEF AtIssueUnder
  <2>4. \A a \in Accounts : Parent[a] # NoAccount => Parent[a] \in Accounts
    BY ChainAssumption
  <2> QED  BY <2>3, <2>4 DEF Init, NewOweNothing, MoneyInv
<1>2. IInv /\ MoneyInv => MoneyAgreesInAMonth
  <2> SUFFICES ASSUME TypeOK, MoneyInv, month = 0, NEW a \in Accounts, Parent[a] # NoAccount
               PROVE  moneySpent[a] <= moneySpent[Parent[a]]
    BY DEF IInv, MoneyAgreesInAMonth
  <2>1. Parent[a] \in Accounts
    BY ChainAssumption
  <2>2. moneySpent[a] \in Nat /\ moneySpent[Parent[a]] \in Nat
    BY <2>1 DEF TypeOK
  <2>3. AtIssueUnder(a) \in Nat /\ AtIssueUnder(Parent[a]) \in Nat
    BY AtIssueType
  <2>4. AtIssueUnder(a) <= AtIssueUnder(Parent[a])
    BY AtIssueAbove
  <2>5. moneySpent[a] - AtIssueUnder(a) <= moneySpent[Parent[a]] - AtIssueUnder(Parent[a])
    BY DEF MoneyInv
  <2> QED  BY <2>2, <2>3, <2>4, <2>5
<1> QED
  BY <1>1, <1>2, MoneyKept, NewKept, InitIInv, NextKeeps, PTL DEF Spec
=============================================================================
