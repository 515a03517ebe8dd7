------------------------------- MODULE Budget -------------------------------
(***************************************************************************)
(* The budget accounts of one company: engine/budget.ts, the functions it  *)
(* calls (db/migrations 0024, 0037, 0040, 0101) and the transactions of    *)
(* the engine and the broker that call them.                               *)
(*                                                                         *)
(* Accounts form a tree under the company's own account.  Reserving,       *)
(* spending, releasing and settling move an account and all its ancestors, *)
(* whose rows are locked first, so each is one atomic step here.  A task   *)
(* draws on one account and holds part of its reservation; a run charges   *)
(* its model calls as it goes, and a capability is charged an estimate     *)
(* that is settled or refunded in a later transaction.                     *)
(***************************************************************************)
EXTENDS Integers, FiniteSets, Functions

CONSTANTS
    Accounts,        \* the accounts the company may ever open
    NoAccount,       \* parent of the company's own account
    Parent,          \* parent_account_id, fixed when an account is opened
    Chain,           \* app.budget_chain: an account and all its ancestors
    Tasks,           \* tasks the company may ever create
    Requests,        \* owner requests to change a ceiling
    DefaultReserve,  \* DEFAULT_TASK_RESERVE_TOKENS
    TokenCeilings,   \* ceilings an owner types
    MoneyCeilings,
    TokenAmounts,    \* what one model call may use
    MoneyAmounts,    \* cents a call, an estimate or a bill may come to
    Unsaid,          \* a ceiling a request leaves out
    MaxMonth,        \* bound: months the clock reaches
    MaxMoney         \* bound: cents an account may be charged

ASSUME ChainAssumption ==
    /\ NoAccount \notin Accounts /\ IsFiniteSet(Tasks)
    /\ Unsaid \notin Nat
    /\ Parent \in [Accounts -> Accounts \cup {NoAccount}]
    /\ Chain \in [Accounts -> SUBSET Accounts]
    /\ \A a \in Accounts :
          /\ Chain[a] = {a} \cup (IF Parent[a] = NoAccount THEN {} ELSE Chain[Parent[a]])
          /\ \A c \in Chain[a] : Parent[c] # NoAccount => Parent[c] \in Chain[a]

ASSUME AmountAssumption ==
    /\ DefaultReserve \in Nat
    /\ TokenCeilings \subseteq Nat \ {0} /\ MoneyCeilings \subseteq Nat
    /\ TokenAmounts \subseteq Nat /\ MoneyAmounts \subseteq Nat
    /\ MaxMonth \in Nat /\ MaxMoney \in Nat

VARIABLES
    opened,          \* rows of budget_accounts
    tokensMax, tokensSpent, tokensReserved, moneyMax, moneySpent,
    periodStart,     \* the month an account's counts are of
    month,           \* app.budget_month()
    taskState,       \* "new", "live", "halted" (budget_exhausted) or "ended"
    taskAccount, taskReserved,
    runOpen,         \* tasks with a run in some worker
    runCharged,      \* chargedCents of that run, in the worker's memory
    estimate,        \* the estimate charged for a capability call in flight
    request          \* setCeilings between its read and its write

counts == <<tokensSpent, tokensReserved, moneySpent, periodStart>>
ceilings == <<opened, tokensMax, moneyMax>>
tasks == <<taskState, taskAccount, taskReserved>>
runs == <<runOpen, runCharged, estimate>>
vars == <<counts, ceilings, month, tasks, runs, request>>

IdleRequest == [account |-> NoAccount, tokens |-> 0, money |-> 0, proved |-> FALSE]

Init ==
    /\ opened = {}
    /\ tokensMax = [a \in Accounts |-> 0]
    /\ tokensSpent = [a \in Accounts |-> 0]
    /\ tokensReserved = [a \in Accounts |-> 0]
    /\ moneyMax = [a \in Accounts |-> 0]
    /\ moneySpent = [a \in Accounts |-> 0]
    /\ periodStart = [a \in Accounts |-> 0]
    /\ month = 0
    /\ taskState = [t \in Tasks |-> "new"]
    /\ taskAccount = [t \in Tasks |-> NoAccount]
    /\ taskReserved = [t \in Tasks |-> 0]
    /\ runOpen = {}
    /\ runCharged = [t \in Tasks |-> 0]
    /\ estimate = [t \in Tasks |-> 0]
    /\ request = [r \in Requests |-> IdleRequest]

-----------------------------------------------------------------------------
(* The functions in the database, each over a set S of locked accounts.    *)

\* GREATEST(0, n) of an integer n.
AtLeastZero(n) == IF n \in Nat THEN n ELSE 0
Lesser(m, n) == IF m < n THEN m ELSE n

\* budget_new_period: which accounts of S start the month again.
Passed(S) == {a \in S : periodStart[a] < month}
Spent(S) == [a \in Accounts |-> IF a \in Passed(S) THEN 0 ELSE tokensSpent[a]]
Money(S) == [a \in Accounts |-> IF a \in Passed(S) THEN 0 ELSE moneySpent[a]]
Period(S) == [a \in Accounts |-> IF a \in Passed(S) THEN month ELSE periodStart[a]]

\* budget_reserve refuses unless every account of the chain has room.
HasRoom(a, n) ==
    \A c \in Chain[a] : Spent(Chain[a])[c] + tokensReserved[c] + n <= tokensMax[c]

Reserve(a, n) ==
    /\ HasRoom(a, n)
    /\ tokensReserved' = [c \in Accounts |->
                            tokensReserved[c] + (IF c \in Chain[a] THEN n ELSE 0)]
    /\ tokensSpent' = Spent(Chain[a])
    /\ moneySpent' = Money(Chain[a])
    /\ periodStart' = Period(Chain[a])

\* budget_spend checks the tokens spent, not the tokens others hold.
\* Mutated: the accounts above are not asked.
CanSpendFromAccount(a, n, cents) ==
    /\ Spent(Chain[a])[a] + n <= tokensMax[a]
    /\ Money(Chain[a])[a] + cents <= moneyMax[a]

CanSpend(a, n, cents) ==
    \A c \in Chain[a] : /\ Spent(Chain[a])[c] + n <= tokensMax[c]
                        /\ Money(Chain[a])[c] + cents <= moneyMax[c]

\* Mutated: the caller's share of the reservation is not looked at, so a charge
\* gives back what siblings hold.
SpendGivingBackAll(a, n, cents, fromReservation) ==
    /\ CanSpend(a, n, cents)
    /\ tokensSpent' = [c \in Accounts |->
                         Spent(Chain[a])[c] + (IF c \in Chain[a] THEN n ELSE 0)]
    /\ moneySpent' = [c \in Accounts |->
                        Money(Chain[a])[c] + (IF c \in Chain[a] THEN cents ELSE 0)]
    /\ tokensReserved' = [c \in Accounts |->
                            IF c \in Chain[a] THEN AtLeastZero(tokensReserved[c] - n)
                            ELSE tokensReserved[c]]
    /\ periodStart' = Period(Chain[a])

\* Mutated: the charge checks the whole chain and lands on the account alone.
SpendOnAccount(a, n, cents, fromReservation) ==
    /\ CanSpend(a, n, cents)
    /\ tokensSpent' = [Spent(Chain[a]) EXCEPT ![a] = @ + n]
    /\ moneySpent' = [Money(Chain[a]) EXCEPT ![a] = @ + cents]
    /\ tokensReserved' = [tokensReserved EXCEPT
                            ![a] = AtLeastZero(@ - Lesser(fromReservation, n))]
    /\ periodStart' = Period(Chain[a])

Spend(a, n, cents, fromReservation) ==
    /\ CanSpend(a, n, cents)
    /\ tokensSpent' = [c \in Accounts |->
                         Spent(Chain[a])[c] + (IF c \in Chain[a] THEN n ELSE 0)]
    /\ moneySpent' = [c \in Accounts |->
                        Money(Chain[a])[c] + (IF c \in Chain[a] THEN cents ELSE 0)]
    /\ tokensReserved' = [c \in Accounts |->
                            IF c \in Chain[a]
                            THEN AtLeastZero(tokensReserved[c] - Lesser(fromReservation, n))
                            ELSE tokensReserved[c]]
    /\ periodStart' = Period(Chain[a])

\* budget_settle moves the money of the whole chain, up or down, and looks at
\* neither the ceiling nor the month.
\* Mutated: a settlement of an amount larger than the month's count goes below zero.
SettleUnclamped(a, delta) ==
    /\ moneySpent' = [c \in Accounts |-> moneySpent[c] + (IF c \in Chain[a] THEN delta ELSE 0)]
    /\ \A c \in Accounts : moneySpent'[c] <= MaxMoney
    /\ UNCHANGED <<tokensSpent, tokensReserved, periodStart>>

\* Mutated: the settlement before 0037, on the account alone.
SettleOnAccount(a, delta) ==
    /\ moneySpent' = [moneySpent EXCEPT ![a] = AtLeastZero(@ + delta)]
    /\ moneySpent'[a] <= MaxMoney
    /\ UNCHANGED <<tokensSpent, tokensReserved, periodStart>>

Settle(a, delta) ==
    /\ moneySpent' = [c \in Accounts |-> IF c \in Chain[a]
                                         THEN AtLeastZero(moneySpent[c] + delta)
                                         ELSE moneySpent[c]]
    /\ \A c \in Accounts : moneySpent'[c] <= MaxMoney
    /\ UNCHANGED <<tokensSpent, tokensReserved, periodStart>>

\* releaseReservations and budget_release for the tasks of T: one release per
\* account, each clamped at zero, all under one lock.
HeldUnder(T, a) == SumFunctionOnSet(taskReserved, {t \in T : a \in Chain[taskAccount[t]]})
Release(T) ==
    tokensReserved' = [a \in Accounts |-> AtLeastZero(tokensReserved[a] - HeldUnder(T, a))]

-----------------------------------------------------------------------------
(* Accounts and their ceilings.                                            *)

\* createAccount: a narrower account that says nothing of money inherits its
\* parent's ceiling, the company's own gets zero.
CreateAccount(a, tokens, money) ==
    /\ a \notin opened
    /\ Parent[a] = NoAccount \/ Parent[a] \in opened
    /\ opened' = opened \cup {a}
    /\ tokensMax' = [tokensMax EXCEPT ![a] = tokens]
    /\ moneyMax' = [moneyMax EXCEPT ![a] = IF money # Unsaid THEN money
                                           ELSE IF Parent[a] = NoAccount THEN 0
                                           ELSE moneyMax[Parent[a]]]
    /\ periodStart' = [periodStart EXCEPT ![a] = month]
    /\ UNCHANGED <<tokensSpent, tokensReserved, moneySpent, month, tasks, runs, request>>

\* setCeilings, its first transaction: the ceilings as they are, from which
\* the caller decides whether this is a raise (and asks for the owner's
\* factor, here always given) and which the write falls back on.
ReadCeilings(r, a, tokens, money) ==
    /\ request[r].account = NoAccount
    /\ a \in opened
    /\ request' = [request EXCEPT ![r] =
         [account |-> a,
          tokens |-> tokens,
          money |-> IF money = Unsaid THEN moneyMax[a] ELSE money,
          proved |-> tokens > tokensMax[a] \/ (money # Unsaid /\ money > moneyMax[a])]]
    /\ UNCHANGED <<counts, ceilings, month, tasks, runs>>

\* Its second transaction.  The table refuses a ceiling below what is spent.
WriteCeilings(r) ==
    LET q == request[r] IN
    /\ q.account # NoAccount
    /\ request' = [request EXCEPT ![r] = IdleRequest]
    /\ IF tokensSpent[q.account] <= q.tokens
       THEN /\ tokensMax' = [tokensMax EXCEPT ![q.account] = q.tokens]
            /\ moneyMax' = [moneyMax EXCEPT ![q.account] = q.money]
       ELSE UNCHANGED <<tokensMax, moneyMax>>
    /\ UNCHANGED <<opened, counts, month, tasks, runs>>

\* startNewPeriods, the worker's watch.
StartNewPeriods ==
    /\ Passed(opened) # {}
    /\ tokensSpent' = Spent(opened)
    /\ moneySpent' = Money(opened)
    /\ periodStart' = Period(opened)
    /\ UNCHANGED <<tokensReserved, ceilings, month, tasks, runs, request>>

NextMonth ==
    /\ month < MaxMonth
    /\ month' = month + 1
    /\ UNCHANGED <<counts, ceilings, tasks, runs, request>>

-----------------------------------------------------------------------------
(* Tasks.                                                                  *)

\* createRootTask and createSubTask: the reservation and the row in one
\* transaction; refused, the transaction is rolled back.
Admit(t, a) ==
    /\ taskState[t] = "new"
    /\ a \in opened
    /\ Reserve(a, DefaultReserve)
    /\ taskState' = [taskState EXCEPT ![t] = "live"]
    /\ taskAccount' = [taskAccount EXCEPT ![t] = a]
    /\ taskReserved' = [taskReserved EXCEPT ![t] = DefaultReserve]
    /\ UNCHANGED <<ceilings, month, runs, request>>

\* The insert lost the race for its idempotency key: the reservation just
\* taken is given back and the other side's task adopted.
AdmitAdopted(a) ==
    /\ a \in opened
    /\ \E t \in Tasks : taskState[t] # "new" /\ taskAccount[t] = a
    /\ HasRoom(a, DefaultReserve)
    /\ tokensReserved' = [c \in Accounts |->
          IF c \in Chain[a]
          THEN AtLeastZero((tokensReserved[c] + DefaultReserve) - DefaultReserve)
          ELSE tokensReserved[c]]
    /\ tokensSpent' = Spent(Chain[a])
    /\ moneySpent' = Money(Chain[a])
    /\ periodStart' = Period(Chain[a])
    /\ UNCHANGED <<ceilings, month, tasks, runs, request>>

\* transitionWithin to a terminal status gives back what the task still holds.
End(t, to) ==
    /\ taskState[t] = "live"
    /\ Release({t})
    /\ taskState' = [taskState EXCEPT ![t] = to]
    /\ taskReserved' = [taskReserved EXCEPT ![t] = 0]
    /\ UNCHANGED <<tokensSpent, moneySpent, periodStart, ceilings, month,
                   taskAccount, runs, request>>

\* cancelTask and the stop button: every task of a tree at once.
Cancel(T) ==
    /\ \A t \in T : taskState[t] = "live"
    /\ Release(T)
    /\ taskState' = [t \in Tasks |-> IF t \in T THEN "ended" ELSE taskState[t]]
    /\ taskReserved' = [t \in Tasks |-> IF t \in T THEN 0 ELSE taskReserved[t]]
    /\ UNCHANGED <<tokensSpent, moneySpent, periodStart, ceilings, month,
                   taskAccount, runs, request>>

\* continueHalted: only work its budget stopped, and only if it can be funded.
ContinueHalted(t) ==
    /\ taskState[t] = "halted"
    /\ Reserve(taskAccount[t], DefaultReserve)
    /\ taskState' = [taskState EXCEPT ![t] = "live"]
    /\ taskReserved' = [taskReserved EXCEPT ![t] = DefaultReserve]
    /\ UNCHANGED <<ceilings, month, taskAccount, runs, request>>

-----------------------------------------------------------------------------
(* What a run charges.  A run may outlive its task: it learns that the     *)
(* task was cancelled at its next commit.                                  *)

StartRun(t) ==
    /\ taskState[t] = "live"
    /\ t \notin runOpen
    /\ runOpen' = runOpen \cup {t}
    /\ runCharged' = [runCharged EXCEPT ![t] = 0]
    /\ UNCHANGED <<counts, ceilings, month, tasks, estimate, request>>

\* reportUsage, the charge allowed: drawn from what the task still holds.
ReportUsage(t, n, cents) ==
    LET a == taskAccount[t]
        drawn == Lesser(taskReserved[t], n) IN
    /\ t \in runOpen
    /\ Spend(a, n, cents, drawn)
    /\ taskReserved' = [taskReserved EXCEPT ![t] = @ - drawn]
    /\ runCharged' = [runCharged EXCEPT ![t] = @ + cents]
    /\ UNCHANGED <<ceilings, month, taskState, taskAccount, runOpen, estimate, request>>

\* reportUsage, the charge refused: the call happened, so its money is settled
\* on the chain above the ceiling, and the run ends with budget.exceeded.
UsageRefused(t, n, cents) ==
    LET a == taskAccount[t]
        S == Chain[a] IN
    /\ t \in runOpen
    /\ ~CanSpend(a, n, cents)
    /\ moneySpent' = [c \in Accounts |-> Money(S)[c] + (IF c \in S THEN cents ELSE 0)]
    /\ \A c \in Accounts : moneySpent'[c] <= MaxMoney
    /\ tokensSpent' = Spent(S)
    /\ periodStart' = Period(S)
    /\ runOpen' = runOpen \ {t}
    /\ UNCHANGED <<tokensReserved, ceilings, month, tasks, runCharged, estimate, request>>

\* reportUsage with runTotal: the provider's bill replaces what the run's
\* estimates charged.
RunBill(t, actual) ==
    /\ t \in runOpen
    /\ Settle(taskAccount[t], actual - runCharged[t])
    /\ runCharged' = [runCharged EXCEPT ![t] = actual]
    /\ UNCHANGED <<ceilings, month, tasks, runOpen, estimate, request>>

\* chargeEstimate before a capability is called.
ChargeEstimate(t, cents) ==
    /\ t \in runOpen
    /\ estimate[t] = 0
    /\ cents > 0
    /\ Spend(taskAccount[t], 0, cents, 0)
    /\ estimate' = [estimate EXCEPT ![t] = cents]
    /\ UNCHANGED <<ceilings, month, tasks, runOpen, runCharged, request>>

\* refundEstimate: the action did not happen.
RefundEstimate(t) ==
    /\ estimate[t] > 0
    /\ Settle(taskAccount[t], -estimate[t])
    /\ estimate' = [estimate EXCEPT ![t] = 0]
    /\ UNCHANGED <<ceilings, month, tasks, runOpen, runCharged, request>>

\* settleActual: the action cost what it cost, estimated or not.
SettleActual(t, actual) ==
    /\ estimate[t] > 0 \/ t \in runOpen
    /\ Settle(taskAccount[t], actual - estimate[t])
    /\ estimate' = [estimate EXCEPT ![t] = 0]
    /\ UNCHANGED <<ceilings, month, tasks, runOpen, runCharged, request>>

\* The run is over, or its worker died with it: what it had charged stays.
EndRun(t) ==
    /\ t \in runOpen
    /\ runOpen' = runOpen \ {t}
    /\ estimate' = [estimate EXCEPT ![t] = 0]
    /\ UNCHANGED <<counts, ceilings, month, tasks, runCharged, request>>

-----------------------------------------------------------------------------
OwnerNext ==
    \/ \E a \in Accounts, n \in TokenCeilings, m \in MoneyCeilings \cup {Unsaid} :
          \/ CreateAccount(a, n, m)
          \/ \E r \in Requests : ReadCeilings(r, a, n, m)
    \/ \E r \in Requests : WriteCeilings(r)

TaskNext ==
    \/ \E a \in Accounts : AdmitAdopted(a)
    \/ \E t \in Tasks :
          \/ \E a \in Accounts : Admit(t, a)
          \/ \E to \in {"halted", "ended"} : End(t, to)
          \/ ContinueHalted(t)
    \/ \E T \in SUBSET Tasks : Cancel(T)

RunNext ==
    \E t \in Tasks :
       \/ StartRun(t) \/ EndRun(t) \/ RefundEstimate(t)
       \/ \E n \in TokenAmounts, m \in MoneyAmounts :
             ReportUsage(t, n, m) \/ UsageRefused(t, n, m)
       \/ \E m \in MoneyAmounts :
             RunBill(t, m) \/ ChargeEstimate(t, m) \/ SettleActual(t, m)

Next == OwnerNext \/ TaskNext \/ RunNext \/ StartNewPeriods \/ NextMonth

Spec == Init /\ [][Next]_vars

-----------------------------------------------------------------------------
(* Properties.                                                             *)

\* Every count is a number and every reference an account of the company.
TypeOK ==
    /\ opened \subseteq Accounts
    /\ tokensMax \in [Accounts -> Nat] /\ tokensSpent \in [Accounts -> Nat]
    /\ tokensReserved \in [Accounts -> Nat]
    /\ moneyMax \in [Accounts -> Nat] /\ moneySpent \in [Accounts -> Nat]
    /\ periodStart \in [Accounts -> Nat] /\ month \in Nat
    /\ taskState \in [Tasks -> {"new", "live", "halted", "ended"}]
    /\ taskAccount \in [Tasks -> Accounts \cup {NoAccount}]
    /\ taskReserved \in [Tasks -> Nat]
    /\ runOpen \subseteq Tasks
    /\ runCharged \in [Tasks -> Nat] /\ estimate \in [Tasks -> Nat]
    /\ request \in [Requests -> [account : Accounts \cup {NoAccount}, tokens : Nat,
                                 money : Nat, proved : BOOLEAN]]
    /\ \A t \in Tasks : taskState[t] # "new" => taskAccount[t] \in opened
    /\ \A t \in runOpen : taskState[t] # "new"
    /\ \A t \in Tasks : estimate[t] > 0 => taskState[t] # "new"
    /\ \A a \in opened : Parent[a] # NoAccount => Parent[a] \in opened

\* No account's month spends more tokens than its ceiling, whatever charges,
\* settlements, new months and cuts of the ceiling run against each other
\* (budget_spend's check, and setCeilings against a charge between its read
\* and its write).
TokensWithinCeiling == \A a \in Accounts : tokensSpent[a] <= tokensMax[a]

\* What an account says is reserved is exactly what the live tasks under it
\* hold: no call, retry, lost race, cancellation or bill leaves a reservation
\* behind or erases a sibling's (the clamp in budget_release never bites).
ReservedIsHeld ==
    \A a \in Accounts :
       tokensReserved[a] = HeldUnder({t \in Tasks : taskState[t] # "new"}, a)

\* A division never says it spent more of the month's tokens than the account
\* above it says: charges and new months reach the whole chain, or none of it.
TokenLedgerAgrees ==
    \A a \in Accounts : Parent[a] # NoAccount =>
       (periodStart[a] = periodStart[Parent[a]] => tokensSpent[a] <= tokensSpent[Parent[a]])

\* The same of its money, as long as no month changes (0037): a settlement or a
\* refund reaches every account its charge reached.
MoneyAgreesInAMonth ==
    month = 0 => \A a \in Accounts : Parent[a] # NoAccount => moneySpent[a] <= moneySpent[Parent[a]]
=============================================================================
