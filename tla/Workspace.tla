------------------------------- MODULE Workspace -------------------------------
(***************************************************************************)
(* One workspace and its members' requests: the base currency and the      *)
(* writers of financial rows (transactions, budgets, goals), the balance   *)
(* of a savings goal, and what is left when members delete their accounts  *)
(* (workspace.service.ts, workspace-financial-lock.ts,                     *)
(* transactions.service.ts, budgets.service.ts, goals.service.ts,          *)
(* auth.repository.ts).  A worker is one database transaction.             *)
(***************************************************************************)
EXTENDS Integers, FiniteSets, FiniteSetsExt, Planning

CONSTANTS
    Workers,      \* transactions that may be open together
    Users,        \* accounts that may be members
    Currencies,   \* two are enough for a change
    TxIds,        \* ids of transaction rows
    OpIds,        \* ids of operations on the goal
    Categories, Parent, NoCategory, \* a tree of categories, as a function
    Amounts,      \* amounts of transactions and budgets
    Targets, Initials, Deposits,    \* amounts of the goal
    DaysPerMonth, MaxTargetMonths,  \* 120 in the code
    RetryLimit,   \* SERIALIZABLE_RETRY_LIMIT
    MaxRequests, MaxToday,          \* bounds
    InitialMembers, \* members at the start: no endpoint adds one to a workspace
    NoTx, NoBudget, NoGoal, Gone

ASSUME WorkspaceAssumption ==
    /\ {DaysPerMonth, MaxTargetMonths, RetryLimit} \subseteq Nat \ {0}
    /\ {MaxRequests, MaxToday} \subseteq Nat
    /\ Targets \cup Amounts \cup Deposits \subseteq Nat \ {0}
    /\ Initials \subseteq Nat
    /\ Gone \notin Currencies
    /\ IsFiniteSet(OpIds) /\ IsFiniteSet(TxIds) /\ IsFiniteSet(Categories)
    /\ InitialMembers \in [Users -> {"owner", "admin", "member", "none"}]
    /\ \E u \in Users : InitialMembers[u] = "owner"

(* No category is below itself: what CategoryTree asks of two levels, and  *)
(* less.                                                                   *)
ASSUME TreeAssumption ==
    /\ NoCategory \notin Categories
    /\ Parent \in [Categories -> Categories \cup {NoCategory}]
    /\ \E height \in [Categories -> 0 .. Cardinality(Categories)] :
         \A c \in Categories : Parent[c] # NoCategory => height[c] < height[Parent[c]]

VARIABLES
    members,   \* [Users -> "owner", "admin", "member" or "none"]
    base,      \* base currency, or Gone with the workspace
    txs,       \* [TxIds -> transaction, or NoTx]
    budgets,   \* [Categories -> budget of the month, or NoBudget]
    goal,      \* the goal, or NoGoal
    operations,\* [OpIds -> deposit, negative for a withdrawal, or 0]
    today,     \* the date, in days
    work,      \* [Workers -> open transaction, or Idle]
    requests   \* how many requests there were

rows == <<txs, budgets, goal, operations>>
vars == <<members, base, rows, today, work, requests>>

-------------------------------------------------------------------------------
Roles == {"owner", "admin", "member"}

Tx == [category : Categories, amount : Amounts, base : Currencies, deleted : BOOLEAN]
Budget == [amount : Amounts, base : Currencies]
Goal == [target : Targets, initial : Initials, base : Currencies, archived : BOOLEAN,
         date : 0 .. MaxToday + MaxTargetMonths * DaysPerMonth, start : Nat]

(* The nulls that stand for the absence of a row are no rows themselves.   *)
ASSUME AbsenceAssumption == NoTx \notin Tx /\ NoBudget \notin Budget /\ NoGoal \notin Goal

(* Writers of an amount in the base currency; they share the row lock of   *)
(* the workspace and keep the currency they read under it.                 *)
CurrencyOps == {"createTransaction", "updateTransaction",
                "createBudget", "updateBudget", "createGoal"}

(* Writers of the balance: SERIALIZABLE, with the goal and its operations  *)
(* as they were when the transaction began.                                *)
BalanceOps == {"updateGoal", "createOperation", "updateOperation", "deleteOperation"}

Idle == [op |-> "idle"]

Transaction ==
    [op : CurrencyOps, base : Currencies]
    \cup [op : {"settings"}, locked : BOOLEAN]
    \cup [op : BalanceOps, goal : Goal, operations : [OpIds -> Int],
          seen : 0 .. MaxToday, stale : BOOLEAN, attempt : 1 .. RetryLimit]
    \cup [op : {"deleteAccount"}, user : Users, members : [Users -> Roles \cup {"none"}],
          stale : BOOLEAN]

InWorkspace == {u \in Users : members[u] # "none"}

Open(w, transaction) ==
    /\ work[w] = Idle
    /\ InWorkspace # {}
    /\ requests < MaxRequests
    /\ work' = [work EXCEPT ![w] = transaction]
    /\ requests' = requests + 1

(* Requests of a single step.                                              *)
Once ==
    /\ InWorkspace # {}
    /\ requests < MaxRequests
    /\ requests' = requests + 1

Done(w) == work' = [work EXCEPT ![w] = Idle]

Holding(ops) == {w \in Workers : work[w].op \in ops}

-------------------------------------------------------------------------------
(* Base currency: FOR SHARE by the writers, FOR UPDATE by the settings.    *)

(* Mutant: the workspace is read without a lock.                           *)
MayShare_Unlocked == TRUE

MayShare == Holding({"settings"}) = {}

MayOwn == Holding({"settings"} \cup CurrencyOps) = {}

(* Mutant: a workspace that has goals alone counts as empty.               *)
BaseCurrencyLocked_NoGoals ==
    \/ \E t \in TxIds : txs[t] # NoTx
    \/ \E c \in Categories : budgets[c] # NoBudget

(* Deleted transactions count.                                             *)
BaseCurrencyLocked ==
    \/ \E t \in TxIds : txs[t] # NoTx
    \/ \E c \in Categories : budgets[c] # NoBudget
    \/ goal # NoGoal

(* lockWorkspaceCurrency, then the quote for the currency it returned.     *)
BeginWrite(w) ==
    /\ MayShare
    /\ \E op \in CurrencyOps : Open(w, [op |-> op, base |-> base])
    /\ UNCHANGED <<members, base, rows, today>>

PutTransaction(w, t) ==
    \E c \in Categories, a \in Amounts :
      txs' = [txs EXCEPT ![t] = [category |-> c, amount |-> a,
                                 base |-> work[w].base, deleted |-> FALSE]]

CreateTransaction(w) ==
    /\ work[w].op = "createTransaction"
    /\ \E t \in TxIds : txs[t] = NoTx /\ PutTransaction(w, t)
    /\ Done(w)
    /\ UNCHANGED <<members, base, budgets, goal, operations, today, requests>>

UpdateTransaction(w) ==
    /\ work[w].op = "updateTransaction"
    /\ \E t \in TxIds : txs[t] # NoTx /\ ~txs[t].deleted /\ PutTransaction(w, t)
    /\ Done(w)
    /\ UNCHANGED <<members, base, budgets, goal, operations, today, requests>>

(* A budget is made for a subcategory and stays at one for each of them,   *)
(* which the unique index decides.                                         *)
Subcategories == {c \in Categories : Parent[c] # NoCategory}

NewBudget(w, amount) == [amount |-> amount, base |-> work[w].base]

CreateBudget(w) ==
    /\ work[w].op = "createBudget"
    /\ \E c \in Subcategories, a \in Amounts :
         /\ budgets[c] = NoBudget
         /\ budgets' = [budgets EXCEPT ![c] = NewBudget(w, a)]
    /\ Done(w)
    /\ UNCHANGED <<members, base, txs, goal, operations, today, requests>>

(* It may move to another one.                                             *)
UpdateBudget(w) ==
    /\ work[w].op = "updateBudget"
    /\ \E c \in Subcategories, d \in Categories, a \in Amounts :
         /\ budgets[d] # NoBudget
         /\ c # d => budgets[c] = NoBudget
         /\ budgets' = [budgets EXCEPT ![d] = NoBudget, ![c] = NewBudget(w, a)]
    /\ Done(w)
    /\ UNCHANGED <<members, base, txs, goal, operations, today, requests>>

(* parseTargetDate.                                                        *)
TargetDates(date) ==
    AddMonths(date, 1, DaysPerMonth) .. AddMonths(date, MaxTargetMonths, DaysPerMonth)

WriteGoal(w) ==
    /\ work[w].op = "createGoal"
    /\ goal = NoGoal
    /\ \E target \in Targets, initial \in Initials, current \in BOOLEAN,
          date \in TargetDates(today) :
         goal' = [target |-> target, initial |-> initial, base |-> work[w].base,
                  archived |-> FALSE, date |-> date,
                  start |-> Month(today, DaysPerMonth) + IF current THEN 0 ELSE 1]
    /\ Done(w)
    /\ UNCHANGED <<members, base, txs, budgets, operations, today, requests>>

(* updateWorkspaceSettings: lock and counts, then the update.              *)
BeginSettings(w) ==
    /\ MayOwn
    /\ Open(w, [op |-> "settings", locked |-> BaseCurrencyLocked])
    /\ UNCHANGED <<members, base, rows, today>>

(* A change of the timezone may take the workspace back to yesterday.      *)
WriteSettings(w) ==
    /\ work[w].op = "settings"
    /\ base' \in Currencies
    /\ work[w].locked => base' = base
    /\ today' \in {today, today - 1} \cap Nat
    /\ Done(w)
    /\ UNCHANGED <<members, rows, requests>>

(* A rate that cannot be fetched, a reference that is gone, a conflict, a  *)
(* lost connection: everything is rolled back.                             *)
Abort(w) ==
    /\ work[w] # Idle
    /\ Done(w)
    /\ UNCHANGED <<members, base, rows, today, requests>>

DeleteTransaction(t) ==
    /\ Once
    /\ txs[t] # NoTx
    /\ ~txs[t].deleted
    /\ txs' = [txs EXCEPT ![t].deleted = TRUE]
    /\ UNCHANGED <<members, base, budgets, goal, operations, today, work>>

DeleteBudget(c) ==
    /\ Once
    /\ budgets[c] # NoBudget
    /\ budgets' = [budgets EXCEPT ![c] = NoBudget]
    /\ UNCHANGED <<members, base, txs, goal, operations, today, work>>

-------------------------------------------------------------------------------
(* Balance of the goal.  Any two of its SERIALIZABLE transactions that     *)
(* overlap read what the other writes: the first one to commit makes the   *)
(* others stale, and a stale one cannot commit.                            *)

Balance(initial, ops) == initial + SumOver(ops, OpIds)

Snapshot(op, seen, attempt) ==
    [op |-> op, goal |-> goal, operations |-> operations,
     seen |-> seen, stale |-> FALSE, attempt |-> attempt]

(* Mutant: the transactions run at the default isolation level.            *)
Current_ReadCommitted(w) == TRUE

Current(w) == ~work[w].stale

(* The worker commits and what it wrote makes the others' snapshots stale. *)
Commit(w, ops) ==
    work' = [v \in Workers |->
               IF v = w THEN Idle
               ELSE IF work[v].op \in ops THEN [work[v] EXCEPT !.stale = TRUE]
               ELSE work[v]]

(* The date is read before the transaction and kept over its retries.      *)
BeginBalance(w) ==
    /\ goal # NoGoal
    /\ \E op \in BalanceOps : Open(w, Snapshot(op, today, 1))
    /\ UNCHANGED <<members, base, rows, today>>

(* Mutant: one attempt too many.                                           *)
MayRetry_OffByOne(attempt) == attempt <= RetryLimit

MayRetry(attempt) == attempt < RetryLimit

(* isSerializationConflict: also for a conflict the database only suspects.*)
Retry(w) ==
    /\ work[w].op \in BalanceOps
    /\ MayRetry(work[w].attempt)
    /\ goal # NoGoal
    /\ work' = [work EXCEPT ![w] = Snapshot(@.op, @.seen, @.attempt + 1)]
    /\ UNCHANGED <<members, base, rows, today, requests>>

UpdateGoal(w) ==
    LET s == work[w] IN
    /\ s.op = "updateGoal"
    /\ ~s.goal.archived
    /\ Current(w)
    /\ goal # NoGoal
    /\ \E target \in Targets, initial \in Initials,
          date \in {s.goal.date} \cup TargetDates(s.seen) :
         /\ Balance(initial, s.operations) >= 0
         /\ goal' = [goal EXCEPT !.target = target, !.initial = initial, !.date = date]
    /\ Commit(w, BalanceOps)
    /\ UNCHANGED <<members, base, txs, budgets, operations, today, requests>>

(* createOperation checks withdrawals only; updateOperation and            *)
(* deleteOperation check what they would leave.                            *)
WriteOperation(w) ==
    LET s == work[w] IN
    /\ s.op \in BalanceOps \ {"updateGoal"}
    /\ ~s.goal.archived
    /\ Current(w)
    /\ goal # NoGoal
    /\ \E i \in OpIds, deposit \in Deposits \cup {-d : d \in Deposits} \cup {0} :
         /\ (s.op = "createOperation") = (operations[i] = 0)
         /\ (s.op = "deleteOperation") = (deposit = 0)
         /\ \/ s.op = "createOperation" /\ deposit > 0
            \/ Balance(s.goal.initial, [s.operations EXCEPT ![i] = deposit]) >= 0
         /\ operations' = [operations EXCEPT ![i] = deposit]
    /\ Commit(w, BalanceOps)
    /\ UNCHANGED <<members, base, txs, budgets, goal, today, requests>>

(* READ COMMITTED: only a transaction that writes the same row notices.    *)
SetArchived ==
    /\ Once
    /\ goal # NoGoal
    /\ goal' = [goal EXCEPT !.archived = ~@]
    /\ work' = [v \in Workers |-> IF work[v].op = "updateGoal"
                                   THEN [work[v] EXCEPT !.stale = TRUE] ELSE work[v]]
    /\ UNCHANGED <<members, base, txs, budgets, operations, today>>

(* The operations go with the goal, and the transactions on them fail.     *)
DeleteGoal ==
    /\ Once
    /\ goal # NoGoal
    /\ goal' = NoGoal
    /\ operations' = [i \in OpIds |-> 0]
    /\ work' = [v \in Workers |-> IF work[v].op \in BalanceOps
                                   THEN [work[v] EXCEPT !.stale = TRUE] ELSE work[v]]
    /\ UNCHANGED <<members, base, txs, budgets, today>>

-------------------------------------------------------------------------------
(* deleteUserAccount, seen from the workspace: SERIALIZABLE, not retried.  *)

BeginDeleteAccount(w) ==
    /\ \E u \in InWorkspace :
         Open(w, [op |-> "deleteAccount", user |-> u, members |-> members, stale |-> FALSE])
    /\ UNCHANGED <<members, base, rows, today>>

(* The memberships the transaction found besides its own.                  *)
Remaining(w) == {u \in Users \ {work[w].user} : work[w].members[u] # "none"}

WithRole(w, role) == {u \in Remaining(w) : work[w].members[u] = role}

(* The last member takes the workspace and all of its rows along, once no  *)
(* one holds its row.                                                      *)
DeleteWorkspace(w) ==
    /\ work[w].op = "deleteAccount"
    /\ Current(w)
    /\ Remaining(w) = {}
    /\ MayOwn
    /\ members' = [members EXCEPT ![work[w].user] = "none"]
    /\ base' = Gone
    /\ txs' = [t \in TxIds |-> NoTx]
    /\ budgets' = [c \in Categories |-> NoBudget]
    /\ goal' = NoGoal
    /\ operations' = [i \in OpIds |-> 0]
    /\ Commit(w, BalanceOps \cup {"deleteAccount"})
    /\ UNCHANGED <<today, requests>>

(* An owner without another owner hands over to an admin, else to anyone.  *)
LeaveWorkspace(w) ==
    /\ work[w].op = "deleteAccount"
    /\ Current(w)
    /\ Remaining(w) # {}
    /\ LET user == work[w].user
           left == [members EXCEPT ![user] = "none"]
           admins == WithRole(w, "admin")
       IN  IF work[w].members[user] = "owner" /\ WithRole(w, "owner") = {}
           THEN \E u \in IF admins # {} THEN admins ELSE Remaining(w) :
                  /\ members[u] # "none"
                  /\ members' = [left EXCEPT ![u] = "owner"]
           ELSE members' = left
    /\ Commit(w, {"deleteAccount"})
    /\ UNCHANGED <<base, rows, today, requests>>

-------------------------------------------------------------------------------
Tick ==
    /\ today < MaxToday
    /\ today' = today + 1
    /\ UNCHANGED <<members, base, rows, work, requests>>

Init ==
    /\ members = InitialMembers
    /\ base \in Currencies
    /\ txs = [t \in TxIds |-> NoTx]
    /\ budgets = [c \in Categories |-> NoBudget]
    /\ goal = NoGoal
    /\ operations = [i \in OpIds |-> 0]
    /\ today = 0
    /\ work = [w \in Workers |-> Idle]
    /\ requests = 0

Next ==
    \/ \E w \in Workers :
         \/ BeginWrite(w) \/ CreateTransaction(w) \/ UpdateTransaction(w)
         \/ CreateBudget(w) \/ UpdateBudget(w) \/ WriteGoal(w)
         \/ BeginSettings(w) \/ WriteSettings(w)
         \/ BeginBalance(w) \/ UpdateGoal(w) \/ WriteOperation(w) \/ Retry(w)
         \/ BeginDeleteAccount(w) \/ DeleteWorkspace(w) \/ LeaveWorkspace(w)
         \/ Abort(w)
    \/ \E t \in TxIds : DeleteTransaction(t)
    \/ \E c \in Categories : DeleteBudget(c)
    \/ SetArchived \/ DeleteGoal
    \/ Tick

Spec == Init /\ [][Next]_vars

-------------------------------------------------------------------------------
(* Types; no transaction is attempted more often than the limit            *)
(* (runSerializable).                                                      *)
TypeOK ==
    /\ members \in [Users -> Roles \cup {"none"}]
    /\ base \in Currencies \cup {Gone}
    /\ txs \in [TxIds -> Tx \cup {NoTx}]
    /\ budgets \in [Categories -> Budget \cup {NoBudget}]
    /\ goal \in Goal \cup {NoGoal}
    /\ operations \in [OpIds -> Int]
    /\ today \in 0 .. MaxToday
    /\ work \in [Workers -> Transaction \cup {Idle}]
    /\ requests \in 0 .. MaxRequests

(* Every amount of a workspace is in its one base currency, whatever       *)
(* change of the currency met the writer between its lock and its insert   *)
(* (lockWorkspaceCurrency, updateWorkspaceSettings).                       *)
OneBaseCurrency ==
    /\ \A t \in TxIds : txs[t] # NoTx => txs[t].base = base
    /\ \A c \in Categories : budgets[c] # NoBudget => budgets[c].base = base
    /\ goal # NoGoal => goal.base = base

(* Withdrawals, smaller deposits, deletions of deposits and a smaller      *)
(* initial amount that overlap never take more from a goal than it has     *)
(* (runSerializable, balanceCents).                                        *)
BalanceNeverNegative == goal # NoGoal => Balance(goal.initial, operations) >= 0

(* A workspace with members has an owner among them, and one without       *)
(* members is gone with its rows, whoever leaves at the same time          *)
(* (deleteUserAccount).                                                    *)
OwnerRemains ==
    /\ InWorkspace # {} => \E u \in Users : members[u] = "owner"
    /\ InWorkspace = {} <=> base = Gone
    /\ base = Gone => rows = <<[t \in TxIds |-> NoTx], [c \in Categories |-> NoBudget],
                               NoGoal, [i \in OpIds |-> 0]>>

(* The recommended monthly amount, saved in each month from the start of   *)
(* the plan to that of the target date, reaches the target, and no smaller *)
(* one does (calculateGoalPlan).                                           *)
PlanReachesTarget ==
    goal # NoGoal =>
      LET current == Balance(goal.initial, operations)
          plan == GoalPlan(goal, current, today, DaysPerMonth)
          months == Cardinality({m \in Month(today, DaysPerMonth)
                                         .. Month(goal.date, DaysPerMonth) : m >= goal.start})
          missing == goal.target - current
      IN  CASE missing <= 0 -> plan.monthly = 0
            [] missing > 0 /\ (goal.date < today \/ months = 0) -> plan.monthly = NoPlan
            [] OTHER -> /\ plan.monthly * months >= missing
                        /\ (plan.monthly - 1) * months < missing

(* What the top categories spent adds up to what the transactions that are *)
(* left spent, and the percentage of a budget is the nearest one in        *)
(* hundredths, half up (calculateBudgetProgress).                          *)
ProgressAddsUp ==
    LET live == {t \in TxIds : txs[t] # NoTx /\ ~txs[t].deleted}
        amounts == [t \in live |-> txs[t].amount]
        own == [c \in Categories |-> SumOver(amounts, {t \in live : txs[t].category = c})]
        budget == [c \in {d \in Categories : budgets[d] # NoBudget} |-> budgets[c].amount]
        progress == BudgetProgress(Parent, budget, own)
        roots == {c \in DOMAIN progress : Parent[c] = NoCategory}
        spent == [c \in roots |-> progress[c].spent]
    IN  /\ SumOver(spent, roots) = SumOver(amounts, live)
        /\ \A c \in DOMAIN budget :
             LET error == 20000 * progress[c].spent - 2 * progress[c].points * budget[c]
             IN  -budget[c] <= error /\ error < budget[c]
===============================================================================
