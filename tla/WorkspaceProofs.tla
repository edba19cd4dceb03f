---------------------------- MODULE WorkspaceProofs ----------------------------
(***************************************************************************)
(* Theorems about Workspace: its types, one base currency, an owner for as *)
(* long as there are members, a balance that is never negative, and what   *)
(* the plan of a goal and the progress of the budgets say.                 *)
(***************************************************************************)
EXTENDS Workspace, Induction, TLAPS

(* What protects the base currency: a writer keeps the one it read, nobody *)
(* is open next to the settings, and settings that may change the currency *)
(* found no rows and there still are none.                                 *)
Protected ==
    /\ \A w \in Workers : work[w].op \in CurrencyOps => work[w].base = base
    /\ \A v, w \in Workers :
         work[v].op = "settings" /\ work[w].op \in CurrencyOps \cup {"settings"} => v = w
    /\ \A w \in Workers :
         work[w].op = "settings" /\ ~work[w].locked => ~BaseCurrencyLocked

(* What protects the owner: a deletion that may still commit saw the       *)
(* members there are, and nobody holds a workspace that is gone.           *)
Attended ==
    /\ \A w \in Workers :
         work[w].op = "deleteAccount" /\ ~work[w].stale => work[w].members = members
    /\ base = Gone => MayOwn

Inv == TypeOK /\ Protected /\ OneBaseCurrency /\ Attended /\ OwnerRemains

-------------------------------------------------------------------------------
(* What an open transaction is, by its operation.                          *)
LEMMA WorkTyped ==
    ASSUME TypeOK, NEW w \in Workers
    PROVE  /\ work[w] = Idle \/ work[w] \in Transaction
           /\ work[w] # Idle => work[w].op # "idle"
           /\ work[w].op \in CurrencyOps => work[w] \in [op : CurrencyOps, base : Currencies]
           /\ work[w].op = "settings" => work[w] \in [op : {"settings"}, locked : BOOLEAN]
           /\ work[w].op \in BalanceOps =>
                work[w] \in [op : BalanceOps, goal : Goal, operations : [OpIds -> Int],
                             seen : 0 .. MaxToday, stale : BOOLEAN, attempt : 1 .. RetryLimit]
           /\ work[w].op = "deleteAccount" =>
                work[w] \in [op : {"deleteAccount"}, user : Users,
                             members : [Users -> Roles \cup {"none"}], stale : BOOLEAN]
  <1>1. work[w] = Idle \/ work[w] \in Transaction
    BY DEF TypeOK
  <1>2. CASE work[w] = Idle
    BY <1>2 DEF Idle, CurrencyOps, BalanceOps
  <1>3. CASE work[w] \in Transaction
    BY <1>3 DEF Transaction, Idle, CurrencyOps, BalanceOps
  <1>. QED  BY <1>1, <1>2, <1>3

(* A worker that ended, did nothing, or was made stale.                    *)
Calm(v) ==
    \/ work'[v] = Idle
    \/ work'[v] = work[v]
    \/ /\ work[v].op \in BalanceOps \cup {"deleteAccount"}
       /\ work'[v] = [work[v] EXCEPT !.stale = TRUE]

AllCalm == work' = [v \in Workers |-> work'[v]] /\ \A v \in Workers : Calm(v)

(* A worker that stayed calm opened nothing and changed nothing it holds.  *)
LEMMA CalmFacts ==
    ASSUME TypeOK, NEW v \in Workers, Calm(v)
    PROVE  /\ work'[v] \in Transaction \cup {Idle}
           /\ work'[v].op \in CurrencyOps \cup {"settings"} => work'[v] = work[v]
           /\ work'[v].op = "deleteAccount" /\ ~work'[v].stale => work'[v] = work[v]
  <1>1. CASE work'[v] = Idle
    BY <1>1 DEF Idle, CurrencyOps
  <1>2. CASE work'[v] = work[v]
    BY <1>2, WorkTyped
  <1>3. CASE /\ work[v].op \in BalanceOps
             /\ work'[v] = [work[v] EXCEPT !.stale = TRUE]
    <2>1. work[v] \in [op : BalanceOps, goal : Goal, operations : [OpIds -> Int],
                       seen : 0 .. MaxToday, stale : BOOLEAN, attempt : 1 .. RetryLimit]
      BY <1>3, WorkTyped
    <2>2. /\ work'[v] \in [op : BalanceOps, goal : Goal, operations : [OpIds -> Int],
                         seen : 0 .. MaxToday, stale : BOOLEAN, attempt : 1 .. RetryLimit]
          /\ work'[v].stale = TRUE
      BY <1>3, <2>1
    <2>. QED  BY <2>2 DEF Transaction, CurrencyOps, BalanceOps
  <1>4. CASE /\ work[v].op = "deleteAccount"
             /\ work'[v] = [work[v] EXCEPT !.stale = TRUE]
    <2>1. work[v] \in [op : {"deleteAccount"}, user : Users,
                       members : [Users -> Roles \cup {"none"}], stale : BOOLEAN]
      BY <1>4, WorkTyped
    <2>2. /\ work'[v] \in [op : {"deleteAccount"}, user : Users,
                         members : [Users -> Roles \cup {"none"}], stale : BOOLEAN]
          /\ work'[v].stale = TRUE
      BY <1>4, <2>1
    <2>. QED  BY <2>2 DEF Transaction, CurrencyOps
  <1>. QED  BY <1>1, <1>2, <1>3, <1>4 DEF Calm

(* The ways to stay calm.                                                  *)
LEMMA DoneIsCalm ==
    ASSUME TypeOK, NEW w \in Workers, Done(w)
    PROVE  AllCalm
  BY DEF TypeOK, Done, AllCalm, Calm

(* A commit makes some of the others stale, and nothing else.              *)
LEMMA CommitIsCalm ==
    ASSUME TypeOK, NEW w \in Workers, NEW ops \in SUBSET (BalanceOps \cup {"deleteAccount"}),
           Commit(w, ops)
    PROVE  AllCalm
  BY DEF TypeOK, Commit, AllCalm, Calm

(* The part of the invariant that is about workers survives a calm step,   *)
(* if the base currency, the rows and the members agree to it.             *)
LEMMA CalmKeeps ==
    ASSUME Inv, AllCalm
    PROVE  /\ work' \in [Workers -> Transaction \cup {Idle}]
           /\ base' = base /\ (BaseCurrencyLocked' => BaseCurrencyLocked) => Protected'
           /\ members' = members /\ base' = base => Attended'
  <1>. USE DEF Inv
  <1>1. \A v \in Workers :
          /\ work'[v] \in Transaction \cup {Idle}
          /\ work'[v].op \in CurrencyOps \cup {"settings"} => work'[v] = work[v]
          /\ work'[v].op = "deleteAccount" /\ ~work'[v].stale => work'[v] = work[v]
    BY CalmFacts DEF AllCalm
  <1>2. work' \in [Workers -> Transaction \cup {Idle}]
    BY <1>1 DEF AllCalm
  <1>3. ASSUME base' = base, BaseCurrencyLocked' => BaseCurrencyLocked
        PROVE  Protected'
    BY <1>1, <1>3 DEF Protected
  <1>4. ASSUME members' = members, base' = base
        PROVE  Attended'
    BY <1>1, <1>4 DEF Attended, MayOwn, Holding
  <1>. QED  BY <1>2, <1>3, <1>4

(* A step that opens a transaction, or opens it again.                     *)
LEMMA OpenKeeps ==
    ASSUME Inv, NEW w \in Workers, NEW x \in Transaction,
           work' = [work EXCEPT ![w] = x], requests' \in 0 .. MaxRequests,
           UNCHANGED <<members, base, rows, today>>,
           x.op \in CurrencyOps => MayShare /\ base # Gone /\ x.base = base,
           x.op = "settings" => MayOwn /\ base # Gone /\ x.locked = BaseCurrencyLocked,
           x.op = "deleteAccount" => x.members = members
    PROVE  Inv'
  <1>. USE DEF Inv
  <1>1. work \in [Workers -> Transaction \cup {Idle}]
    BY DEF TypeOK
  <1>2. work'[w] = x /\ \A v \in Workers \ {w} : work'[v] = work[v]
    BY <1>1
  <1>3. TypeOK'
    BY DEF TypeOK, rows
  <1>4. Protected'
    <2>1. BaseCurrencyLocked' = BaseCurrencyLocked
      BY DEF BaseCurrencyLocked, rows
    <2>. QED  BY <1>2, <2>1 DEF Protected, MayShare, MayOwn, Holding, CurrencyOps
  <1>5. Attended'
    BY <1>2 DEF Attended, MayOwn, Holding
  <1>6. OneBaseCurrency' /\ OwnerRemains'
    BY DEF OneBaseCurrency, OwnerRemains, InWorkspace, rows
  <1>. QED  BY <1>3, <1>4, <1>5, <1>6

(* A workspace that is there keeps its owner when its members and its base *)
(* currency stay.                                                          *)
LEMMA OwnerKept ==
    ASSUME OwnerRemains, base # Gone, UNCHANGED <<members, base>>
    PROVE  OwnerRemains'
  BY DEF OwnerRemains, InWorkspace

(* A writer under the shared lock, whatever it writes.                     *)
LEMMA WriterKeeps ==
    ASSUME Inv, NEW w \in Workers, work[w].op \in CurrencyOps, Done(w),
           UNCHANGED <<members, base>>
    PROVE  /\ work' \in [Workers -> Transaction \cup {Idle}]
           /\ work[w].base = base /\ base \in Currencies
           /\ Protected' /\ Attended' /\ OwnerRemains'
  <1>. USE DEF Inv
  <1>1. work[w].base = base /\ base \in Currencies
    BY WorkTyped DEF Protected
  <1>2. AllCalm
    BY DoneIsCalm
  <1>3. work' \in [Workers -> Transaction \cup {Idle}] /\ Attended'
    BY <1>2, CalmKeeps
  <1>4. Protected'
    <2>1. \A v \in Workers : work'[v].op # "settings"
      BY DEF Protected, Done, TypeOK, Idle, CurrencyOps
    <2>2. \A v \in Workers : work'[v].op \in CurrencyOps => work'[v] = work[v]
      BY DEF Done, TypeOK, Idle, CurrencyOps
    <2>. QED  BY <2>1, <2>2 DEF Protected
  <1>5. OwnerRemains'
    BY <1>1, OwnerKept, WorkspaceAssumption
  <1>. QED  BY <1>1, <1>3, <1>4, <1>5

-------------------------------------------------------------------------------
(* Dates.                                                                  *)
LEMMA TargetDatesTyped ==
    ASSUME NEW d \in 0 .. MaxToday, NEW date \in TargetDates(d)
    PROVE  date \in 0 .. MaxToday + MaxTargetMonths * DaysPerMonth
  <1>. DEFINE months == MaxTargetMonths * DaysPerMonth
  <1>1. months \in Int /\ DaysPerMonth \in Nat /\ MaxToday \in Nat
    BY WorkspaceAssumption
  <1>2. date \in d + DaysPerMonth .. d + months
    BY <1>1 DEF TargetDates, AddMonths
  <1>. HIDE DEF months
  <1>3. date \in 0 .. MaxToday + months
    BY <1>1, <1>2
  <1>. QED  BY <1>3 DEF months

(* A month is a natural number.                                            *)
LEMMA MonthTyped ==
    ASSUME NEW d \in 0 .. MaxToday
    PROVE  Month(d, DaysPerMonth) \in Nat
  BY WorkspaceAssumption DEF Month

-------------------------------------------------------------------------------
(* Every action keeps the invariant.                                       *)
LEMMA KeepsBegin ==
    ASSUME Inv, NEW w \in Workers,
           BeginWrite(w) \/ BeginSettings(w) \/ BeginBalance(w) \/ BeginDeleteAccount(w) \/ Retry(w)
    PROVE  Inv'
  <1>. USE DEF Inv
  <1>1. /\ requests \in 0 .. MaxRequests /\ MaxRequests \in Nat
        /\ InWorkspace # {} => base # Gone
    BY WorkspaceAssumption DEF TypeOK, OwnerRemains
  <1>2. ASSUME NEW x, Open(w, x)
        PROVE  /\ work' = [work EXCEPT ![w] = x]
               /\ requests' \in 0 .. MaxRequests
               /\ base # Gone
    BY <1>1, <1>2 DEF Open
  <1>3. ASSUME NEW op \in BalanceOps, NEW seen \in 0 .. MaxToday, NEW n \in 1 .. RetryLimit,
               goal # NoGoal
        PROVE  Snapshot(op, seen, n) \in Transaction
    <2>1. goal \in Goal /\ operations \in [OpIds -> Int]
      BY <1>3 DEF TypeOK
    <2>. QED  BY <2>1 DEF Snapshot, Transaction
  <1>4. CASE BeginWrite(w)
    <2>1. PICK op \in CurrencyOps : Open(w, [op |-> op, base |-> base])
      BY <1>4 DEF BeginWrite
    <2>. DEFINE x == [op |-> op, base |-> base]
    <2>2. x \in Transaction
      BY <1>2, <2>1 DEF TypeOK, Transaction
    <2>3. x.op \in CurrencyOps /\ x.base = base /\ MayShare
      BY <1>4 DEF BeginWrite
    <2>4. x.op # "settings" /\ x.op # "deleteAccount"
      BY DEF CurrencyOps
    <2>5. /\ work' = [work EXCEPT ![w] = x] /\ requests' \in 0 .. MaxRequests
          /\ base # Gone /\ UNCHANGED <<members, base, rows, today>>
      BY <1>2, <1>4, <2>1 DEF BeginWrite
    <2>. HIDE DEF x
    <2>. QED  BY <2>2, <2>3, <2>4, <2>5, OpenKeeps
  <1>5. CASE BeginSettings(w)
    <2>. DEFINE x == [op |-> "settings", locked |-> BaseCurrencyLocked]
    <2>1. BaseCurrencyLocked \in BOOLEAN
      BY DEF BaseCurrencyLocked
    <2>2. x \in Transaction
      BY <2>1 DEF Transaction
    <2>3. /\ work' = [work EXCEPT ![w] = x] /\ requests' \in 0 .. MaxRequests
          /\ base # Gone /\ MayOwn /\ UNCHANGED <<members, base, rows, today>>
      BY <1>2, <1>5 DEF BeginSettings
    <2>4. x.op = "settings" /\ x.locked = BaseCurrencyLocked /\ x.op \notin CurrencyOps
      BY DEF CurrencyOps
    <2>. HIDE DEF x
    <2>. QED  BY <2>2, <2>3, <2>4, OpenKeeps
  <1>6. CASE BeginBalance(w)
    <2>1. PICK op \in BalanceOps : Open(w, Snapshot(op, today, 1))
      BY <1>6 DEF BeginBalance
    <2>. DEFINE x == Snapshot(op, today, 1)
    <2>2. x \in Transaction
      BY <1>3, <1>6, WorkspaceAssumption DEF BeginBalance, TypeOK
    <2>3. x.op \notin CurrencyOps /\ x.op # "settings" /\ x.op # "deleteAccount"
      BY DEF Snapshot, CurrencyOps, BalanceOps
    <2>4. /\ work' = [work EXCEPT ![w] = x] /\ requests' \in 0 .. MaxRequests
          /\ UNCHANGED <<members, base, rows, today>>
      BY <1>2, <1>6, <2>1 DEF BeginBalance
    <2>. HIDE DEF x
    <2>. QED  BY <2>2, <2>3, <2>4, OpenKeeps
  <1>7. CASE BeginDeleteAccount(w)
    <2>1. PICK u \in InWorkspace :
            Open(w, [op |-> "deleteAccount", user |-> u, members |-> members, stale |-> FALSE])
      BY <1>7 DEF BeginDeleteAccount
    <2>. DEFINE x == [op |-> "deleteAccount", user |-> u, members |-> members, stale |-> FALSE]
    <2>2. x \in Transaction
      BY DEF TypeOK, Transaction, InWorkspace
    <2>3. x.op \notin CurrencyOps /\ x.op # "settings" /\ x.members = members
      BY DEF CurrencyOps
    <2>4. /\ work' = [work EXCEPT ![w] = x] /\ requests' \in 0 .. MaxRequests
          /\ UNCHANGED <<members, base, rows, today>>
      BY <1>2, <1>7, <2>1 DEF BeginDeleteAccount
    <2>. HIDE DEF x
    <2>. QED  BY <2>2, <2>3, <2>4, OpenKeeps
  <1>8. CASE Retry(w)
    <2>. DEFINE x == Snapshot(work[w].op, work[w].seen, work[w].attempt + 1)
    <2>1. /\ work[w].op \in BalanceOps /\ work[w].seen \in 0 .. MaxToday
          /\ work[w].attempt + 1 \in 1 .. RetryLimit /\ goal # NoGoal
      BY <1>8, WorkTyped, WorkspaceAssumption DEF Retry, MayRetry
    <2>2. x \in Transaction
      BY <1>3, <2>1
    <2>3. x.op \notin CurrencyOps /\ x.op # "settings" /\ x.op # "deleteAccount"
      BY <2>1 DEF Snapshot, CurrencyOps, BalanceOps
    <2>4. /\ work' = [work EXCEPT ![w] = x] /\ requests' \in 0 .. MaxRequests
          /\ UNCHANGED <<members, base, rows, today>>
      BY <1>1, <1>8 DEF Retry
    <2>. HIDE DEF x
    <2>. QED  BY <2>2, <2>3, <2>4, OpenKeeps
  <1>. QED  BY <1>4, <1>5, <1>6, <1>7, <1>8

(* Writers of amounts: they share the lock of the workspace, so the        *)
(* currency they put into the row is the one it has, and no settings are   *)
(* open whose decision the new row could contradict.                       *)
LEMMA KeepsWrite ==
    ASSUME Inv, NEW w \in Workers,
           \/ CreateTransaction(w) \/ UpdateTransaction(w)
           \/ CreateBudget(w) \/ UpdateBudget(w) \/ WriteGoal(w)
    PROVE  Inv'
  <1>. USE DEF Inv
  <1>1. /\ work[w].op \in CurrencyOps /\ Done(w)
        /\ UNCHANGED <<members, base, operations, today, requests>>
    BY DEF CreateTransaction, UpdateTransaction, CreateBudget, UpdateBudget, WriteGoal,
           CurrencyOps
  <1>2. /\ work' \in [Workers -> Transaction \cup {Idle}]
        /\ work[w].base = base /\ base \in Currencies
        /\ Protected' /\ Attended' /\ OwnerRemains'
    BY <1>1, WriterKeeps
  <1>3. CASE CreateTransaction(w) \/ UpdateTransaction(w)
    <2>1. PICK t \in TxIds : PutTransaction(w, t)
      BY <1>3 DEF CreateTransaction, UpdateTransaction
    <2>2. PICK c \in Categories, a \in Amounts :
            txs' = [txs EXCEPT ![t] = [category |-> c, amount |-> a,
                                       base |-> work[w].base, deleted |-> FALSE]]
      BY <2>1 DEF PutTransaction
    <2>3. UNCHANGED <<budgets, goal>>
      BY <1>3 DEF CreateTransaction, UpdateTransaction
    <2>4. TypeOK'
      BY <1>1, <1>2, <2>2, <2>3 DEF TypeOK, Tx
    <2>5. OneBaseCurrency'
      BY <1>1, <1>2, <2>2, <2>3 DEF TypeOK, OneBaseCurrency
    <2>. QED  BY <1>2, <2>4, <2>5
  <1>4. CASE CreateBudget(w) \/ UpdateBudget(w)
    <2>1. /\ UNCHANGED <<txs, goal>>
          /\ budgets' \in [Categories -> Budget \cup {NoBudget}]
          /\ \A c \in Categories :
               budgets'[c] # NoBudget => budgets'[c] = budgets[c] \/ budgets'[c].base = work[w].base
      <3>1. CASE CreateBudget(w)
        BY <1>2, <3>1 DEF CreateBudget, TypeOK, Budget, NewBudget, Subcategories
      <3>2. CASE UpdateBudget(w)
        BY <1>2, <3>2 DEF UpdateBudget, TypeOK, Budget, NewBudget, Subcategories
      <3>. QED  BY <1>4, <3>1, <3>2
    <2>2. TypeOK'
      BY <1>1, <1>2, <2>1 DEF TypeOK
    <2>3. OneBaseCurrency'
      BY <1>1, <1>2, <2>1 DEF OneBaseCurrency
    <2>. QED  BY <1>2, <2>2, <2>3
  <1>5. CASE WriteGoal(w)
    <2>1. PICK target \in Targets, initial \in Initials, current \in BOOLEAN,
              date \in TargetDates(today) :
            goal' = [target |-> target, initial |-> initial, base |-> work[w].base,
                     archived |-> FALSE, date |-> date,
                     start |-> Month(today, DaysPerMonth) + IF current THEN 0 ELSE 1]
      BY <1>5 DEF WriteGoal
    <2>2. /\ date \in 0 .. MaxToday + MaxTargetMonths * DaysPerMonth
          /\ Month(today, DaysPerMonth) \in Nat
      BY TargetDatesTyped, MonthTyped DEF TypeOK
    <2>3. goal' \in Goal /\ goal'.base = base
      BY <1>2, <2>1, <2>2 DEF Goal
    <2>4. UNCHANGED <<txs, budgets>>
      BY <1>5 DEF WriteGoal
    <2>5. TypeOK'
      BY <1>1, <1>2, <2>3, <2>4 DEF TypeOK
    <2>6. OneBaseCurrency'
      BY <1>1, <2>3, <2>4 DEF OneBaseCurrency
    <2>. QED  BY <1>2, <2>5, <2>6
  <1>. QED  BY <1>3, <1>4, <1>5

(* The settings: no writer is open, and there are no rows if the currency  *)
(* changes.                                                                *)
LEMMA KeepsSettings ==
    ASSUME Inv, NEW w \in Workers, WriteSettings(w)
    PROVE  Inv'
  <1>. USE DEF Inv
  <1>1. /\ work[w].op = "settings" /\ Done(w)
        /\ base' \in Currencies /\ (work[w].locked => base' = base)
        /\ today' \in 0 .. MaxToday
        /\ UNCHANGED <<members, txs, budgets, goal, operations, requests>>
    <2>1. today' \in {today, today - 1} \cap Nat /\ today \in 0 .. MaxToday
      BY DEF WriteSettings, TypeOK
    <2>2. today' \in 0 .. MaxToday
      BY <2>1, WorkspaceAssumption
    <2>. QED  BY <2>2 DEF WriteSettings, rows
  <1>2. AllCalm
    BY <1>1, DoneIsCalm
  <1>3. work' \in [Workers -> Transaction \cup {Idle}]
    BY <1>2, CalmKeeps
  <1>4. base # Gone /\ base' # Gone
    BY <1>1, WorkspaceAssumption DEF Attended, MayOwn, Holding
  <1>5. \A v \in Workers :
          /\ work'[v].op \notin CurrencyOps /\ work'[v].op # "settings"
          /\ work'[v].op = "deleteAccount" => work'[v] = work[v]
    <2>1. work'[w] = Idle /\ \A v \in Workers \ {w} : work'[v] = work[v]
      BY <1>1 DEF Done, TypeOK
    <2>2. \A v \in Workers \ {w} : work[v].op \notin CurrencyOps /\ work[v].op # "settings"
      BY <1>1 DEF Protected
    <2>. QED  BY <2>1, <2>2 DEF Idle, CurrencyOps
  <1>6. TypeOK'
    BY <1>1, <1>3 DEF TypeOK
  <1>7. Protected'
    BY <1>5 DEF Protected
  <1>8. OneBaseCurrency'
    BY <1>1 DEF OneBaseCurrency, Protected, BaseCurrencyLocked
  <1>9. Attended'
    BY <1>1, <1>4, <1>5 DEF Attended
  <1>10. OwnerRemains'
    BY <1>1, <1>4 DEF OwnerRemains, InWorkspace
  <1>. QED  BY <1>6, <1>7, <1>8, <1>9, <1>10

(* Steps that take no amount in and leave the currency and the members.    *)
LEMMA CalmInv ==
    ASSUME Inv, AllCalm, TypeOK', base # Gone, UNCHANGED <<members, base>>,
           BaseCurrencyLocked' => BaseCurrencyLocked, OneBaseCurrency'
    PROVE  Inv'
  BY CalmKeeps, OwnerKept DEF Inv

(* Requests of one step: they take rows away or leave their currency.      *)
LEMMA KeepsDelete ==
    ASSUME Inv,
           \/ \E t \in TxIds : DeleteTransaction(t)
           \/ \E c \in Categories : DeleteBudget(c)
           \/ SetArchived \/ DeleteGoal
    PROVE  Inv'
  <1>. USE DEF Inv
  <1>1. /\ Once
        /\ UNCHANGED <<members, base, today>>
    BY DEF DeleteTransaction, DeleteBudget, SetArchived, DeleteGoal
  <1>2. base # Gone /\ requests' \in 0 .. MaxRequests
    BY <1>1, WorkspaceAssumption DEF Once, OwnerRemains, TypeOK
  <1>3. ASSUME UNCHANGED work
        PROVE  AllCalm
    BY <1>3 DEF AllCalm, Calm, TypeOK
  <1>4. ASSUME NEW t \in TxIds, DeleteTransaction(t)
        PROVE  Inv'
    <2>1. /\ txs[t] # NoTx /\ txs' = [txs EXCEPT ![t].deleted = TRUE]
          /\ UNCHANGED <<budgets, goal, operations, work>>
      BY <1>4 DEF DeleteTransaction
    <2>2. txs[t] \in Tx /\ txs[t].base = base
      BY <2>1 DEF TypeOK, OneBaseCurrency
    <2>3. /\ txs' \in [TxIds -> Tx \cup {NoTx}] /\ txs'[t].base = base
          /\ \A s \in TxIds \ {t} : txs'[s] = txs[s]
      BY <2>1, <2>2 DEF TypeOK, Tx
    <2>4. TypeOK'
      BY <1>1, <1>2, <2>1, <2>3 DEF TypeOK
    <2>5. OneBaseCurrency' /\ (BaseCurrencyLocked' => BaseCurrencyLocked)
      BY <1>1, <2>1, <2>3 DEF OneBaseCurrency, BaseCurrencyLocked
    <2>. QED  BY <1>1, <1>2, <1>3, <2>1, <2>4, <2>5, CalmInv
  <1>5. ASSUME NEW c \in Categories, DeleteBudget(c)
        PROVE  Inv'
    <2>1. /\ budgets' = [budgets EXCEPT ![c] = NoBudget]
          /\ UNCHANGED <<txs, goal, operations, work>>
      BY <1>5 DEF DeleteBudget
    <2>2. TypeOK'
      BY <1>1, <1>2, <2>1 DEF TypeOK
    <2>3. OneBaseCurrency' /\ (BaseCurrencyLocked' => BaseCurrencyLocked)
      BY <1>1, <2>1 DEF OneBaseCurrency, BaseCurrencyLocked, TypeOK
    <2>. QED  BY <1>1, <1>2, <1>3, <2>1, <2>2, <2>3, CalmInv
  <1>6. CASE SetArchived
    <2>1. goal \in Goal /\ goal # NoGoal /\ goal.base = base
      BY <1>6 DEF SetArchived, TypeOK, OneBaseCurrency
    <2>. DEFINE archived == ~goal.archived
    <2>2. /\ goal' = [goal EXCEPT !.archived = archived]
          /\ UNCHANGED <<txs, budgets, operations>>
      BY <1>6 DEF SetArchived
    <2>3. archived \in BOOLEAN
      OBVIOUS
    <2>. HIDE DEF archived
    <2>4. goal' \in Goal /\ goal'.base = base
      BY <2>1, <2>2, <2>3 DEF Goal
    <2>5. AllCalm
      <3>1. work' = [v \in Workers |-> IF work[v].op = "updateGoal"
                                       THEN [work[v] EXCEPT !.stale = TRUE] ELSE work[v]]
        BY <1>6 DEF SetArchived
      <3>2. work' = [v \in Workers |-> work'[v]]
        BY <3>1
      <3>3. \A v \in Workers : Calm(v)
        BY <3>1 DEF Calm, BalanceOps
      <3>. QED  BY <3>2, <3>3 DEF AllCalm
    <2>6. TypeOK'
      BY <1>1, <1>2, <2>2, <2>4, <2>5, CalmKeeps DEF TypeOK
    <2>7. OneBaseCurrency' /\ (BaseCurrencyLocked' => BaseCurrencyLocked)
      BY <1>1, <2>1, <2>2, <2>4 DEF OneBaseCurrency, BaseCurrencyLocked
    <2>. QED  BY <1>1, <1>2, <2>5, <2>6, <2>7, CalmInv
  <1>7. CASE DeleteGoal
    <2>1. /\ goal' = NoGoal /\ operations' \in [OpIds -> Int]
          /\ UNCHANGED <<txs, budgets>>
      BY <1>7 DEF DeleteGoal
    <2>2. AllCalm
      BY <1>7 DEF DeleteGoal, AllCalm, Calm
    <2>3. TypeOK'
      BY <1>1, <1>2, <2>1, <2>2, CalmKeeps DEF TypeOK
    <2>4. OneBaseCurrency' /\ (BaseCurrencyLocked' => BaseCurrencyLocked)
      BY <1>1, <2>1 DEF OneBaseCurrency, BaseCurrencyLocked
    <2>. QED  BY <1>1, <1>2, <2>2, <2>3, <2>4, CalmInv
  <1>. QED  BY <1>4, <1>5, <1>6, <1>7

(* Writers of the balance of the goal.                                     *)
LEMMA KeepsBalance ==
    ASSUME Inv, NEW w \in Workers, UpdateGoal(w) \/ WriteOperation(w)
    PROVE  Inv'
  <1>. USE DEF Inv
  <1>1. /\ work[w].op \in BalanceOps /\ goal # NoGoal /\ Commit(w, BalanceOps)
        /\ UNCHANGED <<members, base, txs, budgets, today, requests>>
    BY DEF UpdateGoal, WriteOperation, BalanceOps
  <1>2. AllCalm
    BY <1>1, CommitIsCalm
  <1>3. base # Gone
    BY <1>1 DEF OwnerRemains, rows
  <1>4. goal \in Goal /\ goal.base = base
    BY <1>1 DEF TypeOK, OneBaseCurrency
  <1>5. /\ goal' \in Goal /\ goal'.base = base
        /\ operations' \in [OpIds -> Int]
    <2>1. CASE UpdateGoal(w)
      <3>1. PICK target \in Targets, initial \in Initials,
                date \in {work[w].goal.date} \cup TargetDates(work[w].seen) :
              goal' = [goal EXCEPT !.target = target, !.initial = initial, !.date = date]
        BY <2>1 DEF UpdateGoal
      <3>2. date \in 0 .. MaxToday + MaxTargetMonths * DaysPerMonth
        BY <1>1, WorkTyped, TargetDatesTyped DEF Goal
      <3>3. goal' \in Goal /\ goal'.base = goal.base
        BY <1>4, <3>1, <3>2 DEF Goal
      <3>. QED  BY <1>4, <2>1, <3>3 DEF UpdateGoal, TypeOK
    <2>2. CASE WriteOperation(w)
      <3>1. PICK i \in OpIds, deposit \in Deposits \cup {-d : d \in Deposits} \cup {0} :
              operations' = [operations EXCEPT ![i] = deposit]
        BY <2>2 DEF WriteOperation
      <3>2. deposit \in Int
        BY WorkspaceAssumption
      <3>. QED  BY <1>4, <2>2, <3>1, <3>2 DEF WriteOperation, TypeOK
    <2>. QED  BY <2>1, <2>2
  <1>6. TypeOK'
    BY <1>1, <1>2, <1>5, CalmKeeps DEF TypeOK
  <1>7. OneBaseCurrency' /\ (BaseCurrencyLocked' => BaseCurrencyLocked)
    BY <1>1, <1>5 DEF OneBaseCurrency, BaseCurrencyLocked
  <1>. QED  BY <1>1, <1>2, <1>3, <1>6, <1>7, CalmInv

(* A deletion that may still commit saw the members there are, so what it  *)
(* decides about the last member and the owner is true of them.            *)
LEMMA KeepsLeave ==
    ASSUME Inv, NEW w \in Workers, DeleteWorkspace(w) \/ LeaveWorkspace(w)
    PROVE  Inv'
  <1>. USE DEF Inv
  <1>. DEFINE user == work[w].user
  <1>1. /\ work[w].op = "deleteAccount" /\ ~work[w].stale
        /\ user \in Users
        /\ work[w].members = members
        /\ UNCHANGED <<today, requests>>
    BY WorkTyped DEF DeleteWorkspace, LeaveWorkspace, Current, Attended
  <1>2. members \in [Users -> Roles \cup {"none"}]
    BY DEF TypeOK
  <1>3. PICK ops \in SUBSET (BalanceOps \cup {"deleteAccount"}) :
          "deleteAccount" \in ops /\ Commit(w, ops)
    BY DEF DeleteWorkspace, LeaveWorkspace
  <1>4. AllCalm
    BY <1>3, CommitIsCalm
  <1>5. work' \in [Workers -> Transaction \cup {Idle}]
    BY <1>4, CalmKeeps
  <1>6. \A v \in Workers :
          /\ work'[v].op \in CurrencyOps \cup {"settings"} => work'[v] = work[v]
          /\ work'[v].op = "deleteAccount" => work'[v].stale
    <2>1. ASSUME NEW v \in Workers, work'[v].op = "deleteAccount"
          PROVE  work'[v].stale
      <3>1. v # w
        BY <1>3, <2>1 DEF Commit, Idle
      <3>2. CASE work[v].op \in ops
        <4>1. work'[v] = [work[v] EXCEPT !.stale = TRUE]
          BY <1>3, <3>1, <3>2 DEF Commit
        <4>2. work[v].op = "deleteAccount" \/ work[v].op \in BalanceOps
          BY <3>2
        <4>3. CASE work[v].op = "deleteAccount"
          <5>1. work[v] \in [op : {"deleteAccount"}, user : Users,
                             members : [Users -> Roles \cup {"none"}], stale : BOOLEAN]
            BY <4>3, WorkTyped
          <5>. QED  BY <4>1, <5>1
        <4>4. CASE work[v].op \in BalanceOps
          <5>1. work[v] \in [op : BalanceOps, goal : Goal, operations : [OpIds -> Int],
                             seen : 0 .. MaxToday, stale : BOOLEAN, attempt : 1 .. RetryLimit]
            BY <4>4, WorkTyped
          <5>. QED  BY <4>1, <5>1
        <4>. QED  BY <4>2, <4>3, <4>4
      <3>3. CASE work[v].op \notin ops
        BY <1>3, <2>1, <3>1, <3>3 DEF Commit
      <3>. QED  BY <3>2, <3>3
    <2>. QED  BY <1>4, <2>1, CalmFacts DEF AllCalm
  <1>7. CASE DeleteWorkspace(w)
    <2>1. /\ members' = [members EXCEPT ![user] = "none"] /\ base' = Gone
          /\ rows' = <<[t \in TxIds |-> NoTx], [c \in Categories |-> NoBudget],
                       NoGoal, [i \in OpIds |-> 0]>>
          /\ MayOwn /\ Remaining(w) = {}
      BY <1>7 DEF DeleteWorkspace, rows
    <2>2. TypeOK'
      BY <1>1, <1>2, <1>5, <2>1 DEF TypeOK, rows
    <2>3. \A v \in Workers : work'[v].op \notin CurrencyOps \cup {"settings"}
      BY <1>6, <2>1 DEF MayOwn, Holding
    <2>4. Protected' /\ Attended'
      BY <1>6, <2>3 DEF Protected, Attended, MayOwn, Holding
    <2>5. OneBaseCurrency'
      BY <2>1 DEF OneBaseCurrency, rows
    <2>6. InWorkspace' = {}
      BY <1>1, <1>2, <2>1 DEF InWorkspace, Remaining
    <2>7. OwnerRemains'
      BY <2>1, <2>6 DEF OwnerRemains
    <2>. QED  BY <2>2, <2>4, <2>5, <2>7
  <1>8. CASE LeaveWorkspace(w)
    <2>1. /\ Remaining(w) # {}
          /\ UNCHANGED <<base, txs, budgets, goal, operations>>
      BY <1>8 DEF LeaveWorkspace, rows
    <2>2. PICK other \in Users : other # user /\ members[other] # "none"
      BY <1>1, <2>1 DEF Remaining
    <2>3. base # Gone
      BY <2>2 DEF OwnerRemains, InWorkspace
    <2>. DEFINE left == [members EXCEPT ![user] = "none"]
    <2>4. /\ members' \in [Users -> Roles \cup {"none"}]
          /\ members'[other] # "none"
          /\ \E u \in Users : members'[u] = "owner"
      <3>1. CASE members[user] = "owner" /\ WithRole(w, "owner") = {}
        <4>1. PICK u \in Remaining(w) : members' = [left EXCEPT ![u] = "owner"]
          BY <1>1, <1>8, <3>1 DEF LeaveWorkspace, WithRole
        <4>. QED  BY <1>1, <1>2, <2>2, <4>1 DEF Remaining, Roles
      <3>2. CASE ~(members[user] = "owner" /\ WithRole(w, "owner") = {})
        <4>1. members' = left
          BY <1>1, <1>8, <3>2 DEF LeaveWorkspace
        <4>2. PICK u \in Users \ {user} : members[u] = "owner"
          <5>1. CASE members[user] = "owner"
            BY <1>1, <3>2, <5>1 DEF WithRole, Remaining
          <5>2. CASE members[user] # "owner"
            BY <2>2, <5>2 DEF OwnerRemains, InWorkspace
          <5>. QED  BY <5>1, <5>2
        <4>. QED  BY <1>1, <1>2, <2>2, <4>1, <4>2 DEF Roles
      <3>. QED  BY <3>1, <3>2
    <2>5. TypeOK'
      BY <1>1, <1>5, <2>1, <2>4 DEF TypeOK
    <2>6. OneBaseCurrency' /\ (BaseCurrencyLocked' => BaseCurrencyLocked)
      BY <2>1 DEF OneBaseCurrency, BaseCurrencyLocked
    <2>7. Protected'
      BY <1>4, <2>1, <2>6, CalmKeeps
    <2>8. Attended'
      BY <1>6, <2>1, <2>3 DEF Attended
    <2>9. OwnerRemains'
      BY <2>1, <2>2, <2>3, <2>4 DEF OwnerRemains, InWorkspace
    <2>. QED  BY <2>5, <2>6, <2>7, <2>8, <2>9
  <1>. QED  BY <1>7, <1>8

(* Rolling back, the date, and stuttering.                                 *)
LEMMA KeepsOther ==
    ASSUME Inv, Tick \/ UNCHANGED vars \/ \E w \in Workers : Abort(w)
    PROVE  Inv'
  <1>. USE DEF Inv
  <1>1. UNCHANGED <<members, base, txs, budgets, goal, operations, requests>>
    BY DEF Tick, Abort, vars, rows
  <1>2. today' \in 0 .. MaxToday
    BY WorkspaceAssumption DEF Tick, Abort, vars, TypeOK
  <1>3. AllCalm
    <2>1. CASE UNCHANGED work
      BY <2>1 DEF TypeOK, AllCalm, Calm
    <2>2. CASE \E w \in Workers : Abort(w)
      BY <2>2, DoneIsCalm DEF Abort
    <2>. QED  BY <2>1, <2>2 DEF Tick, vars
  <1>4. TypeOK'
    BY <1>1, <1>2, <1>3, CalmKeeps DEF TypeOK
  <1>5. Protected' /\ Attended'
    BY <1>1, <1>3, CalmKeeps DEF BaseCurrencyLocked
  <1>6. OneBaseCurrency' /\ OwnerRemains'
    BY <1>1 DEF OneBaseCurrency, OwnerRemains, InWorkspace, rows
  <1>. QED  BY <1>4, <1>5, <1>6

-------------------------------------------------------------------------------
(* It holds at the start.                                                  *)
LEMMA InitInv == Init => Inv
  <1>. SUFFICES ASSUME Init PROVE Inv
    OBVIOUS
  <1>1. TypeOK
    BY WorkspaceAssumption DEF Init, TypeOK, Roles
  <1>2. /\ \E u \in Users : members[u] = "owner"
        /\ base # Gone
        /\ \A w \in Workers : work[w].op = "idle"
    BY WorkspaceAssumption DEF Init, Idle
  <1>3. Protected /\ Attended
    BY <1>2 DEF Protected, Attended, CurrencyOps
  <1>4. OneBaseCurrency
    BY DEF Init, OneBaseCurrency
  <1>5. OwnerRemains
    BY <1>2 DEF OwnerRemains, InWorkspace
  <1>. QED  BY <1>1, <1>3, <1>4, <1>5 DEF Inv

(* The strengthened invariant holds in every reachable state.              *)
LEMMA Invariance == Spec => []Inv
  <1>1. Inv /\ [Next]_vars => Inv'
    <2>. SUFFICES ASSUME Inv, [Next]_vars PROVE Inv'
      OBVIOUS
    <2>. QED  BY KeepsBegin, KeepsWrite, KeepsSettings, KeepsDelete, KeepsBalance, KeepsLeave,
                 KeepsOther DEF Next
  <1>. QED  BY InitInv, <1>1, PTL DEF Spec

(* Every reachable state of a workspace is well typed and no transaction   *)
(* is attempted more often than the limit, for any number of transactions, *)
(* members, currencies and rows.                                           *)
THEOREM TypeCorrect == Spec => []TypeOK
  <1>1. Inv => TypeOK
    BY DEF Inv
  <1>. QED  BY <1>1, Invariance, PTL

(* Every amount of a workspace is in its base currency: the shared and the *)
(* exclusive lock of the workspace leave no gap between a writer and a     *)
(* change of the currency (lockWorkspaceCurrency, updateWorkspaceSettings).*)
THEOREM CurrencyIsOne == Spec => []OneBaseCurrency
  <1>1. Inv => OneBaseCurrency
    BY DEF Inv
  <1>. QED  BY <1>1, Invariance, PTL

(* A workspace has an owner for as long as it has members and goes with    *)
(* the last one, however many members leave at once (deleteUserAccount).   *)
THEOREM AnOwnerRemains == Spec => []OwnerRemains
  <1>1. Inv => OwnerRemains
    BY DEF Inv
  <1>. QED  BY <1>1, Invariance, PTL
-------------------------------------------------------------------------------
(* The balance.  A transaction that may still commit has the goal and the  *)
(* operations as they are, so what it checked is true of what it leaves;   *)
(* without a goal there are no operations that the next one would inherit. *)
Sees(w) == work[w].op \in BalanceOps /\ ~work[w].stale

SeesWell(w) ==
    Sees(w) => /\ goal # NoGoal
               /\ work[w].operations = operations
               /\ work[w].goal.initial = goal.initial

Balanced ==
    /\ BalanceNeverNegative
    /\ goal = NoGoal => operations = [i \in OpIds |-> 0]
    /\ \A w \in Workers : SeesWell(w)

(* The balance as a sum over all operations.                               *)
LEMMA BalanceFacts ==
    ASSUME NEW initial \in Nat, NEW ops \in [OpIds -> Int]
    PROVE  /\ Balance(initial, [i \in OpIds |-> 0]) >= 0
           /\ \A i \in OpIds, deposit \in Int :
                deposit >= ops[i] /\ Balance(initial, ops) >= 0
                  => Balance(initial, [ops EXCEPT ![i] = deposit]) >= 0
  <1>1. \A f : Balance(initial, f) = initial + SumOf(f, OpIds)
    BY DEF Balance, SumOver, SumOf
  <1>2. IsFiniteSet(OpIds)
    BY WorkspaceAssumption
  <1>3. ASSUME NEW i \in OpIds, NEW deposit \in Int,
               deposit >= ops[i], Balance(initial, ops) >= 0
        PROVE  Balance(initial, [ops EXCEPT ![i] = deposit]) >= 0
    <2>. DEFINE new == [ops EXCEPT ![i] = deposit]
    <2>1. new \in [OpIds -> Int] /\ \A x \in OpIds : ops[x] <= new[x]
      BY <1>3
    <2>. HIDE DEF new
    <2>2. /\ SumOf(ops, OpIds) \in Int /\ SumOf(new, OpIds) \in Int
          /\ SumOf(ops, OpIds) <= SumOf(new, OpIds)
      BY <1>2, <2>1, SumGrows
    <2>3. Balance(initial, new) >= 0
      BY <1>1, <1>3, <2>2
    <2>. QED  BY <2>3 DEF new
  <1>4. Balance(initial, [i \in OpIds |-> 0]) >= 0
    BY <1>1, <1>2, SumOfZeros
  <1>. QED  BY <1>3, <1>4

(* The property in terms of that sum, before and after a step.             *)
Positive == goal # NoGoal => goal.initial + SumOf(operations, OpIds) >= 0

LEMMA BalancePositive == /\ BalanceNeverNegative <=> Positive
                         /\ BalanceNeverNegative' <=> Positive'
  <1>1. BalanceNeverNegative <=> Positive
    BY DEF BalanceNeverNegative, Balance, SumOver, Positive, SumOf
  <1>. QED  BY <1>1, PTL

(* A worker that stayed calm sees what it saw.                             *)
LEMMA CalmSees ==
    ASSUME TypeOK, NEW v \in Workers, Calm(v), Sees(v)'
    PROVE  work'[v] = work[v] /\ Sees(v)
  <1>1. work'[v].op \in BalanceOps /\ ~work'[v].stale
    BY DEF Sees
  <1>2. work'[v] # Idle
    BY <1>1 DEF Idle, BalanceOps
  <1>3. CASE work[v].op \in BalanceOps /\ work'[v] = [work[v] EXCEPT !.stale = TRUE]
    BY <1>1, <1>3, WorkTyped
  <1>4. CASE work[v].op = "deleteAccount" /\ work'[v] = [work[v] EXCEPT !.stale = TRUE]
    BY <1>1, <1>4, WorkTyped
  <1>. QED  BY <1>1, <1>2, <1>3, <1>4 DEF Calm, Sees

(* Steps that end workers and leave the goal alone.                        *)
LEMMA CalmBalanced ==
    ASSUME TypeOK, Balanced, AllCalm, UNCHANGED <<goal, operations>>
    PROVE  Balanced'
  <1>1. \A v \in Workers : SeesWell(v)'
    BY CalmSees DEF Balanced, SeesWell, AllCalm
  <1>2. BalanceNeverNegative'
    BY BalancePositive DEF Balanced, Positive
  <1>3. (goal = NoGoal => operations = [i \in OpIds |-> 0])'
    BY DEF Balanced
  <1>. QED  BY <1>1, <1>2, <1>3 DEF Balanced

(* Steps that change the goal and leave nobody who may still commit.       *)
LEMMA BlindBalanced ==
    ASSUME \A v \in Workers : ~Sees(v)', goal' = NoGoal => operations' = [i \in OpIds |-> 0],
           goal' # NoGoal => Balance(goal'.initial, operations') >= 0
    PROVE  Balanced'
  <1>1. \A v \in Workers : SeesWell(v)'
    BY DEF SeesWell
  <1>2. BalanceNeverNegative'
    <2>1. \A x, f : Balance(x, f) = x + SumOf(f, OpIds)
      BY DEF Balance, SumOver, SumOf
    <2>. QED  BY <2>1, BalancePositive DEF Positive
  <1>3. (goal = NoGoal => operations = [i \in OpIds |-> 0])'
    OBVIOUS
  <1>. QED  BY <1>1, <1>2, <1>3 DEF Balanced

(* A commit on the balance leaves nobody who may still commit.             *)
LEMMA CommitBlinds ==
    ASSUME TypeOK, NEW w \in Workers,
           NEW ops \in SUBSET (BalanceOps \cup {"deleteAccount"}),
           BalanceOps \subseteq ops, Commit(w, ops), NEW v \in Workers
    PROVE  ~Sees(v)'
  <1>. SUFFICES ASSUME Sees(v)' PROVE FALSE
    OBVIOUS
  <1>1. work'[v] = work[v] /\ Sees(v)
    BY CommitIsCalm, CalmSees DEF AllCalm
  <1>2. work[v].op \in BalanceOps
    BY <1>1 DEF Sees
  <1>3. work[v] \in [op : BalanceOps, goal : Goal, operations : [OpIds -> Int],
                     seen : 0 .. MaxToday, stale : BOOLEAN, attempt : 1 .. RetryLimit]
    BY <1>2, WorkTyped
  <1>4. work'[v] = Idle \/ work'[v] = [work[v] EXCEPT !.stale = TRUE]
    BY <1>2 DEF Commit
  <1>5. Idle.op \notin BalanceOps
    BY DEF Idle, BalanceOps
  <1>. QED  BY <1>1, <1>2, <1>3, <1>4, <1>5 DEF Sees

(* A step that opens a transaction.                                        *)
LEMMA OpenBalanced ==
    ASSUME TypeOK, Balanced, NEW w \in Workers, NEW x, work' = [work EXCEPT ![w] = x],
           UNCHANGED <<goal, operations>>,
           x.op \in BalanceOps =>
               goal # NoGoal /\ x.operations = operations /\ x.goal = goal
    PROVE  Balanced'
  <1>1. ASSUME NEW v \in Workers PROVE SeesWell(v)'
    <2>1. CASE v = w
      <3>1. work'[v] = x
        BY <2>1 DEF TypeOK
      <3>. QED  BY <3>1 DEF SeesWell, Sees
    <2>2. CASE v # w
      <3>1. work'[v] = work[v]
        BY <2>2 DEF TypeOK
      <3>. QED  BY <3>1 DEF Balanced, SeesWell, Sees
    <2>. QED  BY <2>1, <2>2
  <1>2. BalanceNeverNegative'
    BY BalancePositive DEF Balanced, Positive
  <1>3. (goal = NoGoal => operations = [i \in OpIds |-> 0])'
    BY DEF Balanced
  <1>. QED  BY <1>1, <1>2, <1>3 DEF Balanced

(* A transaction begins, or begins again on what it finds now.             *)
LEMMA BeginBalanced ==
    ASSUME Inv, Balanced, NEW w \in Workers,
           BeginWrite(w) \/ BeginSettings(w) \/ BeginBalance(w) \/ BeginDeleteAccount(w) \/ Retry(w)
    PROVE  Balanced'
  <1>1. UNCHANGED <<goal, operations>> /\ TypeOK
    BY DEF Inv, BeginWrite, BeginSettings, BeginBalance, BeginDeleteAccount, Retry, rows
  <1>2. ASSUME NEW x, Open(w, x), x.op \notin BalanceOps
        PROVE  Balanced'
    BY <1>1, <1>2, OpenBalanced DEF Open
  <1>3. ASSUME NEW op, NEW seen, NEW n, goal # NoGoal,
               work' = [work EXCEPT ![w] = Snapshot(op, seen, n)]
        PROVE  Balanced'
    <2>. DEFINE x == Snapshot(op, seen, n)
    <2>1. x.operations = operations /\ x.goal = goal
      BY DEF Snapshot
    <2>2. work' = [work EXCEPT ![w] = x]
      BY <1>3
    <2>. HIDE DEF x
    <2>. QED  BY <1>1, <1>3, <2>1, <2>2, OpenBalanced
  <1>4. CASE BeginWrite(w)
    <2>1. PICK op \in CurrencyOps : Open(w, [op |-> op, base |-> base])
      BY <1>4 DEF BeginWrite
    <2>2. [op |-> op, base |-> base].op \notin BalanceOps
      BY DEF CurrencyOps, BalanceOps
    <2>. QED  BY <1>2, <2>1, <2>2
  <1>5. CASE BeginSettings(w)
    <2>. DEFINE x == [op |-> "settings", locked |-> BaseCurrencyLocked]
    <2>1. Open(w, x) /\ x.op \notin BalanceOps
      BY <1>5 DEF BeginSettings, BalanceOps
    <2>. QED  BY <1>2, <2>1
  <1>6. CASE BeginDeleteAccount(w)
    <2>1. PICK u \in InWorkspace :
            Open(w, [op |-> "deleteAccount", user |-> u, members |-> members, stale |-> FALSE])
      BY <1>6 DEF BeginDeleteAccount
    <2>. DEFINE x == [op |-> "deleteAccount", user |-> u, members |-> members, stale |-> FALSE]
    <2>2. x.op \notin BalanceOps
      BY DEF BalanceOps
    <2>. QED  BY <1>2, <2>1, <2>2
  <1>7. CASE BeginBalance(w)
    BY <1>3, <1>7 DEF BeginBalance, Open
  <1>8. CASE Retry(w)
    BY <1>3, <1>8 DEF Retry
  <1>. QED  BY <1>4, <1>5, <1>6, <1>7, <1>8

(* A commit on the balance: it was checked on the balance there is.        *)
LEMMA WriteBalanced ==
    ASSUME Inv, Inv', Balanced, NEW w \in Workers, UpdateGoal(w) \/ WriteOperation(w)
    PROVE  Balanced'
  <1>1. /\ work[w].op \in BalanceOps /\ goal # NoGoal /\ ~work[w].stale
        /\ Commit(w, BalanceOps)
    BY DEF UpdateGoal, WriteOperation, BalanceOps, Current
  <1>2. \A v \in Workers : ~Sees(v)'
    BY <1>1, CommitBlinds DEF Inv
  <1>3. work[w].operations = operations /\ work[w].goal.initial = goal.initial
    BY <1>1 DEF Balanced, SeesWell, Sees
  <1>4. /\ goal \in Goal /\ operations \in [OpIds -> Int] /\ goal.initial \in Nat
        /\ Balance(goal.initial, operations) >= 0
    <2>1. goal \in Goal /\ operations \in [OpIds -> Int]
      BY <1>1 DEF Inv, TypeOK
    <2>. QED  BY <1>1, <2>1, WorkspaceAssumption DEF Goal, Balanced, BalanceNeverNegative
  <1>5. CASE UpdateGoal(w)
    <2>1. PICK target \in Targets, initial \in Initials,
              date \in {work[w].goal.date} \cup TargetDates(work[w].seen) :
            /\ Balance(initial, operations) >= 0
            /\ goal' = [goal EXCEPT !.target = target, !.initial = initial, !.date = date]
            /\ operations' = operations
      BY <1>3, <1>5 DEF UpdateGoal
    <2>2. goal'.initial = initial
      BY <1>4, <2>1 DEF Goal
    <2>3. goal' # NoGoal
      <3>1. work[w].goal \in Goal /\ work[w].seen \in 0 .. MaxToday
        BY <1>1, WorkTyped DEF Inv
      <3>2. date \in 0 .. MaxToday + MaxTargetMonths * DaysPerMonth
        BY <3>1, TargetDatesTyped DEF Goal
      <3>3. goal' \in Goal
        BY <1>4, <2>1, <3>2 DEF Goal
      <3>. QED  BY <3>3, AbsenceAssumption
    <2>4. Balance(goal'.initial, operations') >= 0
      BY <2>1, <2>2
    <2>. QED  BY <1>2, <2>3, <2>4, BlindBalanced
  <1>6. CASE WriteOperation(w)
    <2>1. PICK i \in OpIds, deposit \in Deposits \cup {-d : d \in Deposits} \cup {0} :
            /\ (work[w].op = "createOperation") = (operations[i] = 0)
            /\ \/ work[w].op = "createOperation" /\ deposit > 0
               \/ Balance(goal.initial, [operations EXCEPT ![i] = deposit]) >= 0
            /\ operations' = [operations EXCEPT ![i] = deposit]
            /\ goal' = goal
      BY <1>3, <1>6 DEF WriteOperation
    <2>2. deposit \in Int
      BY WorkspaceAssumption
    <2>3. CASE Balance(goal.initial, [operations EXCEPT ![i] = deposit]) >= 0
      <3>1. Balance(goal'.initial, operations') >= 0
        BY <2>1, <2>3
      <3>. QED  BY <1>1, <1>2, <2>1, <3>1, BlindBalanced
    <2>4. CASE work[w].op = "createOperation" /\ deposit > 0
      <3>1. deposit >= operations[i]
        BY <2>1, <2>2, <2>4
      <3>2. Balance(goal.initial, [operations EXCEPT ![i] = deposit]) >= 0
        BY <1>4, <2>2, <3>1, BalanceFacts
      <3>3. Balance(goal'.initial, operations') >= 0
        BY <2>1, <3>2
      <3>. QED  BY <1>1, <1>2, <2>1, <3>3, BlindBalanced
    <2>. QED  BY <2>1, <2>3, <2>4
  <1>. QED  BY <1>5, <1>6

(* The goal comes, goes and is archived.                                   *)
LEMMA GoalBalanced ==
    ASSUME Inv, Inv', Balanced,
           \/ SetArchived \/ DeleteGoal
           \/ \E w \in Workers : WriteGoal(w) \/ DeleteWorkspace(w)
    PROVE  Balanced'
  <1>1. CASE \E w \in Workers : WriteGoal(w)
    <2>1. PICK w \in Workers : WriteGoal(w)
      BY <1>1
    <2>2. goal = NoGoal /\ Done(w) /\ UNCHANGED operations
      BY <2>1 DEF WriteGoal
    <2>3. \A v \in Workers : ~Sees(v)'
      BY <2>2, DoneIsCalm, CalmSees DEF Inv, AllCalm, Balanced, SeesWell
    <2>4. PICK initial \in Initials : goal'.initial = initial
      BY <2>1 DEF WriteGoal
    <2>5. goal' # NoGoal
      <3>1. PICK target \in Targets, initial2 \in Initials, current \in BOOLEAN,
                 date \in TargetDates(today) :
              goal' = [target |-> target, initial |-> initial2, base |-> work[w].base,
                       archived |-> FALSE, date |-> date,
                       start |-> Month(today, DaysPerMonth) + IF current THEN 0 ELSE 1]
        BY <2>1 DEF WriteGoal
      <3>2. /\ date \in 0 .. MaxToday + MaxTargetMonths * DaysPerMonth
            /\ Month(today, DaysPerMonth) \in Nat
        BY TargetDatesTyped, MonthTyped DEF Inv, TypeOK
      <3>3. work[w].base \in Currencies
        BY <2>1, WriterKeeps DEF WriteGoal, CurrencyOps
      <3>4. goal' \in Goal
        BY <3>1, <3>2, <3>3 DEF Goal
      <3>. QED  BY <3>4, AbsenceAssumption
    <2>6. operations' = [i \in OpIds |-> 0]
      BY <2>2 DEF Balanced
    <2>7. Balance(goal'.initial, operations') >= 0
      <3>1. initial \in Nat /\ [i \in OpIds |-> 0] \in [OpIds -> Int]
        BY WorkspaceAssumption
      <3>2. Balance(initial, [i \in OpIds |-> 0]) >= 0
        BY <3>1, BalanceFacts
      <3>. QED  BY <2>4, <2>6, <3>2
    <2>. QED  BY <2>3, <2>5, <2>7, BlindBalanced
  <1>2. CASE SetArchived
    <2>1. /\ goal # NoGoal /\ UNCHANGED operations
          /\ work' = [v \in Workers |-> IF work[v].op = "updateGoal"
                                         THEN [work[v] EXCEPT !.stale = TRUE] ELSE work[v]]
      BY <1>2 DEF SetArchived
    <2>2. goal \in Goal
      BY <2>1 DEF Inv, TypeOK
    <2>3. goal'.initial = goal.initial /\ goal' # NoGoal
      <3>. DEFINE archived == ~goal.archived
      <3>1. goal' = [goal EXCEPT !.archived = archived]
        BY <1>2 DEF SetArchived
      <3>2. archived \in BOOLEAN
        OBVIOUS
      <3>. HIDE DEF archived
      <3>3. goal' \in Goal /\ goal'.initial = goal.initial
        BY <2>2, <3>1, <3>2 DEF Goal
      <3>. QED  BY <3>3, AbsenceAssumption
    <2>4. ASSUME NEW v \in Workers PROVE SeesWell(v)'
      <3>1. Calm(v)
        BY <2>1 DEF Calm, BalanceOps
      <3>2. Sees(v)' => work'[v] = work[v] /\ Sees(v)
        BY <3>1, CalmSees DEF Inv
      <3>. QED  BY <2>1, <2>3, <3>2 DEF Balanced, SeesWell
    <2>5. BalanceNeverNegative'
      BY <2>1, <2>3, BalancePositive DEF Balanced, Positive
    <2>. QED  BY <2>3, <2>4, <2>5 DEF Balanced
  <1>3. CASE DeleteGoal
    <2>1. /\ goal' = NoGoal /\ operations' = [i \in OpIds |-> 0]
          /\ work' = [v \in Workers |-> IF work[v].op \in BalanceOps
                                         THEN [work[v] EXCEPT !.stale = TRUE] ELSE work[v]]
      BY <1>3 DEF DeleteGoal
    <2>2. ASSUME NEW v \in Workers, Sees(v)' PROVE FALSE
      <3>1. work'[v] = work[v] /\ Sees(v)
        BY <2>1, <2>2, CalmSees DEF Inv, Calm
      <3>2. work[v].op \in BalanceOps /\ work'[v] = [work[v] EXCEPT !.stale = TRUE]
        BY <2>1, <3>1 DEF Sees
      <3>. QED  BY <3>1, <3>2, WorkTyped DEF Inv, Sees
    <2>. QED  BY <2>1, <2>2, BlindBalanced
  <1>4. CASE \E w \in Workers : DeleteWorkspace(w)
    <2>1. PICK w \in Workers : DeleteWorkspace(w)
      BY <1>4
    <2>2. /\ goal' = NoGoal /\ operations' = [i \in OpIds |-> 0]
          /\ Commit(w, BalanceOps \cup {"deleteAccount"})
      BY <2>1 DEF DeleteWorkspace
    <2>3. \A v \in Workers : ~Sees(v)'
      BY <2>2, CommitBlinds DEF Inv
    <2>. QED  BY <2>2, <2>3, BlindBalanced
  <1>. QED  BY <1>1, <1>2, <1>3, <1>4

(* The steps that have nothing to do with the goal.                        *)
LEMMA OtherBalanced ==
    ASSUME Inv, Balanced,
           \/ \E w \in Workers :
                \/ CreateTransaction(w) \/ UpdateTransaction(w)
                \/ CreateBudget(w) \/ UpdateBudget(w)
                \/ WriteSettings(w) \/ LeaveWorkspace(w) \/ Abort(w)
           \/ \E t \in TxIds : DeleteTransaction(t)
           \/ \E c \in Categories : DeleteBudget(c)
           \/ Tick \/ UNCHANGED vars
    PROVE  Balanced'
  <1>1. UNCHANGED <<goal, operations>> /\ TypeOK
    BY DEF Inv, CreateTransaction, UpdateTransaction, CreateBudget, UpdateBudget,
       WriteSettings, LeaveWorkspace, Abort, DeleteTransaction, DeleteBudget, Tick,
       vars, rows
  <1>2. \/ \E w \in Workers : Done(w) \/ Commit(w, {"deleteAccount"})
        \/ UNCHANGED work
    BY DEF CreateTransaction, UpdateTransaction, CreateBudget, UpdateBudget,
       WriteSettings, LeaveWorkspace, Abort, DeleteTransaction, DeleteBudget, Tick, vars
  <1>3. AllCalm
    <2>1. UNCHANGED work => AllCalm
      BY <1>1 DEF AllCalm, Calm, TypeOK
    <2>. QED  BY <1>1, <1>2, <2>1, DoneIsCalm, CommitIsCalm
  <1>. QED  BY <1>1, <1>3, CalmBalanced

(* Withdrawals, smaller deposits, deletions of deposits and a smaller      *)
(* initial amount that overlap never take more from a goal than it has,    *)
(* for any number of transactions and operations and any amounts           *)
(* (runSerializable, balanceCents).                                        *)
THEOREM BalanceStays == Spec => []BalanceNeverNegative
  <1>1. Init => Balanced
    <2>1. Init => \A w \in Workers : ~Sees(w)
      BY DEF Init, Idle, Sees, BalanceOps
    <2>. QED  BY <2>1 DEF Init, Balanced, SeesWell, BalanceNeverNegative
  <1>2. Inv /\ Inv' /\ Balanced /\ [Next]_vars => Balanced'
    <2>. SUFFICES ASSUME Inv, Inv', Balanced, [Next]_vars PROVE Balanced'
      OBVIOUS
    <2>. QED  BY BeginBalanced, WriteBalanced, GoalBalanced, OtherBalanced DEF Next
  <1>3. Balanced => BalanceNeverNegative
    BY DEF Balanced
  <1>. QED  BY <1>1, <1>2, <1>3, Invariance, PTL DEF Spec

-------------------------------------------------------------------------------
(* The arithmetic of the calculators.                                      *)

(* Rounded up, the instalments reach the amount and one unit less does not.*)
LEMMA CeilDivEnough ==
    ASSUME NEW a \in Nat, NEW b \in Nat \ {0}
    PROVE  /\ CeilDiv(a, b) \in Int
           /\ CeilDiv(a, b) * b >= a
           /\ a > 0 => (CeilDiv(a, b) - 1) * b < a
  <1>. DEFINE c == a + b - 1
              q == c \div b
              r == c % b
              p == q * b
  <1>1. c \in Int /\ q \in Int /\ r \in 0 .. b - 1 /\ p \in Int /\ c = p + r
    OBVIOUS
  <1>2. (q - 1) * b = p - b
    OBVIOUS
  <1>3. CeilDiv(a, b) = q
    BY DEF CeilDiv
  <1>. HIDE DEF q, r
  <1>4. p >= a /\ p - b < a
    <2>1. a + b - 1 = p + r
      BY <1>1
    <2>. HIDE DEF c, p
    <2>. QED  BY <1>1, <2>1
  <1>. QED  BY <1>1, <1>2, <1>3, <1>4

(* Rounded half up, a percentage is the nearest one in hundredths.         *)
LEMMA NearestPercentage ==
    ASSUME NEW spent \in Nat, NEW amount \in Nat \ {0}
    PROVE  LET error == 20000 * spent - 2 * PercentageBasisPoints(spent, amount) * amount
           IN  -amount <= error /\ error < amount
  <1>. DEFINE c == spent * 10000
              q == c \div amount
              r == c % amount
              p == q * amount
  <1>1. c \in Int /\ q \in Int /\ r \in 0 .. amount - 1 /\ p \in Int /\ c = p + r
    OBVIOUS
  <1>2. PercentageBasisPoints(spent, amount) = IF r * 2 >= amount THEN q + 1 ELSE q
    BY DEF PercentageBasisPoints
  <1>3. 2 * (q + 1) * amount = 2 * p + 2 * amount /\ 2 * q * amount = 2 * p
    OBVIOUS
  <1>4. 20000 * spent = 2 * c
    OBVIOUS
  <1>. HIDE DEF c, q, r, p
  <1>5. CASE r * 2 >= amount
    BY <1>1, <1>2, <1>3, <1>4, <1>5
  <1>6. CASE ~(r * 2 >= amount)
    BY <1>1, <1>2, <1>3, <1>4, <1>6
  <1>. QED  BY <1>5, <1>6

(* The months that are left to save in, as the property counts them.       *)
MonthsLeft(g, now) ==
    Cardinality({m \in Month(now, DaysPerMonth) .. Month(g.date, DaysPerMonth) : m >= g.start})

(* The calculator counts the same months by their ends.                    *)
LEMMA MonthsCounted ==
    ASSUME NEW g \in Goal, NEW now \in 0 .. MaxToday
    PROVE  /\ MonthsLeft(g, now) \in Nat
           /\ InclusiveMonthCount(Max({g.start, Month(now, DaysPerMonth)}),
                                  Month(g.date, DaysPerMonth)) = MonthsLeft(g, now)
  <1>. DEFINE from == Month(now, DaysPerMonth)
              last == Month(g.date, DaysPerMonth)
              first == IF g.start >= from THEN g.start ELSE from
  <1>1. from \in Int /\ last \in Int /\ g.start \in Int
    <2>1. now \in Int /\ g.date \in Int /\ g.start \in Int
      <3>1. MaxToday + MaxTargetMonths * DaysPerMonth \in Int
        BY WorkspaceAssumption
      <3>. QED  BY <3>1, WorkspaceAssumption DEF Goal
    <2>. QED  BY <2>1, WorkspaceAssumption DEF Month
  <1>. HIDE DEF from, last
  <1>2. first \in Int /\ Max({g.start, from}) = first
    BY <1>1, MaxOfTwo
  <1>3. {m \in from .. last : m >= g.start} = first .. last
    BY <1>1
  <1>4. Cardinality(first .. last) = IF first > last THEN 0 ELSE last - first + 1
    BY <1>1, <1>2, FS_Interval
  <1>. HIDE DEF first
  <1>5. Max({last - first + 1, 0}) = IF first > last THEN 0 ELSE last - first + 1
    <2>1. last - first + 1 \in Int
      BY <1>1, <1>2
    <2>2. Max({last - first + 1, 0}) = IF last - first + 1 >= 0 THEN last - first + 1 ELSE 0
      BY <2>1, MaxOfTwo
    <2>. QED  BY <1>1, <1>2, <2>2
  <1>6. MonthsLeft(g, now) = Cardinality(first .. last)
    BY <1>3 DEF MonthsLeft, from, last
  <1>7. InclusiveMonthCount(first, last) = Max({last - first + 1, 0})
    BY DEF InclusiveMonthCount
  <1>8. (IF first > last THEN 0 ELSE last - first + 1) \in Nat
    BY <1>1, <1>2
  <1>. QED  BY <1>2, <1>4, <1>5, <1>6, <1>7, <1>8 DEF from, last

(* What the calculator recommends.                                         *)
LEMMA Recommended ==
    ASSUME NEW g \in Goal, NEW now \in 0 .. MaxToday, NEW current \in Int
    PROVE  LET missing == g.target - current
               months == MonthsLeft(g, now)
               monthly == GoalPlan(g, current, now, DaysPerMonth).monthly
           IN  /\ missing <= 0 => monthly = 0
               /\ missing > 0 /\ (g.date < now \/ months = 0) => monthly = NoPlan
               /\ missing > 0 /\ ~(g.date < now \/ months = 0)
                    => monthly = CeilDiv(missing, months)
  <1>. DEFINE missing == g.target - current
              months == MonthsLeft(g, now)
              counted == InclusiveMonthCount(Max({g.start, Month(now, DaysPerMonth)}),
                                             Month(g.date, DaysPerMonth))
              monthly == GoalPlan(g, current, now, DaysPerMonth).monthly
              remaining == Max({g.target - current, 0})
  <1>1. monthly = IF current >= g.target THEN 0
                  ELSE IF (IF g.date < now THEN 0 ELSE counted) > 0
                       THEN CeilDiv(remaining, IF g.date < now THEN 0 ELSE counted)
                       ELSE NoPlan
    BY DEF GoalPlan
  <1>2. counted = months /\ months \in Nat
    BY MonthsCounted
  <1>3. g.target \in Int /\ missing \in Int
    BY WorkspaceAssumption DEF Goal
  <1>4. missing > 0 => remaining = missing
    BY <1>3, MaxOfTwo
  <1>5. missing <= 0 <=> current >= g.target
    BY <1>3
  <1>. HIDE DEF months, counted, monthly, remaining, missing
  <1>6. missing <= 0 => monthly = 0
    BY <1>1, <1>5
  <1>7. missing > 0 /\ (g.date < now \/ months = 0) => monthly = NoPlan
    BY <1>1, <1>2, <1>3, <1>5
  <1>8. missing > 0 /\ ~(g.date < now \/ months = 0) => monthly = CeilDiv(missing, months)
    BY <1>1, <1>2, <1>3, <1>4, <1>5
  <1>. QED  BY <1>6, <1>7, <1>8 DEF months, monthly, missing

(* What is recommended for each month reaches the target by its date and   *)
(* is the least that does, whatever the balance, the date and the start    *)
(* of the plan (calculateGoalPlan).                                        *)
THEOREM PlanReaches == Spec => []PlanReachesTarget
  <1>1. TypeOK => PlanReachesTarget
    <2>. SUFFICES ASSUME TypeOK, goal # NoGoal
                  PROVE  PlanReachesTarget
      BY DEF PlanReachesTarget
    <2>1. goal.initial \in Int
      <3>1. goal.initial \in Initials
        BY DEF TypeOK, Goal
      <3>2. \A i \in Initials : i \in Int
        BY WorkspaceAssumption
      <3>. QED  BY <3>1, <3>2
    <2>. DEFINE current == Balance(goal.initial, operations)
                missing == goal.target - current
                months == MonthsLeft(goal, today)
                monthly == GoalPlan(goal, current, today, DaysPerMonth).monthly
    <2>2. goal \in Goal /\ today \in 0 .. MaxToday /\ operations \in [OpIds -> Int]
      BY DEF TypeOK
    <2>3. current \in Int
      <3>1. current = goal.initial + SumOf(operations, OpIds)
        BY DEF Balance, SumOver, SumOf
      <3>2. SumOf(operations, OpIds) \in Int
        BY <2>2, SumGrows, WorkspaceAssumption
      <3>. QED  BY <2>1, <3>1, <3>2
    <2>. HIDE DEF current
    <2>4. missing \in Int
      BY <2>2, <2>3, WorkspaceAssumption DEF Goal
    <2>5. months \in Nat
      BY <2>2, MonthsCounted
    <2>6. /\ missing <= 0 => monthly = 0
          /\ missing > 0 /\ (goal.date < today \/ months = 0) => monthly = NoPlan
          /\ missing > 0 /\ ~(goal.date < today \/ months = 0)
               => monthly = CeilDiv(missing, months)
      BY <2>2, <2>3, Recommended
    <2>. HIDE DEF missing, months, monthly
    <2>7. missing > 0 /\ months # 0 =>
            /\ CeilDiv(missing, months) * months >= missing
            /\ (CeilDiv(missing, months) - 1) * months < missing
      BY <2>4, <2>5, CeilDivEnough
    <2>8. (CASE missing <= 0 -> monthly = 0
             [] missing > 0 /\ (goal.date < today \/ months = 0) -> monthly = NoPlan
             [] OTHER -> /\ monthly * months >= missing
                         /\ (monthly - 1) * months < missing)
      <3>1. CASE missing <= 0
        BY <2>4, <2>6, <3>1
      <3>2. CASE missing > 0 /\ (goal.date < today \/ months = 0)
        BY <2>4, <2>6, <3>2
      <3>3. CASE missing > 0 /\ ~(goal.date < today \/ months = 0)
        <4>1. monthly * months >= missing /\ (monthly - 1) * months < missing
          BY <2>6, <2>7, <3>3
        <4>. HIDE DEF CeilDiv
        <4>2. ~(missing <= 0)
          BY <2>4, <3>3
        <4>. QED  BY <3>3, <4>1, <4>2
      <3>. QED  BY <2>4, <3>1, <3>2, <3>3
    <2>. QED  BY <2>8 DEF PlanReachesTarget, current, missing, months, monthly, MonthsLeft
  <1>2. Inv => PlanReachesTarget
    BY <1>1 DEF Inv
  <1>. QED  BY <1>2, Invariance, PTL

-------------------------------------------------------------------------------
(* The progress of budgets.                                                *)

(* What getTotalSpent computes, for what each category spent itself.       *)
Below(c) == {d \in Categories : Parent[d] = c}

Totals(own, total) ==
    total = [c \in DOMAIN Parent |->
              own[c] + SumOver(total, {d \in DOMAIN Parent : Parent[d] = c})]

(* The same, category by category.                                         *)
AddsUp(own, total) ==
    /\ total \in [Categories -> Nat]
    /\ \A c \in Categories : total[c] = own[c] + SumOf(total, Below(c))

LEMMA SumsAreSums == \A f, S : SumOver(f, S) = SumOf(f, S)
  BY DEF SumOver, SumOf

LEMMA BelowFinite == \A c : Below(c) \subseteq Categories /\ IsFiniteSet(Below(c))
  BY FS_Subset, WorkspaceAssumption DEF Below

(* The recursion has a solution, found from the leaves of the tree up.     *)
LEMMA TotalsExist ==
    ASSUME NEW own \in [Categories -> Nat]
    PROVE  \E total : Totals(own, total)
  <1>1. PICK height \in [Categories -> 0 .. Cardinality(Categories)] :
               \A c \in Categories : Parent[c] # NoCategory => height[c] < height[Parent[c]]
    BY TreeAssumption
  <1>. DEFINE Take(g, c) == own[c] + SumOf(g, Below(c))
              Good(g, n) == /\ g \in [Categories -> Nat]
                            /\ \A c \in Categories : height[c] < n => g[c] = Take(g, c)
              T == {n \in Nat : \E g : Good(g, n)}
  <1>2. Cardinality(Categories) \in Nat
    BY WorkspaceAssumption, FS_CardinalityType
  <1>3. \A c \in Categories : height[c] \in Nat /\ height[c] < Cardinality(Categories) + 1
    BY <1>1, <1>2
  <1>4. \A c \in Categories : \A d \in Below(c) : d \in Categories /\ height[d] < height[c]
    <2>1. \A c \in Categories : c # NoCategory
      BY TreeAssumption
    <2>. QED  BY <1>1, <2>1 DEF Below
  <1>5. \E g : Good(g, 0)
    <2>. DEFINE g == [c \in Categories |-> 0]
    <2>1. Good(g, 0)
      BY <1>3
    <2>. HIDE DEF Good, g
    <2>. QED  BY <2>1
  <1>6. ASSUME NEW n \in Nat, NEW g, Good(g, n)
        PROVE  \E h : Good(h, n + 1)
    <2>1. \A c \in Categories : Take(g, c) \in Nat
      <3>. SUFFICES ASSUME NEW c \in Categories PROVE Take(g, c) \in Nat
        OBVIOUS
      <3>1. \A d \in Below(c) : g[d] \in Nat
        BY <1>6, BelowFinite
      <3>2. SumOf(g, Below(c)) \in Nat
        BY <3>1, BelowFinite, SumNatural
      <3>. QED  BY <3>2
    <2>. DEFINE h == [c \in Categories |-> IF height[c] < n THEN g[c] ELSE Take(g, c)]
    <2>2. h \in [Categories -> Nat]
      BY <1>6, <2>1
    <2>3. ASSUME NEW c \in Categories, height[c] < n + 1
          PROVE  h[c] = Take(h, c)
      <3>1. h[c] = Take(g, c)
        BY <1>6
      <3>2. \A d \in Below(c) : h[d] = g[d]
        BY <1>3, <1>4, <2>3
      <3>. HIDE DEF h
      <3>3. SumOf(h, Below(c)) = SumOf(g, Below(c))
        BY <3>2, SumAgrees
      <3>. QED  BY <3>1, <3>3
    <2>4. Good(h, n + 1)
      BY <2>2, <2>3
    <2>. HIDE DEF Good, h
    <2>. QED  BY <2>4
  <1>7. \A n \in Nat : n \in T
    <2>. HIDE DEF Good
    <2>1. 0 \in T /\ \A n \in Nat : n \in T => n + 1 \in T
      BY <1>5, <1>6
    <2>. HIDE DEF T
    <2>. QED  BY <2>1, NaturalInduction
  <1>8. PICK g : Good(g, Cardinality(Categories) + 1)
    BY <1>2, <1>7
  <1>9. DOMAIN Parent = Categories
    BY TreeAssumption
  <1>10. g = [c \in Categories |-> Take(g, c)]
    BY <1>3, <1>8
  <1>11. Totals(own, g)
    BY <1>9, <1>10, SumsAreSums DEF Totals, Below
  <1>. QED  BY <1>11

(* What getTotalSpent answers adds up.                                     *)
LEMMA TotalSpentAddsUp ==
    ASSUME NEW own \in [Categories -> Nat]
    PROVE  AddsUp(own, TotalSpent(Parent, own))
  <1>. DEFINE total == CHOOSE t : Totals(own, t)
  <1>1. TotalSpent(Parent, own) = total
    BY DEF TotalSpent, Totals
  <1>2. Totals(own, total)
    BY TotalsExist
  <1>. HIDE DEF total
  <1>3. DOMAIN Parent = Categories
    BY TreeAssumption
  <1>4. total = [c \in Categories |-> own[c] + SumOf(total, Below(c))]
    BY <1>2, <1>3, SumsAreSums DEF Totals, Below
  <1>5. \A c \in Categories : total[c] = own[c] + SumOf(total, Below(c))
    BY <1>4
  <1>6. PICK height \in [Categories -> 0 .. Cardinality(Categories)] :
               \A c \in Categories : Parent[c] # NoCategory => height[c] < height[Parent[c]]
    BY TreeAssumption
  <1>7. Cardinality(Categories) \in Nat
    BY WorkspaceAssumption, FS_CardinalityType
  <1>8. \A c \in Categories : height[c] \in Nat /\ height[c] < Cardinality(Categories) + 1
    BY <1>6, <1>7
  <1>9. \A c \in Categories : \A d \in Below(c) : d \in Categories /\ height[d] < height[c]
    <2>1. \A c \in Categories : c # NoCategory
      BY TreeAssumption
    <2>. QED  BY <1>6, <2>1 DEF Below
  <1>. DEFINE T == {n \in Nat : \A c \in Categories : height[c] < n => total[c] \in Nat}
  <1>10. 0 \in T
    BY <1>8
  <1>11. ASSUME NEW n \in Nat, n \in T PROVE n + 1 \in T
    <2>. SUFFICES ASSUME NEW c \in Categories, height[c] < n + 1
                  PROVE  total[c] \in Nat
      OBVIOUS
    <2>1. \A d \in Below(c) : total[d] \in Nat
      <3>. SUFFICES ASSUME NEW d \in Below(c) PROVE total[d] \in Nat
        OBVIOUS
      <3>1. d \in Categories /\ height[d] < height[c] /\ {height[c], height[d]} \subseteq Nat
        BY <1>8, <1>9
      <3>2. height[d] < n
        BY <3>1
      <3>. QED  BY <1>11, <3>1, <3>2
    <2>2. SumOf(total, Below(c)) \in Nat
      BY <2>1, BelowFinite, SumNatural
    <2>3. own[c] \in Nat
      OBVIOUS
    <2>. QED  BY <1>5, <2>2, <2>3
  <1>12. \A n \in Nat : n \in T
    <2>. HIDE DEF T
    <2>. QED  BY <1>10, <1>11, NaturalInduction
  <1>13. \A c \in Categories : total[c] \in Nat
    BY <1>7, <1>8, <1>12
  <1>14. total \in [Categories -> Nat]
    BY <1>4, <1>13
  <1>. QED  BY <1>1, <1>5, <1>14 DEF AddsUp

(* Every category is counted in one top category, and once.                *)
LEMMA TopsHoldEverything ==
    ASSUME NEW own \in [Categories -> Nat], NEW total, AddsUp(own, total)
    PROVE  SumOf(total, {c \in Categories : Parent[c] = NoCategory}) = SumOf(own, Categories)
  <1>. DEFINE tops == {c \in Categories : Parent[c] = NoCategory}
              below == [c \in Categories |-> SumOf(total, Below(c))]
  <1>1. /\ IsFiniteSet(Categories)
        /\ tops \in SUBSET Categories
        /\ Subcategories = Categories \ tops
        /\ IsFiniteSet(Subcategories)
    BY WorkspaceAssumption, FS_Subset DEF Subcategories
  <1>2. \A c \in Categories : total[c] \in Int /\ own[c] \in Int
    BY DEF AddsUp
  <1>3. \A c \in Categories : below[c] \in Int
    <2>1. \A c \in Categories : Below(c) \in SUBSET Categories
      BY DEF Below
    <2>. QED  BY <1>1, <1>2, <2>1, SumRemove
  <1>4. SumOf(total, Categories) = SumOf(own, Categories) + SumOf(below, Categories)
    <2>1. \A c \in Categories : total[c] = own[c] + below[c]
      BY DEF AddsUp
    <2>. HIDE DEF below
    <2>2. \A c \in Categories :
            own[c] \in Int /\ below[c] \in Int /\ total[c] = own[c] + below[c]
      BY <1>2, <1>3, <2>1
    <2>. QED  BY <1>1, <2>2, SumAdds
  <1>5. SumOf(below, Categories) = SumOf(total, Subcategories)
    <2>. DEFINE groups ==
                  [c \in Categories |-> SumOf(total, {d \in Subcategories : Parent[d] = c})]
    <2>1. \A d \in Subcategories : total[d] \in Int /\ Parent[d] \in Categories
      BY <1>2, TreeAssumption DEF Subcategories
    <2>2. SumOf(groups, Categories) = SumOf(total, Subcategories)
      BY <1>1, <2>1, SumByGroups
    <2>3. \A c \in Categories : {d \in Subcategories : Parent[d] = c} = Below(c)
      BY TreeAssumption DEF Subcategories, Below
    <2>4. groups = below
      BY <2>3
    <2>. QED  BY <2>2, <2>4
  <1>6. SumOf(total, Categories) = SumOf(total, tops) + SumOf(total, Subcategories)
    <2>. HIDE DEF tops
    <2>. QED  BY <1>1, <1>2, SumSplits
  <1>7. /\ SumOf(own, Categories) \in Int
        /\ SumOf(total, tops) \in Int
        /\ SumOf(total, Subcategories) \in Int
    <2>. HIDE DEF tops
    <2>. QED  BY <1>1, <1>2, SumRemove
  <1>. HIDE DEF tops, below
  <1>8. SumOf(total, tops) = SumOf(own, Categories)
    BY <1>4, <1>5, <1>6, <1>7
  <1>. QED  BY <1>8 DEF tops

(* The rows that are left, and what was spent in each category.            *)
Live == {t \in TxIds : txs[t] # NoTx /\ ~txs[t].deleted}
LiveAmounts == [t \in Live |-> txs[t].amount]
Own == [c \in Categories |-> SumOver(LiveAmounts, {t \in Live : txs[t].category = c})]
Budgeted == [c \in {d \in Categories : budgets[d] # NoBudget} |-> budgets[c].amount]

LEMMA LiveTyped ==
    ASSUME TypeOK
    PROVE  /\ IsFiniteSet(Live)
           /\ \A t \in Live : LiveAmounts[t] \in Nat /\ txs[t].category \in Categories
           /\ Own \in [Categories -> Nat]
           /\ SumOf(Own, Categories) = SumOf(LiveAmounts, Live)
  <1>1. IsFiniteSet(Live)
    BY FS_Subset, WorkspaceAssumption DEF Live
  <1>2. \A t \in Live : txs[t] \in Tx
    BY DEF Live, TypeOK
  <1>3. \A t \in Live : LiveAmounts[t] \in Nat /\ txs[t].category \in Categories
    <2>1. Amounts \subseteq Nat
      BY WorkspaceAssumption
    <2>2. \A t \in Live : txs[t].amount \in Amounts /\ txs[t].category \in Categories
      BY <1>2 DEF Tx
    <2>. QED  BY <2>1, <2>2 DEF LiveAmounts
  <1>4. ASSUME NEW c \in Categories
        PROVE  SumOf(LiveAmounts, {t \in Live : txs[t].category = c}) \in Nat
    <2>. DEFINE mine == {t \in Live : txs[t].category = c}
    <2>1. IsFiniteSet(mine) /\ \A t \in mine : LiveAmounts[t] \in Nat
      BY <1>1, <1>3, FS_Subset
    <2>. HIDE DEF mine
    <2>2. SumOf(LiveAmounts, mine) \in Nat
      BY <2>1, SumNatural
    <2>. QED  BY <2>2 DEF mine
  <1>5. Own \in [Categories -> Nat]
    BY <1>4, SumsAreSums DEF Own
  <1>6. SumOf(Own, Categories) = SumOf(LiveAmounts, Live)
    <2>. DEFINE k == [t \in Live |-> txs[t].category]
    <2>1. \A t \in Live : LiveAmounts[t] \in Int /\ k[t] \in Categories
      BY <1>3
    <2>2. \A c : {t \in Live : k[t] = c} = {t \in Live : txs[t].category = c}
      OBVIOUS
    <2>. HIDE DEF k
    <2>3. SumOf([c \in Categories |-> SumOf(LiveAmounts, {t \in Live : k[t] = c})], Categories)
            = SumOf(LiveAmounts, Live)
      BY <1>1, <2>1, SumByGroups, WorkspaceAssumption
    <2>. QED  BY <2>2, <2>3, SumsAreSums DEF Own
  <1>. QED  BY <1>1, <1>3, <1>5, <1>6

(* What the top categories spent adds up to what the transactions that are *)
(* left spent, and each percentage is the nearest one                      *)
(* (calculateBudgetProgress).                                              *)
THEOREM ProgressIsTrue == Spec => []ProgressAddsUp
  <1>1. TypeOK => ProgressAddsUp
    <2>. SUFFICES ASSUME TypeOK PROVE ProgressAddsUp
      OBVIOUS
    <2>. DEFINE total == TotalSpent(Parent, Own)
                progress == BudgetProgress(Parent, Budgeted, Own)
                roots == {c \in DOMAIN progress : Parent[c] = NoCategory}
                tops == {c \in Categories : Parent[c] = NoCategory}
                spent == [c \in roots |-> progress[c].spent]
    <2>1. /\ total \in [Categories -> Nat]
          /\ SumOf(total, tops) = SumOf(LiveAmounts, Live)
      <3>1. AddsUp(Own, total)
        BY LiveTyped, TotalSpentAddsUp
      <3>2. SumOf(total, tops) = SumOf(Own, Categories)
        BY <3>1, LiveTyped, TopsHoldEverything
      <3>3. total \in [Categories -> Nat]
        BY <3>1 DEF AddsUp
      <3>. HIDE DEF total, tops
      <3>. QED  BY <3>2, <3>3, LiveTyped
    <2>2. DOMAIN Budgeted \subseteq Categories
          /\ \A c \in DOMAIN Budgeted : Budgeted[c] \in Nat \ {0}
      <3>1. \A c \in DOMAIN Budgeted : c \in Categories /\ budgets[c] \in Budget
        BY DEF Budgeted, TypeOK
      <3>2. \A c \in DOMAIN Budgeted : budgets[c].amount \in Amounts
        BY <3>1 DEF Budget
      <3>3. Amounts \subseteq Nat \ {0}
        BY WorkspaceAssumption
      <3>. QED  BY <3>1, <3>2, <3>3 DEF Budgeted
    <2>3. /\ DOMAIN progress = {c \in Categories : c \in DOMAIN Budgeted \/ total[c] > 0}
          /\ \A c \in DOMAIN progress : progress[c].spent = total[c]
          /\ \A c \in DOMAIN Budgeted :
               progress[c].points = PercentageBasisPoints(total[c], Budgeted[c])
      <3>1. DOMAIN Parent = Categories
        BY TreeAssumption
      <3>. HIDE DEF total
      <3>2. progress = [c \in {d \in Categories : d \in DOMAIN Budgeted \/ total[d] > 0} |->
                         [spent |-> total[c],
                          points |-> IF c \in DOMAIN Budgeted
                                     THEN PercentageBasisPoints(total[c], Budgeted[c])
                                     ELSE NoPlan]]
        BY <3>1 DEF BudgetProgress, total
      <3>. HIDE DEF progress
      <3>. QED  BY <2>2, <3>2
    <2>. HIDE DEF total, progress
    <2>4. SumOf(spent, roots) = SumOf(LiveAmounts, Live)
      <3>1. \A c \in roots : spent[c] = total[c]
        BY <2>3
      <3>2. roots \in SUBSET tops /\ \A c \in tops \ roots : total[c] = 0
        BY <2>1, <2>3
      <3>3. IsFiniteSet(tops) /\ \A c \in tops : total[c] \in Int
        BY <2>1, FS_Subset, WorkspaceAssumption
      <3>. HIDE DEF spent, roots, tops
      <3>4. SumOf(spent, roots) = SumOf(total, roots)
        BY <3>1, SumAgrees
      <3>5. SumOf(total, tops) = SumOf(total, roots)
        BY <3>2, <3>3, SumWithoutZeros
      <3>. QED  BY <2>1, <3>4, <3>5
    <2>5. ASSUME NEW c \in DOMAIN Budgeted
          PROVE  LET error == 20000 * progress[c].spent - 2 * progress[c].points * Budgeted[c]
                 IN  -Budgeted[c] <= error /\ error < Budgeted[c]
      <3>1. total[c] \in Nat /\ Budgeted[c] \in Nat \ {0} /\ c \in DOMAIN progress
        BY <2>1, <2>2, <2>3
      <3>2. /\ progress[c].spent = total[c]
            /\ progress[c].points = PercentageBasisPoints(total[c], Budgeted[c])
        BY <2>3, <3>1
      <3>3. LET error == 20000 * total[c]
                           - 2 * PercentageBasisPoints(total[c], Budgeted[c]) * Budgeted[c]
            IN  -Budgeted[c] <= error /\ error < Budgeted[c]
        BY <3>1, NearestPercentage
      <3>. QED  BY <3>2, <3>3
    <2>. HIDE DEF spent, roots, tops
    <2>6. SumOver(spent, roots) = SumOver(LiveAmounts, Live)
      BY <2>4, SumsAreSums
    <2>. QED  BY <2>5, <2>6
              DEF ProgressAddsUp, Live, LiveAmounts, Own, Budgeted, progress, roots, spent
  <1>2. Inv => ProgressAddsUp
    BY <1>1 DEF Inv
  <1>. QED  BY <1>2, Invariance, PTL
===============================================================================
