--------------------------- MODULE AtomicLedgerProofs ---------------------------
(***************************************************************************)
(* ExternalTransactions implements AtomicLedger: each accepted request     *)
(* takes effect in one step, its commit.  What the commit needs to know    *)
(* was read several steps before; the invariant says why it still holds.   *)
(* The properties of the runs about external ids, replays, policies,       *)
(* versions and lost updates follow from the same invariant.               *)
(***************************************************************************)
EXTENDS ExternalTransactionsProofs

(***************************************************************************)
(* What a worker knows at each of its steps, and keeps until its commit    *)
(* because of the locks it holds.                                          *)
(***************************************************************************)
Mutating(w) == work[w].pc = "commit" /\ ~work[w].replayed

(* The body of its request was checked in this attempt.                    *)
Checked(w) ==
    \/ Creating(w) /\ (work[w].pc \in {"lock", "find", "write"} \/ Mutating(w))
    \/ work[w].request.operation = "update" /\ (work[w].pc = "write" \/ Mutating(w))

(* It has found its target.                                                *)
Found(w) ==
    /\ work[w].pc \in {"write", "commit"}
    /\ work[w].target # NoTx
    /\ rows[work[w].target] # NoRow

(* The references of a body are usable, and locked so that they stay so.   *)
Holds(w, c) ==
    /\ Usable(work[w].principal, c, archived)
    /\ RefShares(c) \subseteq held[w]

HasScope(w) == work[w].request.operation \in work[w].principal.scopes

BodyHeld(w) == Checked(w) => Holds(w, work[w].request.command)

TargetHeld(w) ==
    Found(w) =>
        /\ Holds(w, rows[work[w].target].command)
        /\ rows[work[w].target].owner = work[w].principal.integration
        /\ IF work[w].replayed
           THEN RowShare(work[w].target) \in held[w]
           ELSE /\ RowLock(work[w].target) \in held[w]
                /\ work[w].request.externalId # NoExt
                /\ rows[work[w].target].externalId = work[w].request.externalId

(* Nothing is staged before the commit, nor by a replay.                   *)
NothingStaged(w) ==
    /\ work[w].pc # "commit" => ~work[w].replayed
    /\ ~Mutating(w) => work[w].row = NoRow

(* What the commit will publish fits the rows as they are.                 *)
StagedCreate(w) ==
    /\ rows[work[w].target] = NoRow
    /\ work[w].row = CreatedRow(work[w].principal, work[w].request)
    /\ work[w].row # NoRow
    /\ work[w].response = [status |-> 201, command |-> work[w].request.command,
                           version |-> 1]
    /\ work[w].request.externalId # NoExt =>
         Owned(rows, work[w].principal.integration, work[w].request.externalId) = {}

StagedNothing(w) ==
    /\ rows[work[w].target] # NoRow
    /\ work[w].row = NoRow
    /\ work[w].response = [status |-> 200, command |-> NoCommand, version |-> 0]

StagedUpdate(w) ==
    /\ work[w].row = UpdatedRow(rows[work[w].target], work[w].request.command)
    /\ work[w].row # NoRow
    /\ work[w].response = [status |-> 200, command |-> work[w].request.command,
                           version |-> work[w].request.expectedVersion + 1]

StagedDelete(w) ==
    /\ work[w].row = DeletedRow(rows[work[w].target])
    /\ work[w].response = [status |-> 204, command |-> NoCommand, version |-> 0]

Expected(w) ==
    /\ rows[work[w].target] # NoRow
    /\ ~rows[work[w].target].deleted
    /\ rows[work[w].target].version = work[w].request.expectedVersion

Outcome(w) ==
    Mutating(w) =>
        \/ Creating(w) /\ StagedCreate(w)
        \/ Creating(w) /\ StagedNothing(w)
        \/ work[w].request.operation = "update" /\ Expected(w) /\ StagedUpdate(w)
        \/ work[w].request.operation = "delete" /\ Expected(w) /\ StagedDelete(w)

(* The row of the target after the commit.                                 *)
After(w) == IF work[w].row = NoRow THEN rows[work[w].target] ELSE work[w].row

(* The record that spends a key on a result at time "at".                  *)
Result(r, t, row, response, at) ==
    [operation |-> r.operation, targetExternalId |-> r.externalId,
     requestFingerprint |-> Fingerprint(r), status |-> "completed",
     response |-> response, targetTransactionId |-> t,
     retainedCategoryId |-> row.command.categoryId,
     retainedPaymentSourceId |-> row.command.paymentSourceId,
     leaseExpiresAt |-> 0, completedAt |-> at, expiresAt |-> at + Retention]

RecordStaged(w) ==
    Mutating(w) /\ Keyed(w) =>
        /\ work[w].record = Result(work[w].request, work[w].target, After(w),
                                   work[w].response, work[w].record.completedAt)
        /\ work[w].claimedAt <= work[w].record.completedAt

(* The key is still the worker's to spend.                                 *)
ClaimStands(w) ==
    Claimant(w) => Claimable(Rec(w), work[w].request, work[w].claimedAt)

(* A completed record, and a stored answer, is a result that was committed.*)
Backed(record, i, k) ==
    \E c \in completions :
        /\ c.integration = i
        /\ c.key = k
        /\ c.requestFingerprint = record.requestFingerprint
        /\ c.response = record.response
        /\ c.target = record.targetTransactionId

(* The references kept with a stored answer are those that it shows.       *)
KeepsShown(record) ==
    record.response.command # NoCommand =>
        /\ TypeMatches(record.response.command)
        /\ record.retainedCategoryId = record.response.command.categoryId
        /\ record.retainedPaymentSourceId = record.response.command.paymentSourceId

RecordsBacked ==
    \A i \in Integrations, k \in Keys :
        /\ records[i][k] # NoRecord
        /\ records[i][k].status = "completed"
        => Backed(records[i][k], i, k) /\ KeepsShown(records[i][k])

ReplayBacked(w) ==
    /\ work[w].pc = "replay" =>
         /\ work[w].record.status = "completed"
         /\ work[w].record.requestFingerprint = Fingerprint(work[w].request)
         /\ Backed(work[w].record, work[w].principal.integration, work[w].request.key)
         /\ KeepsShown(work[w].record)
    /\ work[w].pc = "commit" /\ work[w].replayed =>
         \E c \in completions :
             /\ c.integration = work[w].principal.integration
             /\ c.key = work[w].request.key
             /\ c.requestFingerprint = Fingerprint(work[w].request)
             /\ c.response = work[w].response
             /\ c.target = work[w].target

(* What a stored answer shows is usable, and locked so that it stays so.   *)
ShownHeld(w) ==
    /\ work[w].pc = "commit"
    /\ work[w].replayed
    /\ work[w].response.command # NoCommand
    => Holds(w, work[w].response.command)

Informed(w) ==
    work[w].pc # "idle" =>
        /\ HasScope(w)
        /\ BodyHeld(w)
        /\ TargetHeld(w)
        /\ NothingStaged(w)
        /\ Outcome(w)
        /\ RecordStaged(w)
        /\ ClaimStands(w)
        /\ ReplayBacked(w)
        /\ ShownHeld(w)

(* Two inserts that are not committed yet do not meet.                     *)
Inserting(w) == Mutating(w) /\ Creating(w) /\ work[w].row # NoRow

Apart(v, w) ==
    /\ work[v].target # work[w].target
    /\ \/ work[v].request.externalId = NoExt
       \/ work[v].request.externalId # work[w].request.externalId
       \/ work[v].principal.integration # work[w].principal.integration

InsertsApart ==
    \A v, w \in Workers : v # w /\ Inserting(v) /\ Inserting(w) => Apart(v, w)

AllInformed == \A w \in Workers : Informed(w)

EInv == AllInformed /\ InsertsApart /\ RecordsBacked /\ ExternalIdNeverReused

(* The initial workers are idle and know nothing, and no key was spent.    *)
LEMMA InitInformed == Init => EInv
  <1>. SUFFICES ASSUME Init PROVE EInv
    OBVIOUS
  <1>1. AllInformed /\ InsertsApart
    BY IdleNotWork DEF Init, AllInformed, Informed, InsertsApart, Inserting, Mutating
  <1>2. RecordsBacked
    <2>1. \A i \in Integrations, k \in Keys :
            records[i][k] = NoRecord \/ records[i][k] \in LegacyRecords
      BY DEF Init, Nullable
    <2>2. "in_progress" # "completed"
      OBVIOUS
    <2>. QED  BY <2>1, <2>2, LegacyAssumption DEF RecordsBacked
  <1>3. ExternalIdNeverReused
    BY DEF Init, ExternalIdNeverReused
  <1>. QED  BY <1>1, <1>2, <1>3 DEF EInv

(* A worker that does not move keeps what it knows as long as its target,  *)
(* its references, its key and the identity it inserts are left alone.     *)
LEMMA Bystander ==
    ASSUME TInv, NEW v \in Workers, Informed(v),
           work'[v] = work[v], held[v] \subseteq held'[v],
           \A c : Holds(v, c) => Usable(work[v].principal, c, archived'),
           work[v].pc \in {"write", "commit"} /\ work[v].target \in TxIds =>
               rows'[work[v].target] = rows[work[v].target],
           Inserting(v) /\ work[v].request.externalId # NoExt =>
               Owned(rows', work[v].principal.integration,
                     work[v].request.externalId) = {},
           Claimant(v) => Claimable(Rec(v)', work[v].request, work[v].claimedAt),
           completions \subseteq completions'
    PROVE  Informed(v)'
  <1>. SUFFICES ASSUME work[v].pc # "idle"
                PROVE  Informed(v)'
    BY DEF Informed
  <1>1. /\ HasScope(v) /\ BodyHeld(v) /\ TargetHeld(v) /\ NothingStaged(v)
        /\ Outcome(v) /\ RecordStaged(v) /\ ClaimStands(v) /\ ReplayBacked(v)
        /\ ShownHeld(v)
    BY DEF Informed
  <1>2. \A c : Holds(v, c) => Holds(v, c)'
    BY DEF Holds
  <1>3. /\ work[v].target # NoTx => work[v].target \in TxIds
        /\ work[v].pc = "commit" => work[v].target \in TxIds
    BY WorkTyped DEF TInv, WorkInv, WorkOK, Work, Nullable
  <1>4. HasScope(v)' /\ BodyHeld(v)' /\ NothingStaged(v)'
    BY <1>1, <1>2 DEF HasScope, BodyHeld, NothingStaged, Checked, Creating, Mutating
  <1>5. TargetHeld(v)'
    BY <1>1, <1>2, <1>3 DEF TargetHeld, Found, RowShare, RowLock
  <1>6. Outcome(v)'
    <2>. SUFFICES ASSUME Mutating(v)
                  PROVE  Outcome(v)'
      BY DEF Outcome, Mutating
    <2>1. rows'[work[v].target] = rows[work[v].target]
      BY <1>3 DEF Mutating
    <2>2. Creating(v) /\ StagedCreate(v) => StagedCreate(v)'
      BY <2>1 DEF StagedCreate, Inserting
    <2>3. /\ StagedNothing(v) => StagedNothing(v)'
          /\ StagedUpdate(v) => StagedUpdate(v)'
          /\ StagedDelete(v) => StagedDelete(v)'
          /\ Expected(v) => Expected(v)'
          /\ Creating(v) => Creating(v)'
      BY <2>1 DEF StagedNothing, StagedUpdate, StagedDelete, Expected, Creating
    <2>. QED  BY <1>1, <2>2, <2>3 DEF Outcome
  <1>7. RecordStaged(v)' /\ ClaimStands(v)'
    BY <1>1, <1>3 DEF RecordStaged, ClaimStands, After, Mutating, Keyed, Claimant, PastClaim
  <1>8. ReplayBacked(v)'
    BY <1>1 DEF ReplayBacked, Backed, KeepsShown, TypeMatches
  <1>9. ShownHeld(v)'
    BY <1>1, <1>2 DEF ShownHeld
  <1>. QED  BY <1>4, <1>5, <1>6, <1>7, <1>8, <1>9 DEF Informed

(* Apart is symmetric.                                                     *)
LEMMA ApartSymmetric == \A v, w : Apart(v, w) <=> Apart(w, v)
  BY DEF Apart

(* A step of one worker that changes nothing that others see.              *)
LEMMA LocalStep ==
    ASSUME TInv, EInv, NEW w \in Workers, NEW x, work' = [work EXCEPT ![w] = x],
           \A v \in Workers \ {w} : held'[v] = held[v],
           UNCHANGED <<rows, records, archived, completions>>,
           Informed(w)',
           Inserting(w)' => \A v \in Workers \ {w} : Inserting(v) => Apart(v, w)'
    PROVE  EInv'
  <1>1. \A v \in Workers \ {w} : work'[v] = work[v]
    BY DEF TInv, TypeOK
  <1>2. ASSUME NEW v \in Workers \ {w} PROVE Informed(v)'
    <2>1. Informed(v) /\ work'[v] = work[v] /\ held'[v] = held[v]
      BY <1>1 DEF EInv, AllInformed
    <2>2. \A c : Holds(v, c) => Usable(work[v].principal, c, archived')
      BY DEF Holds
    <2>3. Inserting(v) /\ work[v].request.externalId # NoExt =>
            Owned(rows', work[v].principal.integration, work[v].request.externalId) = {}
      <3>1. CASE Inserting(v)
        <4>1. work[v].pc # "idle"
          BY <3>1 DEF Inserting, Mutating
        <4>2. Outcome(v) /\ Mutating(v) /\ Creating(v) /\ work[v].row # NoRow
          BY <2>1, <3>1, <4>1 DEF Informed, Inserting
        <4>3. StagedCreate(v)
          BY <4>2 DEF Outcome, StagedNothing, Creating
        <4>. QED  BY <4>3 DEF StagedCreate
      <3>. QED  BY <3>1
    <2>4. Claimant(v) => Claimable(Rec(v)', work[v].request, work[v].claimedAt)
      <3>1. Claimant(v) => ClaimStands(v)
        BY <2>1 DEF Informed, Claimant, PastClaim
      <3>2. Rec(v)' = Rec(v)
        BY <1>1 DEF Rec
      <3>. QED  BY <3>1, <3>2 DEF ClaimStands
    <2>. QED  BY <2>1, <2>2, <2>3, <2>4, Bystander
  <1>3. InsertsApart'
    <2>. SUFFICES ASSUME NEW u \in Workers, NEW v \in Workers, u # v,
                         Inserting(u)', Inserting(v)'
                  PROVE  Apart(u, v)'
      BY DEF InsertsApart
    <2>1. \A y \in Workers \ {w} : Inserting(y)' => Inserting(y)
      BY <1>1 DEF Inserting, Mutating, Creating
    <2>2. CASE u # w /\ v # w
      <3>1. Apart(u, v)
        BY <2>1, <2>2 DEF EInv, InsertsApart
      <3>. QED  BY <1>1, <2>2, <3>1 DEF Apart
    <2>3. CASE v = w
      BY <2>1, <2>3
    <2>4. CASE u = w
      <3>1. Apart(v, u)'
        BY <2>1, <2>4
      <3>. QED  BY <3>1 DEF Apart
    <2>. QED  BY <2>2, <2>3, <2>4
  <1>4. RecordsBacked'
    BY DEF EInv, RecordsBacked, Backed, KeepsShown, TypeMatches
  <1>5. ExternalIdNeverReused'
    BY DEF EInv, ExternalIdNeverReused
  <1>. QED  BY <1>2, <1>3, <1>4, <1>5 DEF EInv, AllInformed

(* A rollback leaves a worker that knows nothing.                          *)
LEMMA RefuseInformed ==
    ASSUME TInv, EInv, NEW w \in Workers, Refuse(w)
    PROVE  EInv'
  <1>1. /\ work' = [work EXCEPT ![w] = Idle]
        /\ work'[w].pc = "idle"
        /\ \A v \in Workers \ {w} : held'[v] = held[v]
        /\ UNCHANGED <<rows, records, archived, completions>>
    BY IdleNotWork DEF Refuse, EndTransaction, TInv, TypeOK
  <1>2. Informed(w)' /\ ~Inserting(w)'
    BY <1>1 DEF Informed, Inserting, Mutating
  <1>. QED  BY <1>1, <1>2, LocalStep

(* At its first step a worker needs to know its scope only.                *)
LEMMA FirstInformed ==
    ASSUME TInv, EInv, NEW w \in Workers, NEW x, work' = [work EXCEPT ![w] = x],
           \A v \in Workers \ {w} : held'[v] = held[v],
           UNCHANGED <<rows, records, archived, completions>>,
           x.pc = FirstStep(x.request), x.request \in Requests,
           x.request.operation \in x.principal.scopes,
           x.replayed = FALSE, x.row = NoRow
    PROVE  EInv'
  <1>1. work'[w] = x
    BY DEF TInv, TypeOK
  <1>2. /\ x.pc \in {"claim", "references", "find"}
        /\ x.pc = "find" => x.request.operation # "create"
        /\ x.request.key \in Keys => x.pc = "claim"
    BY ConstantsAssumption DEF FirstStep, AfterClaim
  <1>3. ~Mutating(w)' /\ ~Checked(w)' /\ ~Found(w)' /\ ~Claimant(w)'
    BY <1>1, <1>2 DEF Mutating, Checked, Found, Claimant, PastClaim, Creating, Keyed
  <1>4. Informed(w)' /\ ~Inserting(w)'
    BY <1>1, <1>2, <1>3
    DEF Informed, HasScope, BodyHeld, TargetHeld, NothingStaged, Outcome,
        RecordStaged, ClaimStands, ReplayBacked, ShownHeld, Inserting
  <1>. QED  BY <1>4, LocalStep

(* A request that begins.                                                  *)
LEMMA BeginInformed ==
    ASSUME TInv, EInv, NEW w \in Workers, NEW p \in Principals,
           NEW r \in ClientRequests, Begin(w, p, r)
    PROVE  EInv'
  <1>. DEFINE x == [pc |-> FirstStep(r), principal |-> p, request |-> r,
                    claimedAt |-> now, retried |-> FALSE, target |-> NoTx,
                    row |-> NoRow, record |-> NoRecord,
                    response |-> NoResponse, replayed |-> FALSE]
  <1>1. /\ work' = [work EXCEPT ![w] = x]
        /\ held' = held
        /\ UNCHANGED <<rows, records, archived, completions>>
        /\ r.operation \in p.scopes
    BY DEF Begin
  <1>2. /\ x.pc = FirstStep(x.request) /\ x.request \in Requests
        /\ x.request.operation \in x.principal.scopes
        /\ x.replayed = FALSE /\ x.row = NoRow
    BY <1>1, ClientRequestsAssumption
  <1>. HIDE DEF x
  <1>. QED  BY <1>1, <1>2, FirstInformed

(* The retry after a unique violation starts over.                         *)
LEMMA DuplicateInformed ==
    ASSUME TInv, EInv, NEW w \in Workers, WriteDuplicate(w), ~Refuse(w)
    PROVE  EInv'
  <1>1. /\ work[w] \in Work /\ work[w].request \in Requests
        /\ HasScope(w) /\ NothingStaged(w) /\ work[w].pc = "write"
    BY WorkTyped DEF WriteDuplicate, At, TInv, EInv, AllInformed, Informed
  <1>. DEFINE x == [work[w] EXCEPT !.pc = FirstStep(work[w].request), !.retried = TRUE]
  <1>2. /\ work' = [work EXCEPT ![w] = x]
        /\ \A v \in Workers \ {w} : held'[v] = held[v]
        /\ UNCHANGED <<rows, records, archived, completions>>
    BY DEF WriteDuplicate, TInv, TypeOK
  <1>3. /\ x.pc = FirstStep(x.request) /\ x.request \in Requests
        /\ x.request.operation \in x.principal.scopes
        /\ x.replayed = FALSE /\ x.row = NoRow
    BY <1>1 DEF Work, HasScope, NothingStaged, Mutating
  <1>. HIDE DEF x
  <1>. QED  BY <1>2, <1>3, FirstInformed

(* A claim finds the key free for the request, or a result to repeat.      *)
LEMMA ClaimInformed ==
    ASSUME TInv, EInv, NEW w \in Workers, ClaimKey(w) \/ ClaimReplay(w)
    PROVE  EInv'
  <1>. DEFINE i == work[w].principal.integration
              k == work[w].request.key
  <1>1. /\ work[w] \in Work /\ work[w].request \in Requests
        /\ i \in Integrations /\ k \in Keys
        /\ HasScope(w) /\ NothingStaged(w) /\ work[w].pc = "claim"
    <2>1. work[w].pc = "claim" /\ WorkOK(w)
      BY DEF ClaimKey, ClaimReplay, LockKey, At, TInv, WorkInv
    <2>. QED  BY <2>1, WorkTyped DEF TInv, EInv, AllInformed, Informed, WorkOK, Keyed
  <1>2. /\ \A v \in Workers \ {w} : held'[v] = held[v]
        /\ UNCHANGED <<rows, records, archived, completions>>
    BY DEF ClaimKey, ClaimReplay, Take, TInv, TypeOK
  <1>3. CASE ClaimKey(w)
    <2>. DEFINE x == [work[w] EXCEPT !.pc = AfterClaim(work[w].request),
                                     !.claimedAt = now]
    <2>1. work' = [work EXCEPT ![w] = x] /\ Claimable(Rec(w), work[w].request, now)
      BY <1>3 DEF ClaimKey
    <2>2. /\ x.pc \in {"references", "find"}
          /\ x.pc = "find" => ~Creating(w)
          /\ x.principal = work[w].principal /\ x.request = work[w].request
          /\ x.claimedAt = now /\ x.row = NoRow /\ x.replayed = FALSE
      BY <1>1 DEF Work, AfterClaim, Creating, NothingStaged, Mutating
    <2>. HIDE DEF x
    <2>3. work'[w] = x
      BY <2>1 DEF TInv, TypeOK
    <2>4. ~Mutating(w)' /\ ~Checked(w)' /\ ~Found(w)'
      BY <2>2, <2>3 DEF Mutating, Checked, Found, Creating
    <2>5. ClaimStands(w)'
      <3>1. Rec(w)' = Rec(w)
        BY <1>2, <2>2, <2>3 DEF Rec
      <3>. QED  BY <2>1, <2>2, <2>3, <3>1 DEF ClaimStands
    <2>6. Informed(w)' /\ ~Inserting(w)'
      BY <1>1, <2>2, <2>3, <2>4, <2>5
      DEF Informed, HasScope, BodyHeld, TargetHeld, NothingStaged, Outcome,
          RecordStaged, ReplayBacked, ShownHeld, Inserting
    <2>. QED  BY <1>2, <2>1, <2>6, LocalStep
  <1>4. CASE ClaimReplay(w)
    <2>. DEFINE x == [work[w] EXCEPT !.pc = "replay", !.record = Rec(w)]
    <2>1. /\ work' = [work EXCEPT ![w] = x]
          /\ Rec(w).status = "completed" /\ Rec(w) # NoRecord
          /\ Rec(w).requestFingerprint = Fingerprint(work[w].request)
      BY <1>4 DEF ClaimReplay, Decides, SameIntent
    <2>2. /\ x.pc = "replay" /\ x.record = Rec(w)
          /\ x.principal = work[w].principal /\ x.request = work[w].request
          /\ x.row = NoRow /\ x.replayed = FALSE
      BY <1>1 DEF Work, NothingStaged, Mutating
    <2>. HIDE DEF x
    <2>3. work'[w] = x
      BY <2>1 DEF TInv, TypeOK
    <2>4. Backed(Rec(w), i, k) /\ KeepsShown(Rec(w))
      BY <1>1, <2>1 DEF EInv, RecordsBacked, Rec
    <2>5. ReplayBacked(w)'
      BY <1>2, <2>1, <2>2, <2>3, <2>4 DEF ReplayBacked, Backed, KeepsShown, TypeMatches
    <2>6. ~Mutating(w)' /\ ~Checked(w)' /\ ~Found(w)' /\ ~Claimant(w)'
      BY <2>2, <2>3 DEF Mutating, Checked, Found, Creating, Claimant
    <2>7. Informed(w)' /\ ~Inserting(w)'
      BY <1>1, <2>2, <2>3, <2>5, <2>6
      DEF Informed, HasScope, BodyHeld, TargetHeld, NothingStaged, Outcome,
          RecordStaged, ClaimStands, ShownHeld, Inserting
    <2>. QED  BY <1>2, <2>1, <2>7, LocalStep
  <1>. QED  BY <1>3, <1>4

(* Between its claim and its commit a worker keeps its scope and its key;  *)
(* what a step has to establish is about references, target and result.    *)
LEMMA AdvanceInformed ==
    ASSUME TInv, EInv, NEW w \in Workers, ~Refuse(w),
           \/ CheckReferences(w) \/ LockExternal(w)
           \/ FindExisting(w) \/ FindNothing(w) \/ FindTarget(w)
           \/ WriteCreated(w) \/ WriteAcknowledged(w)
           \/ WriteUpdated(w) \/ WriteDeleted(w),
           UNCHANGED <<rows, archived>>,
           ~work'[w].replayed,
           BodyHeld(w)', TargetHeld(w)', NothingStaged(w)', Outcome(w)', RecordStaged(w)',
           Inserting(w)' => \A v \in Workers \ {w} : Inserting(v) => Apart(v, w)'
    PROVE  EInv'
  <1>1. PICK x : work' = [work EXCEPT ![w] = x]
    BY Advance
  <1>2. work[w].pc # "idle" /\ HasScope(w) /\ ClaimStands(w)
    BY Advance DEF EInv, AllInformed, Informed
  <1>3. HasScope(w)'
    BY <1>2, Advance DEF HasScope
  <1>4. Claimant(w)' => Claimant(w)
    BY Advance DEF Claimant, PastClaim, Keyed
  <1>5. ClaimStands(w)'
    <2>1. Rec(w)' = Rec(w)
      BY Advance DEF Rec
    <2>. QED  BY <1>2, <1>4, <2>1, Advance DEF ClaimStands
  <1>6. ReplayBacked(w)'
    BY Advance DEF ReplayBacked
  <1>7. Informed(w)'
    BY <1>3, <1>5, <1>6 DEF Informed, ShownHeld
  <1>8. /\ \A v \in Workers \ {w} : held'[v] = held[v]
        /\ UNCHANGED <<rows, records, archived, completions>>
    BY Advance
  <1>. QED  BY <1>1, <1>7, <1>8, LocalStep

(* Looking: the references that are checked are locked in the same step,   *)
(* and so is the row that is found.                                        *)
LEMMA LookInformed ==
    ASSUME TInv, EInv, NEW w \in Workers, ~Refuse(w),
           \/ CheckReferences(w) \/ LockExternal(w)
           \/ FindExisting(w) \/ FindNothing(w) \/ FindTarget(w)
    PROVE  EInv'
  <1>. DEFINE p == work[w].principal
              r == work[w].request
  <1>1. /\ work[w] \in Work /\ r \in Requests
        /\ work[w].pc \in {"references", "lock", "find"}
        /\ work[w].target = NoTx
        /\ WorkOK(w) /\ BodyHeld(w)
        /\ work[w].row = NoRow /\ ~work[w].replayed
    <2>1. work[w].pc \in {"references", "lock", "find"} /\ WorkOK(w)
      BY DEF CheckReferences, LockExternal, FindExisting, FindNothing, FindTarget,
             At, TInv, WorkInv
    <2>. QED  BY <2>1, WorkTyped
              DEF TInv, WorkOK, EInv, AllInformed, Informed, NothingStaged, Mutating
  <1>2. UNCHANGED <<rows, archived>>
    BY DEF CheckReferences, LockExternal, FindExisting, FindNothing, FindTarget
  <1>3. ASSUME NEW s \in {"lock", "find", "write"}, NEW t,
               work' = [work EXCEPT ![w].pc = s, ![w].target = t],
               Creating(w) \/ (s = "write" /\ r.operation = "update") =>
                   Usable(p, r.command, archived) /\ RefShares(r.command) \subseteq held'[w],
               s = "write" /\ t # NoTx =>
                   /\ Usable(p, rows[t].command, archived)
                   /\ RefShares(rows[t].command) \subseteq held'[w]
                   /\ rows[t].owner = p.integration
                   /\ RowLock(t) \in held'[w]
                   /\ r.externalId # NoExt
                   /\ rows[t].externalId = r.externalId
        PROVE  EInv'
    <2>1. /\ work'[w].pc = s /\ work'[w].target = t
          /\ work'[w].principal = p /\ work'[w].request = r
          /\ work'[w].row = NoRow /\ ~work'[w].replayed
      <3>1. work'[w] = [work[w] EXCEPT !.pc = s, !.target = t]
        BY <1>3 DEF TInv, TypeOK
      <3>. QED  BY <1>1, <3>1 DEF Work
    <2>2. ~Mutating(w)'
      BY <2>1 DEF Mutating
    <2>3. BodyHeld(w)'
      <3>. SUFFICES ASSUME Checked(w)' PROVE Holds(w, work[w].request.command)'
        BY DEF BodyHeld
      <3>1. Creating(w) \/ (s = "write" /\ r.operation = "update")
        BY <2>1, <2>2, Zenon DEF Checked, Creating
      <3>2. Usable(p, r.command, archived) /\ RefShares(r.command) \subseteq held'[w]
        BY <1>3, <3>1
      <3>. QED  BY <1>2, <2>1, <3>2 DEF Holds, RefShares, RefShare
    <2>4. TargetHeld(w)'
      <3>. SUFFICES ASSUME Found(w)' PROVE TargetHeld(w)'
        BY DEF TargetHeld
      <3>1. s = "write" /\ t # NoTx
        BY <2>1, <2>2 DEF Found
      <3>. QED  BY <1>2, <1>3, <2>1, <3>1 DEF TargetHeld, Holds, RefShares, RefShare, RowLock
    <2>5. NothingStaged(w)' /\ Outcome(w)' /\ RecordStaged(w)' /\ ~Inserting(w)'
      BY <2>1, <2>2 DEF NothingStaged, Outcome, RecordStaged, Inserting
    <2>. QED  BY <1>2, <2>1, <2>3, <2>4, <2>5, AdvanceInformed
  <1>4. CASE CheckReferences(w)
    <2>1. /\ Usable(p, r.command, archived)
          /\ Creating(w)
          /\ work' = [work EXCEPT ![w].pc =
                        IF r.externalId = NoExt THEN "write" ELSE "lock"]
          /\ held' = [held EXCEPT ![w] = @ \cup RefShares(r.command)]
      BY <1>1, <1>4 DEF CheckReferences, Go, Take, At, WorkOK
    <2>2. RefShares(r.command) \subseteq held'[w]
      BY <2>1 DEF TInv, TypeOK
    <2>. DEFINE s == IF r.externalId = NoExt THEN "write" ELSE "lock"
    <2>3. work' = [work EXCEPT ![w].pc = s, ![w].target = NoTx]
      BY <1>1, <2>1 DEF TInv, TypeOK, Work
    <2>4. s \in {"lock", "find", "write"}
      OBVIOUS
    <2>. HIDE DEF s
    <2>. QED  BY <1>3, <2>1, <2>2, <2>3, <2>4
  <1>5. CASE LockExternal(w)
    <2>1. /\ work' = [work EXCEPT ![w].pc = "find"]
          /\ held[w] \subseteq held'[w]
          /\ Creating(w)
          /\ Holds(w, r.command)
      BY <1>1, <1>5
      DEF LockExternal, Go, Take, At, WorkOK, BodyHeld, Checked, TInv, TypeOK
    <2>2. work' = [work EXCEPT ![w].pc = "find", ![w].target = NoTx]
      BY <1>1, <2>1 DEF TInv, TypeOK, Work
    <2>. QED  BY <1>3, <2>1, <2>2 DEF Holds
  <1>6. CASE FindNothing(w)
    <2>1. /\ work' = [work EXCEPT ![w].pc = "write"]
          /\ held[w] \subseteq held'[w]
          /\ Creating(w)
          /\ work[w].pc = "find"
      BY <1>6 DEF FindNothing, Go, Creating, At
    <2>2. work' = [work EXCEPT ![w].pc = "write", ![w].target = NoTx]
      BY <1>1, <2>1 DEF TInv, TypeOK, Work
    <2>3. Holds(w, r.command)
      BY <1>1, <2>1 DEF BodyHeld, Checked
    <2>. QED  BY <1>3, <2>1, <2>2, <2>3 DEF Holds
  <1>7. CASE FindExisting(w)
    <2>1. PICK t \in Owned(rows, p.integration, r.externalId) :
            /\ Usable(p, rows[t].command, archived)
            /\ work' = [work EXCEPT ![w].pc = "write", ![w].target = t]
            /\ Take(w, {RowLock(t)} \cup RefShares(rows[t].command))
      BY <1>7 DEF FindExisting
    <2>2. {RowLock(t)} \cup RefShares(rows[t].command) \cup held[w] \subseteq held'[w]
      BY <2>1 DEF Take, TInv, TypeOK
    <2>3. Creating(w) /\ work[w].pc = "find"
      BY <1>7 DEF FindExisting, Creating, At
    <2>4. Holds(w, r.command) /\ r.externalId # NoExt
      BY <1>1, <2>3, ConstantsAssumption DEF BodyHeld, Checked, WorkOK
    <2>. QED  BY <1>3, <2>1, <2>2, <2>3, <2>4 DEF Holds, Owned
  <1>8. CASE FindTarget(w)
    <2>1. PICK t \in OwnedActive(rows, p.integration, r.externalId) :
            /\ Usable(p, rows[t].command, archived)
            /\ r.operation = "update" => Usable(p, r.command, archived)
            /\ work' = [work EXCEPT ![w].pc = "write", ![w].target = t]
            /\ Take(w, {RowLock(t)} \cup RefShares(rows[t].command)
                         \cup IF r.operation = "update" THEN RefShares(r.command) ELSE {})
      BY <1>8 DEF FindTarget
    <2>2. /\ {RowLock(t)} \cup RefShares(rows[t].command) \subseteq held'[w]
          /\ r.operation = "update" => RefShares(r.command) \subseteq held'[w]
      BY <2>1 DEF Take, TInv, TypeOK
    <2>3. ~Creating(w) /\ work[w].pc = "find"
      BY <1>8 DEF FindTarget, Creating, At
    <2>4. r.externalId # NoExt
      BY <1>1, <2>3, ConstantsAssumption DEF WorkOK
    <2>. QED  BY <1>3, <2>1, <2>2, <2>3, <2>4 DEF OwnedActive, Owned
  <1>. QED  BY <1>4, <1>5, <1>6, <1>7, <1>8

(* What an insert that is not committed yet has staged.                    *)
LEMMA InsertStaged ==
    ASSUME EInv, NEW v \in Workers, Inserting(v)
    PROVE  StagedCreate(v) /\ Mutating(v) /\ Creating(v) /\ work[v].pc = "commit"
  <1>1. work[v].pc = "commit" /\ Mutating(v) /\ Creating(v) /\ work[v].row # NoRow
    BY DEF Inserting, Mutating
  <1>2. Outcome(v)
    BY <1>1 DEF EInv, AllInformed, Informed
  <1>. QED  BY <1>1, <1>2 DEF Outcome, StagedNothing, Creating

(* Staging: the result fits the rows as they are, and says what the rows   *)
(* will be.                                                                *)
LEMMA StageInformed ==
    ASSUME TInv, KInv, EInv, NEW w \in Workers, ~Refuse(w),
           WriteCreated(w) \/ WriteAcknowledged(w) \/ WriteUpdated(w) \/ WriteDeleted(w),
           NEW t \in TxIds, NEW row, NEW command, NEW response,
           Stage(w, t, row, command, response),
           command = IF row = NoRow THEN rows[t].command ELSE row.command,
           rows[t] # NoRow => t = work[w].target,
           work'[w].target = t /\ work'[w].row = row /\ work'[w].response = response
             /\ work'[w].request = work[w].request
             /\ work'[w].principal = work[w].principal
             /\ UNCHANGED rows /\ Mutating(w)'
             => Outcome(w)',
           Creating(w) /\ row # NoRow =>
               \A v \in Workers \ {w} : Inserting(v) =>
                   /\ work[v].target # t
                   /\ \/ work[v].request.externalId = NoExt
                      \/ work[v].request.externalId # work[w].request.externalId
                      \/ work[v].principal.integration # work[w].principal.integration
    PROVE  EInv'
  <1>1. /\ work[w] \in Work /\ work[w].request \in Requests /\ now \in Nat
        /\ work[w].pc = "write" /\ BodyHeld(w) /\ TargetHeld(w)
        /\ ~work[w].replayed /\ WorkOK(w) /\ KeyOK(w)
    <2>1. work[w].pc = "write"
      BY DEF Stage, At
    <2>. QED  BY <2>1, WorkTyped, ConstantsAssumption
              DEF TInv, TypeOK, WorkInv, KInv, ClaimsOK, EInv, AllInformed, Informed,
                  NothingStaged
  <1>. DEFINE record == Completed(w, t, command, response)
  <1>2. /\ work'[w] = [work[w] EXCEPT !.pc = "commit", !.target = t, !.row = row,
                                      !.record = record, !.response = response]
        /\ UNCHANGED <<rows, archived, held>>
    BY DEF Stage, TInv, TypeOK
  <1>. HIDE DEF record
  <1>3. /\ work'[w].pc = "commit" /\ work'[w].target = t /\ work'[w].row = row
        /\ work'[w].record = record /\ work'[w].response = response
        /\ work'[w].request = work[w].request /\ work'[w].principal = work[w].principal
        /\ work'[w].claimedAt = work[w].claimedAt /\ ~work'[w].replayed
    BY <1>1, <1>2 DEF Work
  <1>4. Mutating(w)'
    BY <1>3 DEF Mutating
  <1>5. Outcome(w)'
    BY <1>2, <1>3, <1>4
  <1>6. BodyHeld(w)'
    <2>. SUFFICES ASSUME Checked(w)' PROVE Holds(w, work[w].request.command)'
      BY DEF BodyHeld
    <2>1. Checked(w)
      <3>1. work'[w].request.operation \in {"create", "update"}
        BY DEF Checked, Creating
      <3>. QED  BY <1>1, <1>3, <3>1 DEF Checked, Creating
    <2>2. Holds(w, work[w].request.command)
      BY <1>1, <2>1 DEF BodyHeld
    <2>. QED  BY <1>2, <1>3, <2>2 DEF Holds, RefShares, RefShare
  <1>7. TargetHeld(w)'
    <2>. SUFFICES ASSUME Found(w)' PROVE TargetHeld(w)'
      BY DEF TargetHeld
    <2>1. t # NoTx /\ rows[t] # NoRow
      BY <1>2, <1>3 DEF Found
    <2>2. t = work[w].target /\ Found(w)
      BY <1>1, <2>1 DEF Found
    <2>3. /\ Holds(w, rows[t].command)
          /\ rows[t].owner = work[w].principal.integration
          /\ RowLock(t) \in held[w]
          /\ work[w].request.externalId # NoExt
          /\ rows[t].externalId = work[w].request.externalId
      BY <1>1, <2>2 DEF TargetHeld
    <2>. QED  BY <1>2, <1>3, <2>3 DEF TargetHeld, Holds, RefShares, RefShare, RowLock
  <1>8. NothingStaged(w)'
    BY <1>3, <1>4 DEF NothingStaged
  <1>9. RecordStaged(w)'
    <2>. SUFFICES ASSUME Keyed(w) PROVE RecordStaged(w)'
      BY <1>3 DEF RecordStaged, Keyed
    <2>1. work[w].request.key # NoKey /\ Claimant(w)
      BY <1>1, ConstantsAssumption DEF Keyed, Claimant, PastClaim
    <2>2. record = Result(work[w].request, t, IF row = NoRow THEN rows[t] ELSE row,
                          response, now)
      BY <2>1 DEF record, Completed, Result
    <2>3. record.completedAt = now
      BY <2>2 DEF Result
    <2>4. work[w].claimedAt <= now
      BY <1>1, <2>1 DEF KeyOK
    <2>5. After(w)' = IF row = NoRow THEN rows[t] ELSE row
      BY <1>2, <1>3 DEF After
    <2>. QED  BY <1>3, <2>2, <2>3, <2>4, <2>5 DEF RecordStaged, Result, Fingerprint
  <1>10. Inserting(w)' => \A v \in Workers \ {w} : Inserting(v) => Apart(v, w)'
    <2>. SUFFICES ASSUME Inserting(w)', NEW v \in Workers \ {w}, Inserting(v)
                  PROVE  Apart(v, w)'
      OBVIOUS
    <2>1. Creating(w) /\ row # NoRow
      BY <1>3 DEF Inserting, Creating
    <2>2. work'[v] = work[v]
      BY DEF Stage, TInv, TypeOK
    <2>. QED  BY <1>3, <2>1, <2>2 DEF Apart
  <1>. QED  BY <1>2, <1>3, <1>5, <1>6, <1>7, <1>8, <1>9, <1>10, AdvanceInformed

(* The four mutations.                                                     *)
LEMMA WriteInformed ==
    ASSUME TInv, KInv, EInv, NEW w \in Workers, ~Refuse(w),
           WriteCreated(w) \/ WriteAcknowledged(w) \/ WriteUpdated(w) \/ WriteDeleted(w)
    PROVE  EInv'
  <1>. DEFINE p == work[w].principal
              r == work[w].request
              target == work[w].target
  <1>1. /\ work[w] \in Work /\ r \in Requests /\ p.integration \in Integrations
        /\ work[w].pc = "write" /\ WorkOK(w)
    <2>1. work[w].pc = "write"
      BY DEF WriteCreated, WriteAcknowledged, WriteUpdated, WriteDeleted, At
    <2>. QED  BY <2>1, WorkTyped DEF TInv, WorkInv
  <1>2. target # NoTx => target \in TxIds /\ rows[target] # NoRow /\ rows[target] \in Row
    BY <1>1 DEF Work, WorkOK, Nullable, TInv, TypeOK
  <1>3. CASE WriteCreated(w)
    <2>. DEFINE row == CreatedRow(p, r)
                response == [status |-> 201, command |-> r.command, version |-> 1]
    <2>1. PICK t \in TxIds :
            /\ Fresh(t)
            /\ Stage(w, t, row, r.command, response)
      BY <1>3 DEF WriteCreated
    <2>2. /\ Creating(w)
          /\ IndexAdmits(p.integration, r.externalId)
          /\ ~InsertPending(w, p.integration, r.externalId)
      BY <1>3 DEF WriteCreated, Creating
    <2>3. row \in Row /\ row # NoRow /\ row.command = r.command
      <3>1. r.command \in Commands /\ 1 \in 1 .. MaxVersion
        BY <1>1, <2>2, RequestFacts, ConstantsAssumption DEF Creating
      <3>2. row \in Row
        BY <1>1, <3>1, RequestFacts DEF CreatedRow, Row, Nullable
      <3>. QED  BY <3>2, AbsenceAssumption DEF CreatedRow
    <2>4. rows[t] = NoRow
      BY <2>1 DEF Fresh
    <2>5. ASSUME NEW v \in Workers \ {w}, Inserting(v)
          PROVE  /\ work[v].target # t
                 /\ \/ work[v].request.externalId = NoExt
                    \/ work[v].request.externalId # r.externalId
                    \/ work[v].principal.integration # p.integration
      <3>1. StagedCreate(v) /\ Creating(v) /\ work[v].pc = "commit" /\ work[v].row # NoRow
        BY <2>5, InsertStaged DEF Inserting
      <3>2. work[v].target # t
        BY <2>1, <3>1 DEF Fresh, At
      <3>3. work[v].row.owner = work[v].principal.integration
            /\ work[v].row.externalId = work[v].request.externalId
        BY <3>1 DEF StagedCreate, CreatedRow
      <3>. QED  BY <2>2, <3>1, <3>2, <3>3 DEF InsertPending, At, Creating
    <2>6. ASSUME work'[w].target = t, work'[w].row = row, work'[w].response = response,
                 work'[w].request = r, work'[w].principal = p, UNCHANGED rows
          PROVE  Outcome(w)'
      <3>1. Creating(w)'
        BY <2>2, <2>6 DEF Creating
      <3>2. r.externalId # NoExt => Owned(rows', p.integration, r.externalId) = {}
        BY <2>2, <2>6 DEF IndexAdmits
      <3>3. StagedCreate(w)'
        BY <2>3, <2>4, <2>6, <3>2 DEF StagedCreate, CreatedRow
      <3>. QED  BY <3>1, <3>3 DEF Outcome
    <2>. HIDE DEF row, response
    <2>. QED  BY <1>3, <2>1, <2>3, <2>4, <2>5, <2>6, StageInformed
  <1>4. CASE WriteAcknowledged(w)
    <2>. DEFINE response == [status |-> 200, command |-> NoCommand, version |-> 0]
    <2>1. /\ Stage(w, target, NoRow, rows[target].command, response)
          /\ Creating(w)
          /\ target \in TxIds /\ rows[target] # NoRow
      BY <1>2, <1>4 DEF WriteAcknowledged, Creating
    <2>2. ASSUME work'[w].target = target, work'[w].row = NoRow,
                 work'[w].response = response, work'[w].request = r, UNCHANGED rows
          PROVE  Outcome(w)'
      <3>1. Creating(w)' /\ StagedNothing(w)'
        BY <2>1, <2>2 DEF Creating, StagedNothing
      <3>. QED  BY <3>1 DEF Outcome
    <2>. HIDE DEF response
    <2>. QED  BY <1>4, <2>1, <2>2, StageInformed
  <1>5. CASE WriteUpdated(w)
    <2>. DEFINE row == UpdatedRow(rows[target], r.command)
                response == [status |-> 200, command |-> r.command,
                             version |-> rows[target].version + 1]
    <2>1. /\ Stage(w, target, row, r.command, response)
          /\ r.operation = "update"
          /\ ~rows[target].deleted /\ rows[target].version = r.expectedVersion
      BY <1>5 DEF WriteUpdated, VersionMatches
    <2>2. target \in TxIds /\ rows[target] # NoRow /\ rows[target] \in Row
      BY <1>1, <1>2, <2>1, ConstantsAssumption DEF WorkOK, Creating
    <2>3. row # NoRow /\ row.command = r.command
      <3>1. rows[target].version < MaxVersion /\ r.command \in Commands
        BY <1>1, <2>1, <2>2, RequestFacts, ConstantsAssumption DEF Row
      <3>2. row \in Row
        BY <2>2, <3>1, NextVersionTyped
      <3>. QED  BY <2>2, <3>2, AbsenceAssumption DEF UpdatedRow, Row
    <2>4. ~Creating(w)
      BY <2>1 DEF Creating
    <2>5. ASSUME work'[w].target = target, work'[w].row = row,
                 work'[w].response = response, work'[w].request = r, UNCHANGED rows
          PROVE  Outcome(w)'
      <3>1. Expected(w)'
        BY <2>1, <2>2, <2>5 DEF Expected
      <3>2. StagedUpdate(w)'
        BY <2>1, <2>3, <2>5 DEF StagedUpdate, UpdatedRow
      <3>. QED  BY <2>1, <2>5, <3>1, <3>2 DEF Outcome
    <2>. HIDE DEF row, response
    <2>. QED  BY <1>5, <2>1, <2>2, <2>3, <2>4, <2>5, StageInformed
  <1>6. CASE WriteDeleted(w)
    <2>. DEFINE row == DeletedRow(rows[target])
                response == [status |-> 204, command |-> NoCommand, version |-> 0]
    <2>1. /\ Stage(w, target, row, rows[target].command, response)
          /\ r.operation = "delete"
          /\ ~rows[target].deleted /\ rows[target].version = r.expectedVersion
      BY <1>6 DEF WriteDeleted, VersionMatches
    <2>2. target \in TxIds /\ rows[target] # NoRow /\ rows[target] \in Row
      BY <1>1, <1>2, <2>1, ConstantsAssumption DEF WorkOK, Creating
    <2>3. row # NoRow /\ row.command = rows[target].command
      <3>1. rows[target].version < MaxVersion
        BY <1>1, <2>1, <2>2, RequestFacts, ConstantsAssumption DEF Row
      <3>2. row \in Row
        BY <2>2, <3>1, NextVersionTyped
      <3>. QED  BY <2>2, <3>2, AbsenceAssumption DEF DeletedRow, Row
    <2>4. ~Creating(w)
      BY <2>1 DEF Creating
    <2>5. ASSUME work'[w].target = target, work'[w].row = row,
                 work'[w].response = response, work'[w].request = r, UNCHANGED rows
          PROVE  Outcome(w)'
      <3>1. Expected(w)'
        BY <2>1, <2>2, <2>5 DEF Expected
      <3>2. StagedDelete(w)'
        BY <2>1, <2>5 DEF StagedDelete, DeletedRow
      <3>. QED  BY <2>1, <2>5, <3>1, <3>2 DEF Outcome
    <2>. HIDE DEF row, response
    <2>. QED  BY <1>6, <2>1, <2>2, <2>3, <2>4, <2>5, StageInformed
  <1>. QED  BY <1>3, <1>4, <1>5, <1>6

(* A stored answer, given under locks on the row and its references.       *)
LEMMA ReplayInformed ==
    ASSUME TInv, EInv, NEW w \in Workers, Replay(w), ~Refuse(w)
    PROVE  EInv'
  <1>. DEFINE p == work[w].principal
              record == work[w].record
              t == record.targetTransactionId
              kept == {RefShare(x) : x \in ReferencesOf(record.retainedCategoryId,
                                                        record.retainedPaymentSourceId)}
              x == [work[w] EXCEPT !.pc = "commit", !.target = t,
                      !.response = record.response, !.replayed = TRUE]
  <1>1. /\ work[w] \in Work /\ work[w].pc = "replay"
        /\ HasScope(w) /\ NothingStaged(w) /\ ReplayBacked(w)
    BY WorkTyped DEF Replay, At, TInv, EInv, AllInformed, Informed
  <1>2. /\ work' = [work EXCEPT ![w] = x]
        /\ rows[t].owner = p.integration
        /\ Usable(p, rows[t].command, archived)
        /\ MayRepeat(p, record)
        /\ Take(w, {RowShare(t)} \cup RefShares(rows[t].command) \cup kept)
        /\ UNCHANGED <<rows, records, archived, completions>>
    BY DEF Replay
  <1>3. /\ \A v \in Workers \ {w} : held'[v] = held[v]
        /\ {RowShare(t)} \cup RefShares(rows[t].command) \subseteq held'[w]
        /\ kept \subseteq held'[w]
    BY <1>2 DEF Take, TInv, TypeOK
  <1>4. /\ x.pc = "commit" /\ x.target = t /\ x.replayed /\ x.response = record.response
        /\ x.principal = p /\ x.request = work[w].request /\ x.row = NoRow
    BY <1>1 DEF Work, NothingStaged, Mutating
  <1>. HIDE DEF x, t
  <1>5. work'[w] = x
    BY <1>2 DEF TInv, TypeOK
  <1>6. ~Mutating(w)' /\ ~Checked(w)' /\ ~Claimant(w)' /\ ~Inserting(w)'
    BY <1>4, <1>5 DEF Mutating, Checked, Claimant, Inserting
  <1>7. TargetHeld(w)'
    BY <1>2, <1>3, <1>4, <1>5 DEF TargetHeld, Holds, RefShares, RefShare, RowShare
  <1>8. ReplayBacked(w)'
    BY <1>1, <1>2, <1>4, <1>5 DEF ReplayBacked, Backed, t
  <1>9. ShownHeld(w)'
    <2>. DEFINE c == record.response.command
    <2>1. ASSUME c # NoCommand
          PROVE  Usable(p, c, archived) /\ RefShares(c) \subseteq held'[w]
      <3>1. /\ TypeMatches(c)
            /\ record.retainedCategoryId = c.categoryId
            /\ record.retainedPaymentSourceId = c.paymentSourceId
        BY <1>1, <2>1 DEF ReplayBacked, KeepsShown
      <3>2. Usable(p, c, archived)
        BY <1>2, <3>1 DEF MayRepeat, Usable
      <3>3. RefShares(c) = kept
        BY <3>1 DEF RefShares
      <3>. QED  BY <1>3, <3>2, <3>3
    <2>2. work'[w].response.command = c /\ work'[w].principal = p /\ archived' = archived
      BY <1>2, <1>4, <1>5
    <2>. HIDE DEF c
    <2>. QED  BY <2>1, <2>2 DEF ShownHeld, Holds
  <1>10. Informed(w)'
    BY <1>1, <1>4, <1>5, <1>6, <1>7, <1>8, <1>9
    DEF Informed, HasScope, BodyHeld, NothingStaged, Outcome, RecordStaged, ClaimStands
  <1>. QED  BY <1>2, <1>3, <1>6, <1>10, LocalStep

(***************************************************************************)
(* Writing a row.                                                          *)
(***************************************************************************)
Keeps(t, row) ==
    rows[t] # NoRow =>
        row.owner = rows[t].owner /\ row.externalId = rows[t].externalId

(* An external id stays with its row when the row that is written keeps it,*)
(* or is new and has one that no row has.                                  *)
LEMMA IdsStay ==
    ASSUME TypeOK, ExternalIdNeverReused, NEW t \in TxIds, NEW row,
           rows' = [rows EXCEPT ![t] = row], Keeps(t, row),
           rows[t] = NoRow /\ row.externalId # NoExt =>
               Owned(rows, row.owner, row.externalId) = {}
    PROVE  ExternalIdNeverReused'
  <1>. SUFFICES ASSUME NEW s \in TxIds, NEW u \in TxIds, s # u,
                       rows'[s] # NoRow, rows'[u] # NoRow,
                       rows'[s].owner = rows'[u].owner,
                       rows'[s].externalId = rows'[u].externalId,
                       rows'[s].externalId # NoExt
                PROVE  FALSE
    BY DEF ExternalIdNeverReused
  <1>1. /\ rows'[t] = row
        /\ \A y \in TxIds \ {t} : rows'[y] = rows[y]
    BY DEF TypeOK
  <1>2. ASSUME NEW y \in TxIds \ {t}, rows[y] # NoRow, rows[y].owner = row.owner,
               rows[y].externalId = row.externalId, row.externalId # NoExt
        PROVE  FALSE
    <2>1. CASE rows[t] = NoRow
      BY <1>2, <2>1 DEF Owned
    <2>2. CASE rows[t] # NoRow
      BY <1>2, <2>2 DEF Keeps, ExternalIdNeverReused
    <2>. QED  BY <2>1, <2>2
  <1>3. CASE s # t /\ u # t
    BY <1>1, <1>3 DEF ExternalIdNeverReused
  <1>4. CASE s = t
    BY <1>1, <1>2, <1>4
  <1>5. CASE u = t
    BY <1>1, <1>2, <1>5
  <1>. QED  BY <1>3, <1>4, <1>5

(* An identity that no row has stays free.                                 *)
LEMMA IdsFree ==
    ASSUME TypeOK, NEW t \in TxIds, NEW row, rows' = [rows EXCEPT ![t] = row],
           Keeps(t, row), NEW i, NEW e, Owned(rows, i, e) = {},
           rows[t] = NoRow => row.owner # i \/ row.externalId # e
    PROVE  Owned(rows', i, e) = {}
  <1>. SUFFICES ASSUME NEW s \in Owned(rows', i, e) PROVE FALSE
    OBVIOUS
  <1>1. s \in TxIds /\ rows'[s] # NoRow /\ rows'[s].owner = i /\ rows'[s].externalId = e
    BY DEF Owned
  <1>2. CASE s # t
    BY <1>1, <1>2 DEF Owned, TypeOK
  <1>3. CASE s = t
    <2>1. row.owner = i /\ row.externalId = e
      BY <1>1, <1>3 DEF TypeOK
    <2>2. rows[t] # NoRow
      BY <2>1
    <2>. QED  BY <2>1, <2>2 DEF Keeps, Owned
  <1>. QED  BY <1>2, <1>3

(* Whoever has a target that is in the table holds a lock on its row.      *)
LEMMA TargetLocked ==
    ASSUME TInv, EInv, NEW v \in Workers, work[v].pc \in {"write", "commit"},
           work[v].target \in TxIds, ~Inserting(v)
    PROVE  /\ rows[work[v].target] # NoRow
           /\ \/ RowLock(work[v].target) \in held[v]
              \/ RowShare(work[v].target) \in held[v]
  <1>1. WorkOK(v) /\ TargetHeld(v) /\ NothingStaged(v) /\ Outcome(v)
    BY DEF TInv, WorkInv, EInv, AllInformed, Informed
  <1>2. work[v].target # NoTx
    BY ConstantsAssumption
  <1>3. rows[work[v].target] # NoRow
    <2>1. CASE work[v].pc = "write"
      BY <1>1, <1>2, <2>1 DEF WorkOK
    <2>2. CASE ~Mutating(v) /\ work[v].pc = "commit"
      BY <1>1, <2>2 DEF WorkOK, NothingStaged
    <2>3. CASE Mutating(v)
      BY <1>1, <2>3 DEF Outcome, StagedCreate, StagedNothing, Expected, Inserting
    <2>. QED  BY <2>1, <2>2, <2>3
  <1>. QED  BY <1>1, <1>2, <1>3 DEF TargetHeld, Found

(* A commit: the row it writes is locked, or new, and so is its key; hence *)
(* nobody else's knowledge is touched.                                     *)
(* The body that an answer shows is that of the request, which is written. *)
LEMMA ShownIsWritten ==
    ASSUME TInv, EInv, NEW w \in Workers, Mutating(w),
           work[w].response.command # NoCommand
    PROVE  /\ After(w).command = work[w].response.command
           /\ Usable(work[w].principal, work[w].response.command, archived)
           /\ TypeMatches(work[w].response.command)
  <1>. DEFINE c == work[w].request.command
  <1>1. BodyHeld(w) /\ Outcome(w)
    BY DEF EInv, AllInformed, Informed, Mutating
  <1>2. \/ Creating(w) /\ StagedCreate(w)
        \/ work[w].request.operation = "update" /\ Expected(w) /\ StagedUpdate(w)
    BY <1>1 DEF Outcome, StagedNothing, StagedDelete
  <1>3. Usable(work[w].principal, c, archived)
    BY <1>1, <1>2 DEF BodyHeld, Checked, Holds
  <1>4. CASE Creating(w) /\ StagedCreate(w)
    <2>1. work[w].response.command = c /\ work[w].row # NoRow /\ work[w].row.command = c
      BY <1>4 DEF StagedCreate, CreatedRow
    <2>. QED  BY <1>3, <2>1 DEF After, Usable
  <1>5. CASE Expected(w) /\ StagedUpdate(w)
    <2>1. work[w].target \in TxIds /\ work[w] \in Work /\ work[w].request \in Requests
      BY WorkTyped DEF TInv, WorkInv, WorkOK, Mutating
    <2>2. rows[work[w].target] \in Row
      BY <1>5, <2>1 DEF Expected, TInv, TypeOK, Nullable
    <2>3. work[w].response.command = c /\ work[w].row.command = c
      BY <1>5, <2>2 DEF StagedUpdate, UpdatedRow, Row
    <2>4. After(w).command = c
      BY <1>5, <2>3 DEF After, StagedUpdate
    <2>. QED  BY <1>3, <2>3, <2>4 DEF Usable
  <1>. QED  BY <1>2, <1>4, <1>5

LEMMA CommitInformed ==
    ASSUME TInv, LocksExclusive, KInv, EInv, NEW w \in Workers, Commit(w)
    PROVE  EInv'
  <1>. DEFINE p == work[w].principal
              r == work[w].request
              t == work[w].target
              row == work[w].row
              keyed == r.key # NoKey /\ ~work[w].replayed
  <1>1. /\ work[w] \in Work /\ r \in Requests /\ p.integration \in Integrations
        /\ work[w].pc = "commit" /\ WorkOK(w) /\ KeyOK(w) /\ t \in TxIds
        /\ TargetHeld(w) /\ NothingStaged(w) /\ Outcome(w) /\ RecordStaged(w)
    <2>1. work[w].pc = "commit"
      BY DEF Commit, At
    <2>. QED  BY <2>1, WorkTyped DEF TInv, WorkInv, WorkOK, KInv, ClaimsOK,
              EInv, AllInformed, Informed
  <1>2. /\ rows' = IF row = NoRow THEN rows ELSE [rows EXCEPT ![t] = row]
        /\ records' = IF keyed
                      THEN [records EXCEPT ![p.integration][r.key] = work[w].record]
                      ELSE records
        /\ archived' = archived
        /\ work'[w].pc = "idle"
        /\ \A v \in Workers \ {w} : work'[v] = work[v] /\ held'[v] = held[v]
        /\ completions \subseteq completions'
    BY IdleNotWork DEF Commit, EndTransaction, TInv, TypeOK
  <1>3. row # NoRow =>
          \/ Inserting(w) /\ StagedCreate(w)
          \/ ~Creating(w) /\ Expected(w) /\ RowLock(t) \in held[w]
    <2>. SUFFICES ASSUME row # NoRow
                  PROVE  \/ Inserting(w) /\ StagedCreate(w)
                         \/ ~Creating(w) /\ Expected(w) /\ RowLock(t) \in held[w]
      OBVIOUS
    <2>1. Mutating(w)
      BY <1>1 DEF NothingStaged
    <2>2. CASE Creating(w)
      BY <1>1, <2>1, <2>2 DEF Outcome, Inserting, StagedNothing, Creating
    <2>3. CASE ~Creating(w)
      <3>1. Expected(w)
        BY <1>1, <2>1, <2>3 DEF Outcome
      <3>2. RowLock(t) \in held[w]
        BY <1>1, <2>1, <3>1, ConstantsAssumption
        DEF TargetHeld, Found, Expected, Mutating
      <3>. QED  BY <2>3, <3>1, <3>2
    <2>. QED  BY <2>2, <2>3
  <1>4. row # NoRow => Keeps(t, row)
    <2>1. Inserting(w) /\ StagedCreate(w) => Keeps(t, row)
      BY DEF StagedCreate, Keeps
    <2>2. row # NoRow /\ ~Creating(w) => Keeps(t, row)
      <3>. SUFFICES ASSUME row # NoRow, ~Creating(w) PROVE Keeps(t, row)
        OBVIOUS
      <3>1. Expected(w) /\ (StagedUpdate(w) \/ StagedDelete(w))
        BY <1>1 DEF NothingStaged, Outcome
      <3>2. rows[t] \in Row
        BY <1>1, <3>1 DEF Expected, TInv, TypeOK, Nullable
      <3>. QED  BY <3>1, <3>2 DEF StagedUpdate, StagedDelete, UpdatedRow, DeletedRow,
                                 Row, Keeps
    <2>. QED  BY <1>3, <2>1, <2>2
  <1>5. Inserting(w) /\ StagedCreate(w) =>
          /\ row.owner = p.integration /\ row.externalId = r.externalId
    BY DEF StagedCreate, CreatedRow
  <1>6. keyed => Claimant(w) /\ Mutating(w) /\ r.key \in Keys
    BY <1>1, RequestFacts DEF Claimant, PastClaim, Keyed, Mutating
  <1>7. ASSUME NEW v \in Workers \ {w} PROVE Informed(v)'
    <2>1. Informed(v) /\ WorkOK(v) /\ KeyOK(v)
      BY DEF EInv, AllInformed, TInv, WorkInv, KInv, ClaimsOK
    <2>2. \A c : Holds(v, c) => Usable(work[v].principal, c, archived')
      BY <1>2 DEF Holds
    <2>3. work[v].pc \in {"write", "commit"} /\ work[v].target \in TxIds =>
            rows'[work[v].target] = rows[work[v].target]
      <3>. SUFFICES ASSUME work[v].pc \in {"write", "commit"}, work[v].target = t,
                           row # NoRow
                    PROVE  FALSE
        BY <1>1, <1>2 DEF TInv, TypeOK
      <3>1. CASE Inserting(v)
        <4>1. StagedCreate(v)
          BY <3>1, InsertStaged
        <4>2. rows[t] = NoRow
          BY <4>1 DEF StagedCreate
        <4>3. Inserting(w)
          BY <1>3, <4>2 DEF Expected
        <4>. QED  BY <3>1, <4>3 DEF EInv, InsertsApart, Apart
      <3>2. CASE ~Inserting(v)
        <4>1. rows[t] # NoRow /\ (RowLock(t) \in held[v] \/ RowShare(t) \in held[v])
          BY <1>1, <3>2, TargetLocked
        <4>2. RowLock(t) \in held[w]
          BY <1>3, <4>1 DEF StagedCreate
        <4>. QED  BY <1>1, <4>1, <4>2 DEF LocksExclusive
      <3>. QED  BY <3>1, <3>2
    <2>4. Inserting(v) /\ work[v].request.externalId # NoExt =>
            Owned(rows', work[v].principal.integration, work[v].request.externalId) = {}
      <3>. SUFFICES ASSUME Inserting(v), work[v].request.externalId # NoExt
                    PROVE  Owned(rows', work[v].principal.integration,
                                 work[v].request.externalId) = {}
        OBVIOUS
      <3>1. Owned(rows, work[v].principal.integration, work[v].request.externalId) = {}
        BY InsertStaged DEF StagedCreate
      <3>2. CASE row = NoRow
        BY <1>2, <3>1, <3>2
      <3>3. CASE row # NoRow
        <4>1. rows[t] = NoRow => \/ row.owner # work[v].principal.integration
                                 \/ row.externalId # work[v].request.externalId
          <5>. SUFFICES ASSUME rows[t] = NoRow
                        PROVE  \/ row.owner # work[v].principal.integration
                               \/ row.externalId # work[v].request.externalId
            OBVIOUS
          <5>1. Inserting(w) /\ StagedCreate(w)
            BY <1>3, <3>3 DEF Expected
          <5>2. Apart(v, w)
            BY <5>1 DEF EInv, InsertsApart
          <5>. QED  BY <1>5, <5>1, <5>2 DEF Apart
        <4>2. rows' = [rows EXCEPT ![t] = row] /\ TypeOK
          BY <1>2, <3>3 DEF TInv
        <4>. HIDE DEF t, row
        <4>. QED  BY <1>1, <1>4, <3>1, <3>3, <4>1, <4>2, IdsFree
      <3>. QED  BY <3>2, <3>3
    <2>5. Claimant(v) => Claimable(Rec(v)', work[v].request, work[v].claimedAt)
      <3>. SUFFICES ASSUME Claimant(v)
                    PROVE  Claimable(Rec(v)', work[v].request, work[v].claimedAt)
        OBVIOUS
      <3>1. /\ work[v].pc # "idle" /\ work[v].request.key \in Keys
            /\ work[v].principal.integration \in Integrations
            /\ Claimable(Rec(v), work[v].request, work[v].claimedAt)
        <4>1. work[v].pc # "idle" /\ work[v].request.key \in Keys /\ ClaimStands(v)
          BY <2>1 DEF Claimant, PastClaim, Keyed, Informed
        <4>. QED  BY <4>1, WorkTyped DEF TInv, ClaimStands
      <3>2. KeyLock(work[v].principal.integration, work[v].request.key) \in held[v]
        BY <2>1 DEF KeyOK, Claimant
      <3>3. keyed => KeyLock(p.integration, r.key) \in held[w]
        BY <1>1, <1>6 DEF KeyOK, Claimant
      <3>4. keyed => \/ work[v].principal.integration # p.integration
                     \/ work[v].request.key # r.key
        BY <1>1, <1>6, <3>2, <3>3 DEF LocksExclusive
      <3>5. Rec(v)' = Rec(v)
        BY <1>1, <1>2, <1>6, <3>1, <3>4 DEF Rec, TInv, TypeOK
      <3>. QED  BY <3>1, <3>5
    <2>. QED  BY <1>2, <2>1, <2>2, <2>3, <2>4, <2>5, Bystander
  <1>8. Informed(w)'
    BY <1>2 DEF Informed
  <1>9. InsertsApart'
    <2>1. ~Inserting(w)'
      BY <1>2 DEF Inserting, Mutating
    <2>2. \A v \in Workers \ {w} : Inserting(v)' <=> Inserting(v)
      BY <1>2 DEF Inserting, Mutating, Creating
    <2>3. \A u, v \in Workers \ {w} : Apart(u, v)' <=> Apart(u, v)
      BY <1>2 DEF Apart
    <2>. QED  BY <2>1, <2>2, <2>3, Zenon DEF EInv, InsertsApart
  <1>10. RecordsBacked'
    <2>. SUFFICES ASSUME NEW i \in Integrations, NEW k \in Keys,
                         records'[i][k] # NoRecord, records'[i][k].status = "completed"
                  PROVE  /\ \E c \in completions' :
                               /\ c.integration = i
                               /\ c.key = k
                               /\ c.requestFingerprint = records'[i][k].requestFingerprint
                               /\ c.response = records'[i][k].response
                               /\ c.target = records'[i][k].targetTransactionId
                         /\ KeepsShown(records'[i][k])
      BY DEF RecordsBacked, Backed, KeepsShown, TypeMatches
    <2>1. CASE keyed /\ i = p.integration /\ k = r.key
      <3>1. records'[i][k] = work[w].record
        BY <1>2, <2>1 DEF TInv, TypeOK
      <3>2. /\ work[w].record.requestFingerprint = Fingerprint(r)
            /\ work[w].record.response = work[w].response
            /\ work[w].record.targetTransactionId = t
        <4>1. work[w].record = Result(r, t, After(w), work[w].response,
                                      work[w].record.completedAt)
          BY <1>1, <1>6, <2>1 DEF RecordStaged, Keyed
        <4>2. \A y, at : LET res == Result(r, t, y, work[w].response, at) IN
                 /\ res.requestFingerprint = Fingerprint(r)
                 /\ res.response = work[w].response
                 /\ res.targetTransactionId = t
          BY DEF Result
        <4>. QED  BY <4>1, <4>2
      <3>3. \E c \in completions' :
              /\ c.integration = i /\ c.key = k
              /\ c.requestFingerprint = Fingerprint(r)
              /\ c.response = work[w].response /\ c.target = t
        <4>. DEFINE c == [integration |-> p.integration, key |-> r.key,
                          requestFingerprint |-> Fingerprint(r),
                          claimedAt |-> work[w].claimedAt,
                          completedAt |-> work[w].record.completedAt,
                          response |-> work[w].response,
                          target |-> t, version |-> rows'[t].version]
        <4>1. c \in completions'
          BY <2>1 DEF Commit
        <4>2. /\ c.integration = i /\ c.key = k
              /\ c.requestFingerprint = Fingerprint(r)
              /\ c.response = work[w].response /\ c.target = t
          BY <2>1
        <4>. HIDE DEF c
        <4>. QED  BY <4>1, <4>2
      <3>4. KeepsShown(work[w].record)
        <4>1. work[w].record = Result(r, t, After(w), work[w].response,
                                      work[w].record.completedAt)
          BY <1>1, <1>6, <2>1 DEF RecordStaged, Keyed
        <4>2. \A y, at : LET res == Result(r, t, y, work[w].response, at) IN
                 /\ res.response = work[w].response
                 /\ res.retainedCategoryId = y.command.categoryId
                 /\ res.retainedPaymentSourceId = y.command.paymentSourceId
          BY DEF Result
        <4>3. work[w].response.command # NoCommand =>
                After(w).command = work[w].response.command
                  /\ TypeMatches(work[w].response.command)
          BY <1>1, <2>1, ShownIsWritten DEF Mutating
        <4>. QED  BY <4>1, <4>2, <4>3 DEF KeepsShown
      <3>. QED  BY <3>1, <3>2, <3>3, <3>4
    <2>2. CASE ~(keyed /\ i = p.integration /\ k = r.key)
      <3>1. records'[i][k] = records[i][k]
        BY <1>1, <1>2, <1>6, <2>2 DEF TInv, TypeOK
      <3>2. Backed(records[i][k], i, k) /\ KeepsShown(records[i][k])
        BY <3>1 DEF EInv, RecordsBacked
      <3>. QED  BY <1>2, <3>1, <3>2 DEF Backed
    <2>. QED  BY <2>1, <2>2
  <1>11. ExternalIdNeverReused'
    <2>1. CASE row = NoRow
      BY <1>2, <2>1 DEF EInv, ExternalIdNeverReused
    <2>2. CASE row # NoRow
      <3>1. rows[t] = NoRow /\ row.externalId # NoExt => Owned(rows, row.owner, row.externalId) = {}
        BY <1>3, <1>5, <2>2 DEF StagedCreate, Expected
      <3>2. rows' = [rows EXCEPT ![t] = row] /\ TypeOK /\ ExternalIdNeverReused
        BY <1>2, <2>2 DEF TInv, EInv
      <3>. HIDE DEF t, row
      <3>. QED  BY <1>1, <1>4, <2>2, <3>1, <3>2, IdsStay
    <2>. QED  BY <2>1, <2>2
  <1>. QED  BY <1>7, <1>8, <1>9, <1>10, <1>11 DEF EInv, AllInformed

(***************************************************************************)
(* Members, other programs, the timer and the clock.                       *)
(***************************************************************************)

(* What they do leaves the workers and their locks alone.                  *)
LEMMA OutsideStep ==
    ASSUME TInv, EInv, UNCHANGED <<work, held, completions>>,
           \A v \in Workers : \A c : Holds(v, c) => Usable(work[v].principal, c, archived'),
           \A v \in Workers :
               work[v].pc \in {"write", "commit"} /\ work[v].target \in TxIds =>
                   rows'[work[v].target] = rows[work[v].target],
           \A v \in Workers :
               Inserting(v) /\ work[v].request.externalId # NoExt =>
                   Owned(rows', work[v].principal.integration,
                         work[v].request.externalId) = {},
           \A i \in Integrations, k \in Keys :
               records'[i][k] \in {records[i][k], NoRecord},
           ExternalIdNeverReused'
    PROVE  EInv'
  <1>1. ASSUME NEW v \in Workers PROVE Informed(v)'
    <2>1. Informed(v)
      BY DEF EInv, AllInformed
    <2>2. Claimant(v) => Claimable(Rec(v)', work[v].request, work[v].claimedAt)
      <3>. SUFFICES ASSUME Claimant(v)
                    PROVE  Claimable(Rec(v)', work[v].request, work[v].claimedAt)
        OBVIOUS
      <3>1. work[v].pc # "idle" /\ work[v].request.key \in Keys /\ ClaimStands(v)
        BY <2>1 DEF Claimant, PastClaim, Keyed, Informed
      <3>2. work[v].principal.integration \in Integrations
        BY <3>1, WorkTyped DEF TInv
      <3>3. Rec(v)' \in {Rec(v), NoRecord}
        BY <3>1, <3>2 DEF Rec
      <3>4. CASE Rec(v)' = Rec(v)
        BY <3>1, <3>4 DEF ClaimStands
      <3>5. CASE Rec(v)' = NoRecord
        BY <3>5 DEF Claimable, Decides
      <3>. QED  BY <3>3, <3>4, <3>5
    <2>. QED  BY <2>1, <2>2, Bystander
  <1>2. InsertsApart'
    BY DEF EInv, InsertsApart, Inserting, Mutating, Creating, Apart
  <1>3. RecordsBacked'
    BY DEF EInv, RecordsBacked, Backed, KeepsShown, TypeMatches
  <1>. QED  BY <1>1, <1>2, <1>3 DEF EInv, AllInformed

(* A row that members may write is no worker's target.                     *)
LEMMA UnlockedIsNoTarget ==
    ASSUME TInv, EInv, NEW t \in TxIds, rows[t] # NoRow, RowUnlocked(t),
           NEW v \in Workers, work[v].pc \in {"write", "commit"}
    PROVE  work[v].target # t
  <1>1. CASE Inserting(v)
    BY <1>1, InsertStaged DEF StagedCreate
  <1>2. CASE ~Inserting(v)
    BY <1>2, TargetLocked DEF RowUnlocked, Unlocked
  <1>. QED  BY <1>1, <1>2

(* A member's edit or deletion of a row.                                   *)
LEMMA MemberInformed ==
    ASSUME TInv, EInv, NEW t \in TxIds,
           MemberDelete(t) \/ \E c \in Commands : MemberEdit(t, c)
    PROVE  EInv'
  <1>1. /\ rows[t] # NoRow /\ RowUnlocked(t) /\ rows[t] \in Row
        /\ UNCHANGED <<records, archived, work, held, completions>>
    BY DEF MemberDelete, MemberEdit, TInv, TypeOK, Nullable
  <1>2. PICK row : rows' = [rows EXCEPT ![t] = row] /\ Keeps(t, row)
    <2>1. \A c : Keeps(t, UpdatedRow(rows[t], c)) /\ Keeps(t, DeletedRow(rows[t]))
      BY <1>1 DEF Keeps, UpdatedRow, DeletedRow, Row
    <2>. QED  BY <2>1 DEF MemberDelete, MemberEdit
  <1>3. ExternalIdNeverReused'
    BY <1>1, <1>2, IdsStay DEF TInv, EInv
  <1>4. ASSUME NEW v \in Workers, Inserting(v), work[v].request.externalId # NoExt
        PROVE  Owned(rows', work[v].principal.integration, work[v].request.externalId) = {}
    <2>1. Owned(rows, work[v].principal.integration, work[v].request.externalId) = {}
      BY <1>4, InsertStaged DEF StagedCreate
    <2>. QED  BY <1>1, <1>2, <2>1, IdsFree DEF TInv
  <1>5. \A v \in Workers :
          work[v].pc \in {"write", "commit"} /\ work[v].target \in TxIds =>
              rows'[work[v].target] = rows[work[v].target]
    BY <1>1, <1>2, UnlockedIsNoTarget DEF TInv, TypeOK
  <1>. QED  BY <1>1, <1>3, <1>4, <1>5, OutsideStep DEF Holds

(* A row inserted by something other than the service.                     *)
LEMMA InsertInformed ==
    ASSUME TInv, EInv, NEW t \in TxIds, NEW i \in Integrations, NEW e \in ExtIds,
           NEW c \in Commands, InsertOutside(t, i, e, c)
    PROVE  EInv'
  <1>. DEFINE row == [owner |-> i, externalId |-> e, command |-> c,
                      version |-> 1, deleted |-> FALSE]
  <1>1. /\ rows[t] = NoRow /\ IndexAdmits(i, e) /\ e # NoExt
        /\ \A v \in Workers : work[v].pc # "idle" => work[v].target # t
        /\ rows' = [rows EXCEPT ![t] = row]
        /\ UNCHANGED <<records, archived, work, held, completions>>
    BY ConstantsAssumption DEF InsertOutside, At
  <1>2. row.owner = i /\ row.externalId = e
    OBVIOUS
  <1>. HIDE DEF row
  <1>3. ExternalIdNeverReused'
    BY <1>1, <1>2, IdsStay DEF TInv, EInv, Keeps, IndexAdmits
  <1>4. ASSUME NEW v \in Workers, Inserting(v), work[v].request.externalId # NoExt
        PROVE  Owned(rows', work[v].principal.integration, work[v].request.externalId) = {}
    <2>1. /\ StagedCreate(v) /\ work[v].pc = "commit" /\ work[v].row # NoRow
          /\ Owned(rows, work[v].principal.integration, work[v].request.externalId) = {}
      BY <1>4, InsertStaged DEF StagedCreate
    <2>2. row.owner # work[v].principal.integration
          \/ row.externalId # work[v].request.externalId
      BY <1>2, <2>1 DEF InsertOutside, At, StagedCreate, CreatedRow
    <2>. QED  BY <1>1, <2>1, <2>2, IdsFree DEF TInv, Keeps
  <1>5. \A v \in Workers :
          work[v].pc \in {"write", "commit"} /\ work[v].target \in TxIds =>
              rows'[work[v].target] = rows[work[v].target]
    BY <1>1 DEF TInv, TypeOK
  <1>. QED  BY <1>1, <1>3, <1>4, <1>5, OutsideStep DEF Holds

(* The rest leaves the rows alone; what is archived is locked by nobody.   *)
LEMMA EnvironmentInformed ==
    ASSUME TInv, EInv, Environment
    PROVE  EInv'
  <1>1. CASE \/ \E t \in TxIds, c \in Commands : MemberEdit(t, c)
             \/ \E t \in TxIds : MemberDelete(t)
    BY <1>1, MemberInformed
  <1>2. CASE \E t \in TxIds, i \in Integrations, e \in ExtIds, c \in Commands :
               InsertOutside(t, i, e, c)
    BY <1>2, InsertInformed
  <1>3. ASSUME UNCHANGED <<rows, work, held, completions>>,
               \A v \in Workers : \A c :
                   Holds(v, c) => Usable(work[v].principal, c, archived'),
               \A i \in Integrations, k \in Keys :
                   records'[i][k] \in {records[i][k], NoRecord}
        PROVE  EInv'
    <2>1. ASSUME NEW v \in Workers, Inserting(v), work[v].request.externalId # NoExt
          PROVE  Owned(rows', work[v].principal.integration,
                       work[v].request.externalId) = {}
      BY <1>3, <2>1, InsertStaged DEF StagedCreate
    <2>2. ExternalIdNeverReused'
      BY <1>3 DEF EInv, ExternalIdNeverReused
    <2>. QED  BY <1>3, <2>1, <2>2, OutsideStep
  <1>4. ASSUME NEW x \in Categories \cup Sources, ArchiveReference(x)
        PROVE  EInv'
    <2>1. ASSUME NEW v \in Workers, NEW c, Holds(v, c)
          PROVE  Usable(work[v].principal, c, archived')
      <3>1. RefShare(x) \notin RefShares(c)
        BY <1>4, <2>1 DEF ArchiveReference, Unlocked, Holds
      <3>2. c.paymentSourceId # x /\ (c.categoryId # NoCategory => c.categoryId # x)
        BY <3>1, ConstantsAssumption DEF RefShares, ReferencesOf
      <3>. QED  BY <1>4, <2>1, <3>2 DEF Holds, Usable, Active, ArchiveReference
    <2>. QED  BY <1>3, <1>4, <2>1 DEF ArchiveReference
  <1>5. ASSUME NEW c \in Categories, RestoreCategory(c)
        PROVE  EInv'
    BY <1>3, <1>5 DEF RestoreCategory, Holds, Usable, Active
  <1>6. CASE CleanupExpiredIdempotency
    BY <1>3, <1>6 DEF CleanupExpiredIdempotency, Holds
  <1>7. CASE Tick
    BY <1>3, <1>7 DEF Tick, Holds
  <1>. QED  BY <1>1, <1>2, <1>4, <1>5, <1>6, <1>7 DEF Environment

(* The invariant is inductive.                                             *)
LEMMA NextInformed ==
    TInv /\ LocksExclusive /\ KInv /\ EInv /\ [Next]_vars => EInv'
  <1>. SUFFICES ASSUME TInv, LocksExclusive, KInv, EInv, [Next]_vars PROVE EInv'
    OBVIOUS
  <1>1. ASSUME NEW w \in Workers, NEW p \in Principals, NEW r \in ClientRequests,
               Begin(w, p, r)
        PROVE  EInv'
    BY <1>1, BeginInformed
  <1>2. ASSUME NEW w \in Workers, Step(w) \/ Abort(w)
        PROVE  EInv'
    <2>1. CASE Refuse(w)
      BY <2>1, RefuseInformed
    <2>2. CASE ~Refuse(w)
      BY <1>2, <2>2, ClaimInformed, LookInformed, WriteInformed, DuplicateInformed,
         ReplayInformed, CommitInformed
      DEF Step, Abort, ClaimConflict, ClaimInProgress
    <2>. QED  BY <2>1, <2>2
  <1>3. CASE Environment
    BY <1>3, EnvironmentInformed
  <1>4. CASE UNCHANGED vars
    <2>1. UNCHANGED <<rows, records, archived, work, held, completions>>
      BY <1>4 DEF vars
    <2>2. ASSUME NEW v \in Workers, Inserting(v)
          PROVE  work[v].request.externalId # NoExt =>
                   Owned(rows', work[v].principal.integration,
                         work[v].request.externalId) = {}
      BY <2>1, <2>2, InsertStaged DEF StagedCreate
    <2>3. ExternalIdNeverReused'
      BY <2>1 DEF EInv, ExternalIdNeverReused
    <2>. QED  BY <2>1, <2>2, <2>3, OutsideStep DEF Holds
  <1>. QED  BY <1>1, <1>2, <1>3, <1>4 DEF Next

(***************************************************************************)
(* What follows from the invariant.                                        *)
(***************************************************************************)

(* Everything a commit relies on, for every reachable state.               *)
LEMMA InvariantInformed == Spec => []EInv
  BY InitInformed, NextInformed, InvariantTyped, LocksAreExclusive, InvariantKeys,
     PTL DEF Spec

(* An external id names one row of its integration for ever, deleted rows  *)
(* included, whatever mix of keys, keyless creates and outside inserts ran.*)
THEOREM IdsAreNeverReused == Spec => []ExternalIdNeverReused
  <1>1. EInv => ExternalIdNeverReused
    BY DEF EInv
  <1>. QED  BY <1>1, InvariantInformed, PTL

(* A replayed answer is the one first given to the same request under the  *)
(* same key, however much the row was edited since.                        *)
THEOREM ReplaysAreFaithful == Spec => []ReplayFaithful
  <1>1. EInv => ReplayFaithful
    BY DEF EInv, AllInformed, Informed, ReplayBacked, ReplayFaithful, At
  <1>. QED  BY <1>1, InvariantInformed, PTL

(* A worker about to answer holds its references still: those of the row,  *)
(* those it writes and those the answer shows, a stored one included, are  *)
(* active and admitted by the credential's policy until the commit.        *)
THEOREM AnswersStayAuthorized == Spec => []AnswersAuthorized
  <1>1. TInv /\ EInv => AnswersAuthorized
    <2>. SUFFICES ASSUME TInv, EInv, NEW w \in Workers, work[w].pc = "commit"
                  PROVE  /\ rows[work[w].target] # NoRow =>
                              Usable(work[w].principal, rows[work[w].target].command,
                                     archived)
                         /\ work[w].row # NoRow =>
                              Usable(work[w].principal, work[w].row.command, archived)
                         /\ work[w].response.command # NoCommand =>
                              Usable(work[w].principal, work[w].response.command, archived)
      BY DEF AnswersAuthorized, At
    <2>1. BodyHeld(w) /\ TargetHeld(w) /\ NothingStaged(w) /\ Outcome(w)
          /\ work[w].target \in TxIds
      BY DEF EInv, AllInformed, Informed, TInv, WorkInv, WorkOK
    <2>2. rows[work[w].target] # NoRow =>
            Usable(work[w].principal, rows[work[w].target].command, archived)
      BY <2>1, ConstantsAssumption DEF TargetHeld, Found, Holds
    <2>3. ASSUME work[w].row # NoRow
          PROVE  Usable(work[w].principal, work[w].row.command, archived)
      <3>1. Mutating(w)
        BY <2>1, <2>3 DEF NothingStaged
      <3>2. CASE Creating(w) /\ StagedCreate(w)
        <4>1. Usable(work[w].principal, work[w].request.command, archived)
          BY <2>1, <3>1, <3>2 DEF BodyHeld, Checked, Holds
        <4>. QED  BY <3>2, <4>1 DEF StagedCreate, CreatedRow
      <3>3. CASE work[w].request.operation = "update" /\ Expected(w) /\ StagedUpdate(w)
        <4>1. Usable(work[w].principal, work[w].request.command, archived)
          BY <2>1, <3>1, <3>3 DEF BodyHeld, Checked, Holds
        <4>2. rows[work[w].target] \in Row
          BY <2>1, <3>3 DEF Expected, TInv, TypeOK, Nullable
        <4>. QED  BY <3>3, <4>1, <4>2 DEF StagedUpdate, UpdatedRow, Row
      <3>4. CASE Expected(w) /\ StagedDelete(w)
        <4>1. rows[work[w].target] \in Row
          BY <2>1, <3>4 DEF Expected, TInv, TypeOK, Nullable
        <4>. QED  BY <2>2, <3>4, <4>1 DEF Expected, StagedDelete, DeletedRow, Row
      <3>. QED  BY <2>1, <2>3, <3>1, <3>2, <3>3, <3>4 DEF Outcome, StagedNothing
    <2>4. ASSUME work[w].response.command # NoCommand
          PROVE  Usable(work[w].principal, work[w].response.command, archived)
      <3>1. CASE work[w].replayed
        BY <2>4, <3>1 DEF EInv, AllInformed, Informed, ShownHeld, Holds
      <3>2. CASE ~work[w].replayed
        BY <2>4, <3>2, ShownIsWritten DEF Mutating
      <3>. QED  BY <3>1, <3>2
    <2>. QED  BY <2>2, <2>3, <2>4
  <1>. QED  BY <1>1, InvariantTyped, InvariantInformed, PTL

(* What a commit does to the table: an insert, or the next version of the  *)
(* row whose version the client had named.                                 *)
LEMMA CommitWrites ==
    ASSUME TInv, EInv, NEW w \in Workers, Commit(w), work[w].row # NoRow
    PROVE  /\ Mutating(w) /\ work[w].target \in TxIds
           /\ rows' = [rows EXCEPT ![work[w].target] = work[w].row]
           /\ \/ Creating(w) /\ StagedCreate(w)
              \/ work[w].request.operation = "update" /\ Expected(w) /\ StagedUpdate(w)
              \/ work[w].request.operation = "delete" /\ Expected(w) /\ StagedDelete(w)
  <1>1. work[w].pc = "commit" /\ rows' = [rows EXCEPT ![work[w].target] = work[w].row]
    BY DEF Commit, At
  <1>2. NothingStaged(w) /\ Outcome(w) /\ WorkOK(w)
    BY <1>1 DEF EInv, AllInformed, Informed, TInv, WorkInv
  <1>. QED  BY <1>1, <1>2 DEF NothingStaged, Outcome, StagedNothing, WorkOK

(* A replacement or deletion is only ever applied to the version its       *)
(* client named: no member's edit is overwritten unseen.                   *)
THEOREM NoUpdateIsLost == Spec => NoLostUpdate
  <1>1. TInv /\ EInv /\ [Next]_vars =>
          [\A w \in Workers :
             Commit(w) /\ work[w].row # NoRow /\ work[w].request.operation # "create"
                => rows[work[w].target].version = work[w].request.expectedVersion]_vars
    BY CommitWrites DEF Creating, Expected
  <1>. QED  BY <1>1, InvariantTyped, InvariantInformed, PTL DEF Spec, NoLostUpdate

(* A row changes one version at a time, keeps its owner and external id,   *)
(* and never changes again once deleted: an ETag names one state of a row. *)
THEOREM VersionsAreDisciplined == Spec => VersionDiscipline
  <1>. DEFINE Disciplined(t) ==
                rows[t] # NoRow /\ rows'[t] # rows[t] =>
                   /\ rows'[t] # NoRow
                   /\ ~rows[t].deleted
                   /\ rows'[t].version = rows[t].version + 1
                   /\ rows'[t].owner = rows[t].owner
                   /\ rows'[t].externalId = rows[t].externalId
  <1>1. TInv /\ TInv' /\ EInv /\ [Next]_vars => \A t \in TxIds : Disciplined(t)
    <2>. SUFFICES ASSUME TInv, TInv', EInv, Next, NEW t \in TxIds,
                         rows[t] # NoRow, rows'[t] # rows[t]
                  PROVE  /\ rows'[t] # NoRow
                         /\ ~rows[t].deleted
                         /\ rows'[t].version = rows[t].version + 1
                         /\ rows'[t].owner = rows[t].owner
                         /\ rows'[t].externalId = rows[t].externalId
      BY DEF vars
    <2>1. rows[t] \in Row
      BY DEF TInv, TypeOK, Nullable
    <2>2. \A c : /\ UpdatedRow(rows[t], c).version = rows[t].version + 1
                 /\ UpdatedRow(rows[t], c).owner = rows[t].owner
                 /\ UpdatedRow(rows[t], c).externalId = rows[t].externalId
      BY <2>1 DEF UpdatedRow, Row
    <2>3. /\ DeletedRow(rows[t]).version = rows[t].version + 1
          /\ DeletedRow(rows[t]).owner = rows[t].owner
          /\ DeletedRow(rows[t]).externalId = rows[t].externalId
      BY <2>1 DEF DeletedRow, Row
    <2>4. SUFFICES /\ ~rows[t].deleted
                   /\ rows'[t] # NoRow
                   /\ \/ \E c : rows'[t] = UpdatedRow(rows[t], c)
                      \/ rows'[t] = DeletedRow(rows[t])
      BY <2>2, <2>3
    <2>5. ASSUME NEW w \in Workers, Commit(w)
          PROVE  /\ ~rows[t].deleted
                 /\ rows'[t] # NoRow
                 /\ \/ \E c : rows'[t] = UpdatedRow(rows[t], c)
                    \/ rows'[t] = DeletedRow(rows[t])
      <3>1. work[w].row # NoRow
        BY <2>5 DEF Commit
      <3>2. t = work[w].target /\ rows'[t] = work[w].row
        BY <2>5, <3>1, CommitWrites DEF TInv, TypeOK
      <3>3. Expected(w) /\ (StagedUpdate(w) \/ StagedDelete(w))
        BY <2>5, <3>1, <3>2, CommitWrites DEF StagedCreate
      <3>. QED  BY <3>1, <3>2, <3>3 DEF Expected, StagedUpdate, StagedDelete
    <2>6. ASSUME NEW s \in TxIds, MemberDelete(s) \/ \E c \in Commands : MemberEdit(s, c)
          PROVE  /\ ~rows[t].deleted
                 /\ rows'[t] # NoRow
                 /\ \/ \E c : rows'[t] = UpdatedRow(rows[t], c)
                    \/ rows'[t] = DeletedRow(rows[t])
      <3>1. s = t
        BY <2>6 DEF MemberDelete, MemberEdit, TInv, TypeOK
      <3>2. /\ ~rows[t].deleted /\ rows[t].version < MaxVersion
            /\ \/ \E c \in Commands : rows'[t] = UpdatedRow(rows[t], c)
               \/ rows'[t] = DeletedRow(rows[t])
        BY <2>6, <3>1 DEF MemberDelete, MemberEdit, TInv, TypeOK
      <3>3. rows'[t] \in Row
        BY <2>1, <3>2, NextVersionTyped
      <3>. QED  BY <3>2, <3>3, AbsenceAssumption
    <2>7. CASE \E s \in TxIds, i \in Integrations, e \in ExtIds, c \in Commands :
                  InsertOutside(s, i, e, c)
      BY <2>7 DEF InsertOutside, TInv, TypeOK
    <2>8. CASE rows' = rows
      BY <2>8
    <2>9. ASSUME NEW w \in Workers, Step(w) \/ Abort(w)
          PROVE  Commit(w) \/ rows' = rows
      BY <2>9 DEF Step, Abort, Refuse, ClaimKey, ClaimReplay, ClaimConflict,
         ClaimInProgress, CheckReferences, LockExternal, FindExisting, FindNothing,
         FindTarget, WriteCreated, WriteDuplicate, WriteAcknowledged, WriteUpdated,
         WriteDeleted, Stage, Replay
    <2>10. CASE Environment
      BY <2>6, <2>7, <2>8, <2>10
      DEF Environment, ArchiveReference, RestoreCategory, CleanupExpiredIdempotency, Tick
    <2>. QED  BY <2>5, <2>8, <2>9, <2>10 DEF Next, Begin
  <1>2. (\A t \in TxIds : Disciplined(t)) => [\A t \in TxIds : Disciplined(t)]_vars
    OBVIOUS
  <1>. QED  BY <1>1, <1>2, InvariantTyped, InvariantInformed, PTL
            DEF Spec, VersionDiscipline

(***************************************************************************)
(* The refinement: a commit that publishes something is the request taking *)
(* effect; every other step of a worker is invisible to the clients.       *)
(***************************************************************************)

(* The pure decisions of both modules are those of LedgerData.             *)
LEMMA SameDecisions ==
    /\ Atomic!Requests = Requests
    /\ \A p, c, a : Atomic!Usable(p, c, a) <=> Usable(p, c, a)
    /\ \A rec, r, n : Atomic!Claimable(rec, r, n) <=> Claimable(rec, r, n)
    /\ \A rec, n : Atomic!Decides(rec, n) <=> Decides(rec, n)
    /\ \A rs, i, e : /\ Atomic!Owned(rs, i, e) = Owned(rs, i, e)
                     /\ Atomic!OwnedActive(rs, i, e) = OwnedActive(rs, i, e)
    /\ \A p, r : Atomic!CreatedRow(p, r) = CreatedRow(p, r)
    /\ \A row, c : Atomic!UpdatedRow(row, c) = UpdatedRow(row, c)
    /\ \A row : Atomic!DeletedRow(row) = DeletedRow(row)
    /\ \A r : Atomic!Fingerprint(r) = Fingerprint(r)
  <1>1. Atomic!Requests = Requests
    BY DEF Requests, CreateRequests, UpdateRequests, DeleteRequests, Nullable,
           ExpectedVersions, Atomic!Requests, Atomic!CreateRequests,
           Atomic!UpdateRequests, Atomic!DeleteRequests, Atomic!Nullable,
           Atomic!ExpectedVersions
  <1>2. \A p, c, a : Atomic!Usable(p, c, a) <=> Usable(p, c, a)
    BY DEF Usable, AllowedByPolicy, Active, TypeMatches, Atomic!Usable,
           Atomic!AllowedByPolicy, Atomic!Active, Atomic!TypeMatches
  <1>3. \A r : Atomic!Fingerprint(r) = Fingerprint(r)
    BY DEF Fingerprint, Atomic!Fingerprint
  <1>4. \A rec, n : Atomic!Decides(rec, n) <=> Decides(rec, n)
    BY DEF Decides, Atomic!Decides
  <1>5. \A rec, r, n : Atomic!Claimable(rec, r, n) <=> Claimable(rec, r, n)
    BY <1>3, <1>4 DEF Claimable, LeaseLapsed, SameIntent,
                      Atomic!Claimable, Atomic!LeaseLapsed, Atomic!SameIntent
  <1>6. \A rs, i, e : /\ Atomic!Owned(rs, i, e) = Owned(rs, i, e)
                      /\ Atomic!OwnedActive(rs, i, e) = OwnedActive(rs, i, e)
    BY DEF Owned, OwnedActive, Atomic!Owned, Atomic!OwnedActive
  <1>7. /\ \A p, r : Atomic!CreatedRow(p, r) = CreatedRow(p, r)
        /\ \A row, c : Atomic!UpdatedRow(row, c) = UpdatedRow(row, c)
        /\ \A row : Atomic!DeletedRow(row) = DeletedRow(row)
    BY DEF CreatedRow, UpdatedRow, DeletedRow, Atomic!CreatedRow,
           Atomic!UpdatedRow, Atomic!DeletedRow
  <1>. QED  BY <1>1, <1>2, <1>3, <1>4, <1>5, <1>6, <1>7

(* A key that could be claimed can still be claimed later.                 *)
LEMMA ClaimableLater ==
    ASSUME NEW record \in Nullable(Record, NoRecord), NEW r,
           NEW m \in Nat, NEW n \in Nat, m <= n, Claimable(record, r, m)
    PROVE  Claimable(record, r, n)
  <1>1. record # NoRecord => record.expiresAt \in Nat /\ record.leaseExpiresAt \in Nat
    BY DEF Nullable, Record
  <1>. QED  BY <1>1 DEF Claimable, Decides, LeaseLapsed

(* The commit spends the key exactly as the atomic request does.           *)
LEMMA CommitSpendsKey ==
    ASSUME TInv, KInv, EInv, NEW w \in Workers, Commit(w), ~work[w].replayed,
           NEW row, row.command = After(w).command
    PROVE  Atomic!SpendKey(work[w].principal, work[w].request, work[w].target,
                           row, work[w].response)
  <1>. DEFINE p == work[w].principal
              r == work[w].request
              at == work[w].record.completedAt
  <1>1. /\ work[w].pc = "commit" /\ work[w] \in Work
        /\ p.integration \in Integrations /\ r \in Requests
    BY WorkTyped DEF Commit, At, TInv
  <1>2. Mutating(w) /\ Informed(w) /\ WorkOK(w) /\ KeyOK(w)
    BY <1>1 DEF Mutating, EInv, AllInformed, TInv, WorkInv, KInv, ClaimsOK
  <1>3. CASE r.key = NoKey
    BY <1>3 DEF Commit, Atomic!SpendKey
  <1>4. CASE r.key # NoKey
    <2>1. Keyed(w) /\ Claimant(w)
      BY <1>1, <1>2, <1>4, RequestFacts DEF Keyed, Claimant, PastClaim
    <2>2. /\ work[w].record = Result(r, work[w].target, After(w), work[w].response, at)
          /\ work[w].claimedAt <= at
          /\ Claimable(Rec(w), r, work[w].claimedAt)
      BY <1>1, <1>2, <2>1 DEF Informed, RecordStaged, ClaimStands
    <2>3. at \in Nat /\ at <= now /\ now \in Nat /\ work[w].claimedAt \in Nat
      <3>1. work[w].record \in Record
        BY <1>1, <1>2, <2>1 DEF WorkOK
      <3>2. at \in Nat
        BY <3>1 DEF Record
      <3>. QED  BY <1>1, <1>2, <2>1, <3>2, ConstantsAssumption
                DEF KeyOK, TInv, TypeOK, Work
    <2>4. Rec(w) \in Nullable(Record, NoRecord)
      BY <1>1, <2>1 DEF Rec, Keyed, TInv, TypeOK
    <2>5. Claimable(records[p.integration][r.key], r, at)
      BY <2>2, <2>3, <2>4, ClaimableLater DEF Rec
    <2>6. records' = [records EXCEPT ![p.integration][r.key] =
                        Result(r, work[w].target, After(w), work[w].response, at)]
      BY <1>4, <2>2 DEF Commit
    <2>7. Result(r, work[w].target, After(w), work[w].response, at) =
            [operation |-> r.operation, targetExternalId |-> r.externalId,
             requestFingerprint |-> Atomic!Fingerprint(r), status |-> "completed",
             response |-> work[w].response, targetTransactionId |-> work[w].target,
             retainedCategoryId |-> row.command.categoryId,
             retainedPaymentSourceId |-> row.command.paymentSourceId,
             leaseExpiresAt |-> 0, completedAt |-> at,
             expiresAt |-> at + Retention]
      BY SameDecisions DEF Result
    <2>8. at \in 0 .. now
      BY <2>3
    <2>. HIDE DEF p, r, at
    <2>9. Atomic!Claimable(records[p.integration][r.key], r, at)
      BY <2>5, SameDecisions
    <2>. QED  BY <1>4, <2>6, <2>7, <2>8, <2>9 DEF Atomic!SpendKey, p, r
  <1>. QED  BY <1>3, <1>4

(* A commit is the atomic request, or says again what was said before.     *)
LEMMA CommitImplements ==
    ASSUME TInv, KInv, EInv, NEW w \in Workers, Commit(w)
    PROVE  [Atomic!Next]_Atomic!vars
  <1>. DEFINE p == work[w].principal
              r == work[w].request
              t == work[w].target
  <1>1. /\ work[w].pc = "commit" /\ work[w] \in Work
        /\ p \in Principals /\ r \in Requests /\ r \in Atomic!Requests
        /\ Informed(w) /\ WorkOK(w) /\ t \in TxIds
        /\ HasScope(w) /\ BodyHeld(w) /\ TargetHeld(w) /\ NothingStaged(w) /\ Outcome(w)
    <2>1. work[w].pc = "commit"
      BY DEF Commit, At
    <2>2. work[w] \in Work
      BY <2>1, WorkTyped DEF TInv
    <2>3. p \in Principals /\ r \in Requests
      BY <2>2 DEF Work
    <2>4. Informed(w) /\ WorkOK(w)
      BY DEF EInv, AllInformed, TInv, WorkInv
    <2>. QED  BY <2>1, <2>2, <2>3, <2>4, SameDecisions DEF Informed, WorkOK
  <1>2. CASE work[w].replayed
    <2>1. work[w].row = NoRow
      BY <1>1, <1>2 DEF NothingStaged, Mutating
    <2>. QED  BY <1>2, <2>1 DEF Commit, Atomic!vars
  <1>3. CASE ~work[w].replayed
    <2>1. Mutating(w) /\ UNCHANGED <<archived, now>>
      BY <1>1, <1>3 DEF Mutating, Commit
    <2>2. \A row : row.command = After(w).command =>
            Atomic!SpendKey(p, r, t, row, work[w].response)
      BY <1>3, CommitSpendsKey
    <2>3. r.operation \in p.scopes
      BY <1>1 DEF HasScope
    <2>4. Creating(w) \/ r.operation = "update" => Usable(p, r.command, archived)
      BY <1>1, <2>1 DEF BodyHeld, Checked, Holds
    <2>5. rows[t] # NoRow =>
            /\ Usable(p, rows[t].command, archived)
            /\ r.externalId # NoExt
            /\ t \in Owned(rows, p.integration, r.externalId)
      <3>. SUFFICES ASSUME rows[t] # NoRow
                    PROVE  /\ Usable(p, rows[t].command, archived)
                           /\ r.externalId # NoExt
                           /\ t \in Owned(rows, p.integration, r.externalId)
        OBVIOUS
      <3>1. t # NoTx
        BY <1>1, ConstantsAssumption
      <3>2. Found(w)
        BY <1>1, <3>1 DEF Found
      <3>. QED  BY <1>1, <1>3, <3>2 DEF TargetHeld, Holds, Owned
    <2>6. CASE Creating(w) /\ StagedCreate(w)
      <3>1. rows' = [rows EXCEPT ![t] = CreatedRow(p, r)]
        BY <2>6 DEF Commit, StagedCreate
      <3>2. After(w) = CreatedRow(p, r)
        BY <2>6 DEF After, StagedCreate
      <3>3. Atomic!SpendKey(p, r, t, CreatedRow(p, r),
                            [status |-> 201, command |-> r.command, version |-> 1])
        BY <2>2, <2>6, <3>2 DEF StagedCreate
      <3>4. /\ r.operation = "create" /\ rows[t] = NoRow
            /\ r.externalId # NoExt => Owned(rows, p.integration, r.externalId) = {}
        BY <2>6 DEF Creating, StagedCreate
      <3>. HIDE DEF p, r, t
      <3>5. Atomic!Create(p, r)
        BY <1>1, <2>1, <2>4, <2>6, <3>1, <3>3, <3>4, SameDecisions
        DEF Atomic!Create, Creating, r
      <3>. QED  BY <1>1, <2>3, <3>5 DEF Atomic!Next, Atomic!Serve
    <2>7. CASE Creating(w) /\ StagedNothing(w)
      <3>1. rows' = rows /\ After(w) = rows[t]
        BY <2>7 DEF Commit, StagedNothing, After
      <3>2. Atomic!SpendKey(p, r, t, rows[t],
                            [status |-> 200, command |-> NoCommand, version |-> 0])
        BY <2>2, <2>7, <3>1 DEF StagedNothing
      <3>3. r.operation = "create" /\ rows[t] # NoRow
        BY <2>7 DEF Creating, StagedNothing
      <3>4. Usable(p, r.command, archived)
        BY <2>4, <2>7
      <3>. HIDE DEF p, r, t
      <3>5. Atomic!Acknowledge(p, r)
        BY <1>1, <2>1, <2>5, <3>1, <3>2, <3>3, <3>4, SameDecisions
        DEF Atomic!Acknowledge
      <3>. QED  BY <1>1, <2>3, <3>5 DEF Atomic!Next, Atomic!Serve
    <2>8. ASSUME Expected(w), r.operation # "create", NEW row, work[w].row = row,
                 \/ r.command \in Commands /\ row = UpdatedRow(rows[t], r.command)
                 \/ row = DeletedRow(rows[t])
          PROVE  /\ t \in OwnedActive(rows, p.integration, r.externalId)
                 /\ rows[t].version = r.expectedVersion
                 /\ Usable(p, rows[t].command, archived)
                 /\ rows' = [rows EXCEPT ![t] = row]
                 /\ After(w) = row
                 /\ rows[t] \in Row
      <3>1. rows[t] # NoRow /\ rows[t] \in Row
        BY <1>1, <2>8 DEF Expected, TInv, TypeOK, Nullable
      <3>2. rows[t].version = r.expectedVersion /\ ~rows[t].deleted
        BY <2>8 DEF Expected
      <3>3. r.expectedVersion \in 1 .. MaxVersion - 1
        BY <1>1, <2>8, RequestFacts
      <3>4. rows[t].version < MaxVersion
        BY <3>2, <3>3, ConstantsAssumption
      <3>5. row \in Row
        BY <2>8, <3>1, <3>4, NextVersionTyped
      <3>6. row # NoRow
        BY <3>5, AbsenceAssumption
      <3>7. rows' = [rows EXCEPT ![t] = row] /\ After(w) = row
        BY <2>8, <3>6 DEF Commit, After
      <3>8. t \in OwnedActive(rows, p.integration, r.externalId)
        BY <2>5, <3>1, <3>2 DEF OwnedActive
      <3>. QED  BY <2>5, <3>1, <3>2, <3>7, <3>8
    <2>9. CASE r.operation = "update" /\ Expected(w) /\ StagedUpdate(w)
      <3>. DEFINE new == UpdatedRow(rows[t], r.command)
      <3>1. /\ work[w].row = new
            /\ work[w].response = [status |-> 200, command |-> r.command,
                                   version |-> r.expectedVersion + 1]
            /\ r.command \in Commands
        BY <1>1, <2>9, RequestFacts DEF StagedUpdate
      <3>2. /\ t \in OwnedActive(rows, p.integration, r.externalId)
            /\ rows[t].version = r.expectedVersion
            /\ Usable(p, rows[t].command, archived)
            /\ rows' = [rows EXCEPT ![t] = new]
            /\ After(w) = new
        BY <2>8, <2>9, <3>1
      <3>3. Atomic!SpendKey(p, r, t, new, work[w].response)
        BY <2>2, <3>2
      <3>4. Usable(p, r.command, archived)
        BY <2>4, <2>9
      <3>. HIDE DEF p, r, t
      <3>5. Atomic!Update(p, r)
        BY <2>1, <2>9, <3>1, <3>2, <3>3, <3>4, SameDecisions DEF Atomic!Update
      <3>. QED  BY <1>1, <2>3, <3>5 DEF Atomic!Next, Atomic!Serve
    <2>10. CASE r.operation = "delete" /\ Expected(w) /\ StagedDelete(w)
      <3>. DEFINE new == DeletedRow(rows[t])
      <3>1. /\ work[w].row = new
            /\ work[w].response = [status |-> 204, command |-> NoCommand, version |-> 0]
        BY <2>10 DEF StagedDelete
      <3>2. /\ t \in OwnedActive(rows, p.integration, r.externalId)
            /\ rows[t].version = r.expectedVersion
            /\ Usable(p, rows[t].command, archived)
            /\ rows' = [rows EXCEPT ![t] = new]
            /\ After(w) = new
            /\ rows[t] \in Row
        BY <2>8, <2>10, <3>1
      <3>3. rows[t].command = After(w).command
        BY <3>2 DEF DeletedRow, Row
      <3>4. Atomic!SpendKey(p, r, t, rows[t], work[w].response)
        BY <2>2, <3>3
      <3>. HIDE DEF p, r, t
      <3>5. Atomic!Delete(p, r)
        BY <2>1, <2>10, <3>1, <3>2, <3>4, SameDecisions DEF Atomic!Delete
      <3>. QED  BY <1>1, <2>3, <3>5 DEF Atomic!Next, Atomic!Serve
    <2>. QED  BY <1>1, <2>1, <2>6, <2>7, <2>9, <2>10 DEF Outcome
  <1>. QED  BY <1>2, <1>3

(* The members, the other writers, the cleanup and the clock are the same. *)
LEMMA EnvironmentImplements ==
    ASSUME TInv, Environment
    PROVE  [Atomic!Next]_Atomic!vars
  <1>1. ASSUME NEW t \in TxIds, NEW c \in Commands, MemberEdit(t, c)
        PROVE  Atomic!Member
    BY <1>1, SameDecisions DEF MemberEdit, Atomic!Member
  <1>2. ASSUME NEW t \in TxIds, MemberDelete(t)
        PROVE  Atomic!Member
    BY <1>2, SameDecisions DEF MemberDelete, Atomic!Member
  <1>3. CASE \/ \E x \in Categories \cup Sources : ArchiveReference(x)
             \/ \E c \in Categories : RestoreCategory(c)
    <2>1. archived' \in SUBSET (Categories \cup Sources)
      BY <1>3 DEF TInv, TypeOK, ArchiveReference, RestoreCategory
    <2>2. UNCHANGED <<rows, records, now>>
      BY <1>3 DEF ArchiveReference, RestoreCategory
    <2>. QED  BY <2>1, <2>2 DEF Atomic!Archive, Atomic!Next
  <1>4. ASSUME NEW t \in TxIds, NEW i \in Integrations, NEW e \in ExtIds,
               NEW c \in Commands, InsertOutside(t, i, e, c)
        PROVE  Atomic!Outside
    <2>1. Owned(rows, i, e) = {}
      BY <1>4, ConstantsAssumption DEF InsertOutside, IndexAdmits
    <2>. QED  BY <1>4, <2>1, SameDecisions DEF InsertOutside, Atomic!Outside
  <1>5. CASE CleanupExpiredIdempotency
    <2>. DEFINE gone == {ik \in Integrations \X Keys :
                            Expendable(records[ik[1]][ik[2]])}
    <2>1. \A ik \in gone : ~Atomic!Decides(records[ik[1]][ik[2]], now)
      <3>. SUFFICES ASSUME NEW i \in Integrations, NEW k \in Keys,
                           Expendable(records[i][k])
                    PROVE  ~Decides(records[i][k], now)
        BY SameDecisions
      <3>1. records[i][k] \in Record /\ now \in Nat
        BY ConstantsAssumption DEF TInv, TypeOK, Nullable, Expendable
      <3>2. records[i][k].expiresAt \in Nat
        BY <3>1 DEF Record
      <3>. QED  BY <3>1, <3>2 DEF Expendable, Decides
    <2>2. records' = [i \in Integrations |-> [k \in Keys |->
            IF <<i, k>> \in gone THEN NoRecord ELSE records[i][k]]]
      BY <1>5 DEF CleanupExpiredIdempotency
    <2>3. gone \in SUBSET (Integrations \X Keys) /\ UNCHANGED <<rows, archived, now>>
      BY <1>5 DEF CleanupExpiredIdempotency
    <2>. HIDE DEF gone
    <2>. QED  BY <2>1, <2>2, <2>3 DEF Atomic!Forget, Atomic!Next
  <1>6. CASE Tick
    BY <1>6 DEF Tick, Atomic!Tick, Atomic!Next
  <1>. QED  BY <1>1, <1>2, <1>3, <1>4, <1>5, <1>6 DEF Environment, Atomic!Next

(* Every behaviour of the service is one in which each accepted request    *)
(* took effect in a single step, judged against the ledger, the policies   *)
(* and its key's record as they were in that step: locks, rereads, crashes,*)
(* retries and replays are invisible, whatever the workers and requests.   *)
THEOREM ImplementsAtomicLedger == Spec => AtomicSpec
  <1>1. Init => Atomic!Init
    BY DEF Init, Atomic!Init, Nullable, Atomic!Nullable
  <1>2. TInv /\ KInv /\ EInv /\ [Next]_vars => [Atomic!Next]_Atomic!vars
    <2>. SUFFICES ASSUME TInv, KInv, EInv, [Next]_vars
                  PROVE  [Atomic!Next]_Atomic!vars
      OBVIOUS
    <2>1. ASSUME NEW w \in Workers, NEW p \in Principals, NEW r \in ClientRequests,
                 Begin(w, p, r)
          PROVE  UNCHANGED Atomic!vars
      BY <2>1 DEF Begin, Atomic!vars
    <2>2. ASSUME NEW w \in Workers, Step(w) \/ Abort(w), ~Commit(w)
          PROVE  UNCHANGED Atomic!vars
      BY <2>2 DEF Atomic!vars, Step, Abort, Refuse, ClaimKey, ClaimReplay,
         ClaimConflict, ClaimInProgress, CheckReferences, LockExternal,
         FindExisting, FindNothing, FindTarget, WriteCreated, WriteDuplicate,
         WriteAcknowledged, WriteUpdated, WriteDeleted, Stage, Replay
    <2>3. CASE UNCHANGED vars
      BY <2>3 DEF vars, Atomic!vars
    <2>. QED  BY <2>1, <2>2, <2>3, CommitImplements, EnvironmentImplements DEF Next
  <1>. QED  BY <1>1, <1>2, InvariantTyped, InvariantKeys, InvariantInformed, PTL
            DEF Spec, AtomicSpec, Atomic!Spec
===============================================================================
