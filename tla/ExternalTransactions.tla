------------------------- MODULE ExternalTransactions -------------------------
(***************************************************************************)
(* ExternalTransactionOwnershipService: idempotent creation, replacement   *)
(* and deletion of transactions by machine clients.  A worker is one HTTP  *)
(* request inside its PostgreSQL transaction (READ COMMITTED).  Its steps  *)
(* interleave with those of the other workers, with members editing in the *)
(* browser, with the hourly cleanup and with the clock; what it writes is  *)
(* staged in its own record and becomes visible when it commits, and every *)
(* lock it took is held until it commits or rolls back.                    *)
(***************************************************************************)
EXTENDS LedgerData

CONSTANTS
    Workers,
    ClientRequests, \* the requests clients may send, any number of times
    LegacyRecords   \* in-progress claims an earlier release left behind

ASSUME ClientRequestsAssumption == ClientRequests \subseteq Requests

(* Migration 0025 gave those claims a lease and nothing else.              *)
ASSUME LegacyAssumption ==
    \A record \in LegacyRecords :
        record \in Record /\ record.status = "in_progress"

VARIABLES
    rows,        \* committed rows of "transactions"
    records,     \* committed rows of "integration_idempotency_records"
    archived,    \* archived categories and payment sources
    now,         \* wall clock
    work,        \* what each worker is doing
    held,        \* the locks each worker holds
    completions  \* history: every keyed result that was ever committed

vars == <<rows, records, archived, now, work, held, completions>>

(* Locks.  The first two are advisory and keyed by name, the others are    *)
(* row locks: FOR UPDATE on a transaction, FOR SHARE on a transaction, a   *)
(* category or a payment source.                                           *)
KeyLock(i, k) == <<"idempotency", i, k>>
ExternalLock(i, e) == <<"external", i, e>>
RowLock(t) == <<"row", t>>
RowShare(t) == <<"row share", t>>
RefShare(x) == <<"reference share", x>>

(* Mutant: the references are read without FOR SHARE.                      *)
RefShares_Unlocked(c) == {}

RefShares(c) ==
    {RefShare(x) : x \in ReferencesOf(c.categoryId, c.paymentSourceId)}

Locks ==
    {KeyLock(i, k) : i \in Integrations, k \in Keys}
    \cup {ExternalLock(i, e) : i \in Integrations, e \in ExtIds}
    \cup {RowLock(t) : t \in TxIds} \cup {RowShare(t) : t \in TxIds}
    \cup {RefShare(x) : x \in Categories \cup Sources}

(* Mutant: a lock is granted to whoever does not hold it yet.              *)
FreeFor_Shared(w, lock) == lock \notin held[w]

FreeFor(w, lock) == \A v \in Workers \ {w} : lock \notin held[v]
Unlocked(lock) == \A v \in Workers : lock \notin held[v]

(* A row is free to be written when nobody else holds either lock on it.   *)
RowFreeFor(w, t) == FreeFor(w, RowLock(t)) /\ FreeFor(w, RowShare(t))
RowUnlocked(t) == Unlocked(RowLock(t)) /\ Unlocked(RowShare(t))

Idle == [pc |-> "idle"]

Steps == {"claim", "references", "lock", "find", "write", "replay", "commit"}

(* What is staged for the commit: the row written under id "target" and    *)
(* the completed record of the key.  "replayed" marks a stored answer.     *)
Work ==
    [pc : Steps, principal : Principals, request : Requests,
     claimedAt : Nat, retried : BOOLEAN,
     target : Nullable(TxIds, NoTx), row : Nullable(Row, NoRow),
     record : Nullable(Record, NoRecord),
     response : Response, replayed : BOOLEAN]

Completion ==
    [integration : Integrations, key : Keys, requestFingerprint : Fingerprints,
     claimedAt : Nat, completedAt : Nat, response : Response,
     target : TxIds, version : 1 .. MaxVersion]

TypeOK ==
    /\ rows \in [TxIds -> Nullable(Row, NoRow)]
    /\ records \in [Integrations -> [Keys -> Nullable(Record, NoRecord)]]
    /\ archived \in SUBSET (Categories \cup Sources)
    /\ now \in 0 .. MaxNow
    /\ work \in [Workers -> Work \cup {Idle}]
    /\ held \in [Workers -> SUBSET Locks]
    /\ completions \in SUBSET Completion

Init ==
    /\ rows = [t \in TxIds |-> NoRow]
    /\ records \in [Integrations -> [Keys -> Nullable(LegacyRecords, NoRecord)]]
    /\ archived = {}
    /\ now = 0
    /\ work = [w \in Workers |-> Idle]
    /\ held = [w \in Workers |-> {}]
    /\ completions = {}

-------------------------------------------------------------------------------
(* Helpers of the steps.                                                   *)

NoResponse == [status |-> 200, command |-> NoCommand, version |-> 0]

AfterClaim(r) == IF r.operation = "create" THEN "references" ELSE "find"

(* Mutant: the transaction goes to work without claiming the key.          *)
FirstStep_Unclaimed(r) == AfterClaim(r)

FirstStep(r) == IF r.key = NoKey THEN AfterClaim(r) ELSE "claim"

Go(w, step) == work' = [work EXCEPT ![w].pc = step]

Take(w, locks) == held' = [held EXCEPT ![w] = @ \cup locks]

(* Mutant: the key's lock belongs to the session, not to the transaction.  *)
EndTransaction_SessionLock(w) ==
    /\ work' = [work EXCEPT ![w] = Idle]
    /\ held' = [held EXCEPT ![w] =
         {l \in @ : \E i \in Integrations, k \in Keys : l = KeyLock(i, k)}]

(* The transaction ends: its locks go, and so does whatever it staged.     *)
EndTransaction(w) ==
    /\ work' = [work EXCEPT ![w] = Idle]
    /\ held' = [held EXCEPT ![w] = {}]

(* An exception in the body of $transaction: nothing was changed.          *)
Refuse(w) == EndTransaction(w) /\ UNCHANGED <<rows, records, archived, now, completions>>

At(w, step) == work[w].pc = step

Rec(w) == records[work[w].principal.integration][work[w].request.key]

-------------------------------------------------------------------------------
(* execute: the transaction begins.  Scope and identity are checked before *)
(* any lock; a request without the scope never gets here.                  *)
Begin(w, p, r) ==
    /\ At(w, "idle")
    /\ r.operation \in p.scopes
    /\ work' = [work EXCEPT ![w] =
         [pc |-> FirstStep(r), principal |-> p, request |-> r,
          claimedAt |-> now, retried |-> FALSE, target |-> NoTx,
          row |-> NoRow, record |-> NoRecord,
          response |-> NoResponse, replayed |-> FALSE]]
    /\ UNCHANGED <<rows, records, archived, now, held, completions>>

(* The claim: the advisory lock of the key, then the record under it.      *)
LockKey(w) ==
    /\ At(w, "claim")
    /\ FreeFor(w, KeyLock(work[w].principal.integration, work[w].request.key))

ClaimKey(w) ==
    /\ LockKey(w)
    /\ Claimable(Rec(w), work[w].request, now)
    /\ work' = [work EXCEPT ![w].pc = AfterClaim(work[w].request),
                            ![w].claimedAt = now]
    /\ Take(w, {KeyLock(work[w].principal.integration, work[w].request.key)})
    /\ UNCHANGED <<rows, records, archived, now, completions>>

ClaimReplay(w) ==
    /\ LockKey(w)
    /\ Decides(Rec(w), now)
    /\ SameIntent(Rec(w), work[w].request)
    /\ Rec(w).status = "completed"
    /\ work' = [work EXCEPT ![w].pc = "replay", ![w].record = Rec(w)]
    /\ Take(w, {KeyLock(work[w].principal.integration, work[w].request.key)})
    /\ UNCHANGED <<rows, records, archived, now, completions>>

(* 409: the key belongs to another request, or its claim is still leased.  *)
ClaimConflict(w) ==
    /\ LockKey(w)
    /\ Decides(Rec(w), now)
    /\ ~SameIntent(Rec(w), work[w].request)
    /\ Refuse(w)

ClaimInProgress(w) ==
    /\ LockKey(w)
    /\ Decides(Rec(w), now)
    /\ SameIntent(Rec(w), work[w].request)
    /\ Rec(w).status = "in_progress"
    /\ ~LeaseLapsed(Rec(w), now)
    /\ Refuse(w)

-------------------------------------------------------------------------------
(* create: the proposed references, then the source identity.              *)
CheckReferences(w) ==
    /\ At(w, "references")
    /\ LET r == work[w].request IN
       IF Usable(work[w].principal, r.command, archived)
       THEN /\ Go(w, IF r.externalId = NoExt THEN "write" ELSE "lock")
            /\ Take(w, RefShares(r.command))
            /\ UNCHANGED <<rows, records, archived, now, completions>>
       ELSE Refuse(w)

LockExternal(w) ==
    LET lock == ExternalLock(work[w].principal.integration, work[w].request.externalId) IN
    /\ At(w, "lock")
    /\ FreeFor(w, lock)
    /\ Go(w, "find")
    /\ Take(w, {lock})
    /\ UNCHANGED <<rows, records, archived, now, completions>>

(* Mutant: If-Match is parsed but not compared.                            *)
VersionMatches_Ignored(row, r) == TRUE

(* The optimistic check: an update reads the version under its lock and    *)
(* repeats it in the UPDATE's predicate, a deletion has the predicate only.*)
VersionMatches(row, r) == row.version = r.expectedVersion

(* findOwned / requireOwned with the checks that follow it.  A row that is *)
(* found is locked FOR UPDATE; a stored reference the policy does not      *)
(* admit answers 404, a proposed one 400, a stale version 412.             *)
FindExisting(w) ==
    LET p == work[w].principal
        r == work[w].request
    IN  /\ At(w, "find")
        /\ r.operation = "create"
        /\ \E t \in Owned(rows, p.integration, r.externalId) :
             /\ RowFreeFor(w, t)
             /\ IF Usable(p, rows[t].command, archived)
                THEN /\ work' = [work EXCEPT ![w].pc = "write", ![w].target = t]
                     /\ Take(w, {RowLock(t)} \cup RefShares(rows[t].command))
                     /\ UNCHANGED <<rows, records, archived, now, completions>>
                ELSE Refuse(w)

FindNothing(w) ==
    LET p == work[w].principal
        r == work[w].request
    IN  /\ At(w, "find")
        /\ IF r.operation = "create"
           THEN /\ Owned(rows, p.integration, r.externalId) = {}
                /\ Go(w, "write")
                /\ UNCHANGED <<rows, records, archived, now, held, completions>>
           ELSE /\ OwnedActive(rows, p.integration, r.externalId) = {}
                /\ Refuse(w)

FindTarget(w) ==
    LET p == work[w].principal
        r == work[w].request
    IN  /\ At(w, "find")
        /\ r.operation # "create"
        /\ \E t \in OwnedActive(rows, p.integration, r.externalId) :
             /\ RowFreeFor(w, t)
             /\ IF /\ Usable(p, rows[t].command, archived)
                   /\ r.operation = "update" =>
                        /\ Usable(p, r.command, archived)
                        /\ VersionMatches(rows[t], r)
                THEN /\ work' = [work EXCEPT ![w].pc = "write", ![w].target = t]
                     /\ Take(w, {RowLock(t)} \cup RefShares(rows[t].command)
                                \cup IF r.operation = "update"
                                     THEN RefShares(r.command) ELSE {})
                     /\ UNCHANGED <<rows, records, archived, now, completions>>
                ELSE Refuse(w)

-------------------------------------------------------------------------------
(* The mutation, its audit event and the completed record are written by   *)
(* the same transaction; here they are staged.                             *)
Completed(w, t, command, response) ==
    LET r == work[w].request IN
    IF r.key = NoKey
    THEN NoRecord
    ELSE [operation |-> r.operation, targetExternalId |-> r.externalId,
          requestFingerprint |-> Fingerprint(r), status |-> "completed",
          response |-> response, targetTransactionId |-> t,
          retainedCategoryId |-> command.categoryId,
          retainedPaymentSourceId |-> command.paymentSourceId,
          leaseExpiresAt |-> 0, completedAt |-> now, expiresAt |-> now + Retention]

Stage(w, t, row, command, response) ==
    /\ At(w, "write")
    /\ work' = [work EXCEPT ![w].pc = "commit", ![w].target = t, ![w].row = row,
                            ![w].record = Completed(w, t, command, response),
                            ![w].response = response]
    /\ UNCHANGED <<rows, records, archived, now, held, completions>>

(* Mutant: the index covers active rows only.                              *)
IndexAdmits_ActiveOnly(i, e) == e = NoExt \/ OwnedActive(rows, i, e) = {}

(* The unique index (workspace, integration, external id) covers deleted   *)
(* rows too; an insert waits for an uncommitted one of the same identity.  *)
IndexAdmits(i, e) == e = NoExt \/ Owned(rows, i, e) = {}

InsertPending(w, i, e) ==
    /\ e # NoExt
    /\ \E v \in Workers \ {w} :
         /\ At(v, "commit")
         /\ work[v].row # NoRow
         /\ work[v].request.operation = "create"
         /\ work[v].row.owner = i
         /\ work[v].row.externalId = e

(* A fresh uuid: no row and no transaction in flight uses it.              *)
Fresh(t) ==
    rows[t] = NoRow /\ \A v \in Workers : ~At(v, "idle") => work[v].target # t

WriteCreated(w) ==
    LET p == work[w].principal
        r == work[w].request
    IN  /\ At(w, "write")
        /\ r.operation = "create"
        /\ work[w].target = NoTx
        /\ IndexAdmits(p.integration, r.externalId)
        /\ ~InsertPending(w, p.integration, r.externalId)
        /\ \E t \in TxIds :
             /\ Fresh(t)
             /\ Stage(w, t, CreatedRow(p, r), r.command,
                      [status |-> 201, command |-> r.command, version |-> 1])

(* P2002: the transaction rolls back and create() runs once more.          *)
WriteDuplicate(w) ==
    LET p == work[w].principal
        r == work[w].request
    IN  /\ At(w, "write")
        /\ r.operation = "create"
        /\ work[w].target = NoTx
        /\ ~IndexAdmits(p.integration, r.externalId)
        /\ IF work[w].retried
           THEN Refuse(w)
           ELSE /\ work' = [work EXCEPT ![w].pc = FirstStep(r), ![w].retried = TRUE]
                /\ held' = [held EXCEPT ![w] = {}]
                /\ UNCHANGED <<rows, records, archived, now, completions>>

WriteAcknowledged(w) ==
    LET t == work[w].target IN
    /\ At(w, "write")
    /\ work[w].request.operation = "create"
    /\ t # NoTx
    /\ Stage(w, t, NoRow, rows[t].command,
             [status |-> 200, command |-> NoCommand, version |-> 0])

WriteUpdated(w) ==
    LET t == work[w].target
        r == work[w].request
    IN  /\ At(w, "write")
        /\ r.operation = "update"
        /\ IF ~rows[t].deleted /\ VersionMatches(rows[t], r)
           THEN Stage(w, t, UpdatedRow(rows[t], r.command), r.command,
                      [status |-> 200, command |-> r.command,
                       version |-> rows[t].version + 1])
           ELSE Refuse(w)

WriteDeleted(w) ==
    LET t == work[w].target IN
    /\ At(w, "write")
    /\ work[w].request.operation = "delete"
    /\ IF ~rows[t].deleted /\ VersionMatches(rows[t], work[w].request)
       THEN Stage(w, t, DeletedRow(rows[t]), rows[t].command,
                  [status |-> 204, command |-> NoCommand, version |-> 0])
       ELSE Refuse(w)

(* Mutant: only the target's present references are asked for.             *)
MayRepeat_Anyway(p, record) == TRUE

(* The references that were kept with a stored answer.                     *)
MayRepeat(p, record) ==
    /\ AllowedByPolicy(p, record.retainedCategoryId, record.retainedPaymentSourceId)
    /\ Active(record.retainedCategoryId, record.retainedPaymentSourceId, archived)

(* replay: the stored answer, if the principal may still use both the      *)
(* references the target has now and those it had when the answer was made.*)
Replay(w) ==
    LET record == work[w].record
        t == record.targetTransactionId
        p == work[w].principal
    IN  /\ At(w, "replay")
        /\ IF t = NoTx \/ record.retainedPaymentSourceId = NoSource
           THEN Refuse(w)
           ELSE /\ FreeFor(w, RowLock(t))
                /\ IF /\ rows[t] # NoRow
                      /\ rows[t].owner = p.integration
                      /\ Usable(p, rows[t].command, archived)
                      /\ MayRepeat(p, record)
                   THEN /\ work' = [work EXCEPT ![w].pc = "commit",
                                      ![w].target = t,
                                      ![w].response = record.response,
                                      ![w].replayed = TRUE]
                        /\ Take(w, {RowShare(t)} \cup RefShares(rows[t].command)
                              \cup {RefShare(x) : x \in
                                    ReferencesOf(record.retainedCategoryId,
                                                 record.retainedPaymentSourceId)})
                        /\ UNCHANGED <<rows, records, archived, now, completions>>
                   ELSE Refuse(w)

(* COMMIT: everything that was staged becomes visible and every lock goes. *)
Commit(w) ==
    LET p == work[w].principal
        r == work[w].request
        t == work[w].target
        keyed == r.key # NoKey /\ ~work[w].replayed
        committed == IF work[w].row = NoRow THEN rows ELSE [rows EXCEPT ![t] = work[w].row]
    IN  /\ At(w, "commit")
        /\ rows' = committed
        /\ records' = IF keyed
                      THEN [records EXCEPT ![p.integration][r.key] = work[w].record]
                      ELSE records
        /\ completions' = IF keyed
             THEN completions \cup
                    {[integration |-> p.integration, key |-> r.key,
                      requestFingerprint |-> Fingerprint(r),
                      claimedAt |-> work[w].claimedAt,
                      completedAt |-> work[w].record.completedAt,
                      response |-> work[w].response,
                      target |-> t, version |-> committed[t].version]}
             ELSE completions
        /\ EndTransaction(w)
        /\ UNCHANGED <<archived, now>>

(* A crash, a lost connection, the 30 s limit, an FX outage, a deadlock    *)
(* victim, or any other exception: PostgreSQL rolls back.                  *)
Abort(w) ==
    /\ ~At(w, "idle")
    /\ Refuse(w)

-------------------------------------------------------------------------------
(* Members in the browser.  Their update reads no version; the trigger of  *)
(* migration 0025 advances it, and fails at the end of the column's range. *)
(* The references were found active earlier, without a lock on them: they  *)
(* may be archived by now.                                                 *)
MemberEdit(t, c) ==
    /\ rows[t] # NoRow
    /\ ~rows[t].deleted
    /\ rows[t].version < MaxVersion
    /\ RowUnlocked(t)
    /\ c.type = rows[t].command.type
    /\ c.categoryId # NoCategory
    /\ TypeMatches(c)
    /\ rows' = [rows EXCEPT ![t] = UpdatedRow(rows[t], c)]
    /\ UNCHANGED <<records, archived, now, work, held, completions>>

MemberDelete(t) ==
    /\ rows[t] # NoRow
    /\ ~rows[t].deleted
    /\ rows[t].version < MaxVersion
    /\ RowUnlocked(t)
    /\ rows' = [rows EXCEPT ![t] = DeletedRow(rows[t])]
    /\ UNCHANGED <<records, archived, now, work, held, completions>>

(* Archiving updates the category or source row, so it waits for the share *)
(* locks of the workers that rely on it; an archived row cannot be locked  *)
(* by their predicate, so restoring a category waits for nobody.           *)
ArchiveReference(x) ==
    /\ x \notin archived
    /\ Unlocked(RefShare(x))
    /\ archived' = archived \cup {x}
    /\ UNCHANGED <<rows, records, now, work, held, completions>>

RestoreCategory(c) ==
    /\ c \in archived
    /\ archived' = archived \ {c}
    /\ UNCHANGED <<rows, records, now, work, held, completions>>

(* An insert made outside this service (an operator, a restored backup).   *)
InsertOutside(t, i, e, c) ==
    /\ rows[t] = NoRow
    /\ \A v \in Workers : ~At(v, "idle") => work[v].target # t
    /\ IndexAdmits(i, e)
    /\ \A v \in Workers : ~(At(v, "commit") /\ work[v].row # NoRow
                            /\ work[v].row.owner = i /\ work[v].row.externalId = e)
    /\ rows' = [rows EXCEPT ![t] =
         [owner |-> i, externalId |-> e, command |-> c, version |-> 1, deleted |-> FALSE]]
    /\ UNCHANGED <<records, archived, now, work, held, completions>>

(* Mutant: cleanup goes by the age of the claim's lease.                   *)
Expendable_ByLease(record) ==
    /\ record # NoRecord
    /\ record.completedAt <= now

(* cleanupExpiredIdempotency, at start and every hour.                     *)
Expendable(record) ==
    /\ record # NoRecord
    /\ record.status = "completed"
    /\ record.completedAt + Retention <= now
    /\ record.expiresAt <= now

CleanupExpiredIdempotency ==
    /\ \E i \in Integrations, k \in Keys : Expendable(records[i][k])
    /\ records' = [i \in Integrations |-> [k \in Keys |->
         IF Expendable(records[i][k]) THEN NoRecord ELSE records[i][k]]]
    /\ UNCHANGED <<rows, archived, now, work, held, completions>>

Tick ==
    /\ now < MaxNow
    /\ now' = now + 1
    /\ UNCHANGED <<rows, records, archived, work, held, completions>>

-------------------------------------------------------------------------------
Step(w) ==
    \/ ClaimKey(w) \/ ClaimReplay(w) \/ ClaimConflict(w) \/ ClaimInProgress(w)
    \/ CheckReferences(w) \/ LockExternal(w)
    \/ FindExisting(w) \/ FindNothing(w) \/ FindTarget(w)
    \/ WriteCreated(w) \/ WriteDuplicate(w)
    \/ WriteAcknowledged(w) \/ WriteUpdated(w) \/ WriteDeleted(w)
    \/ Replay(w) \/ Commit(w)

Environment ==
    \/ \E t \in TxIds, c \in Commands : MemberEdit(t, c)
    \/ \E t \in TxIds : MemberDelete(t)
    \/ \E x \in Categories \cup Sources : ArchiveReference(x)
    \/ \E c \in Categories : RestoreCategory(c)
    \/ \E t \in TxIds, i \in Integrations, e \in ExtIds, c \in Commands :
         InsertOutside(t, i, e, c)
    \/ CleanupExpiredIdempotency
    \/ Tick

Next ==
    \/ \E w \in Workers, p \in Principals, r \in ClientRequests : Begin(w, p, r)
    \/ \E w \in Workers : Step(w) \/ Abort(w)
    \/ Environment

Spec == Init /\ [][Next]_vars

(* PostgreSQL grants a lock to its waiters in turn, so a step that is      *)
(* enabled again and again is taken; no client need ever send a request    *)
(* and no transaction need ever fail.                                      *)
FairSpec == Spec /\ \A w \in Workers : SF_vars(Step(w))

-------------------------------------------------------------------------------
(* Within the retention of a result its key never yields a second one:     *)
(* retries, concurrent duplicates, a crash between claim and commit, the   *)
(* recovery of a lapsed claim, or the cleanup cannot apply a request twice.*)
ExactlyOncePerKey ==
    \A c, d \in completions :
        /\ c # d
        /\ c.integration = d.integration
        /\ c.key = d.key
        => \/ c.completedAt + Retention <= d.claimedAt
           \/ d.completedAt + Retention <= c.claimedAt

(* An external id names one row of its integration for ever, deleted rows  *)
(* included, whatever mix of keys, keyless creates and outside inserts ran.*)
ExternalIdNeverReused ==
    \A s, t \in TxIds :
        /\ rows[s] # NoRow /\ rows[t] # NoRow
        /\ rows[s].owner = rows[t].owner
        /\ rows[s].externalId = rows[t].externalId
        /\ rows[s].externalId # NoExt
        => s = t

(* A replayed answer is the one first given to the same request under the  *)
(* same key, however much the row was edited since, and is younger than    *)
(* the retention period when it is claimed.                                *)
ReplayFaithful ==
    \A w \in Workers :
        At(w, "commit") /\ work[w].replayed =>
            \E c \in completions :
                /\ c.integration = work[w].principal.integration
                /\ c.key = work[w].request.key
                /\ c.requestFingerprint = Fingerprint(work[w].request)
                /\ c.response = work[w].response
                /\ c.target = work[w].target

(* A worker about to answer 2xx holds its references still: those of the   *)
(* target, those it writes and those its answer shows, a stored answer     *)
(* included, are active and admitted by the policy of the credential until *)
(* the commit, archives, edits and other credentials notwithstanding.      *)
AnswersAuthorized ==
    \A w \in Workers :
        At(w, "commit") =>
            /\ rows[work[w].target] # NoRow =>
                 Usable(work[w].principal, rows[work[w].target].command, archived)
            /\ work[w].row # NoRow =>
                 Usable(work[w].principal, work[w].row.command, archived)
            /\ work[w].response.command # NoCommand =>
                 Usable(work[w].principal, work[w].response.command, archived)

(* A row changes one version at a time, keeps its owner and external id,   *)
(* and never changes again once deleted: an ETag names one state of a row. *)
VersionDiscipline ==
    [][\A t \in TxIds :
         rows[t] # NoRow /\ rows'[t] # rows[t] =>
            /\ rows'[t] # NoRow
            /\ ~rows[t].deleted
            /\ rows'[t].version = rows[t].version + 1
            /\ rows'[t].owner = rows[t].owner
            /\ rows'[t].externalId = rows[t].externalId]_vars

(* A replacement or deletion is only ever applied to the version its       *)
(* client named: no member's edit is overwritten unseen.                   *)
NoLostUpdate ==
    [][\A w \in Workers :
         Commit(w) /\ work[w].row # NoRow /\ work[w].request.operation # "create"
            => rows[work[w].target].version = work[w].request.expectedVersion]_vars

(* Two workers never hold the same exclusive lock, and a row locked for    *)
(* writing is not share-locked by anyone else.                             *)
LocksExclusive ==
    \A v, w \in Workers : v # w =>
        /\ \A i \in Integrations, k \in Keys :
             ~(KeyLock(i, k) \in held[v] /\ KeyLock(i, k) \in held[w])
        /\ \A i \in Integrations, e \in ExtIds :
             ~(ExternalLock(i, e) \in held[v] /\ ExternalLock(i, e) \in held[w])
        /\ \A t \in TxIds :
             RowLock(t) \in held[v] =>
                RowLock(t) \notin held[w] /\ RowShare(t) \notin held[w]

(* The promise: every behaviour is one in which each accepted request took *)
(* effect in a single step.                                                *)
Atomic == INSTANCE AtomicLedger WITH
            rows <- rows, records <- records, archived <- archived, now <- now
AtomicSpec == Atomic!Spec

(* A request that began is answered or rolled back.                        *)
EveryRequestEnds ==
    \A w \in Workers : ~At(w, "idle") ~> At(w, "idle")
===============================================================================
