----------------------------- MODULE AtomicLedger -----------------------------
(***************************************************************************)
(* What ExternalTransactionOwnershipService promises its clients, with no  *)
(* locks, no transactions in flight and no interleaving: every accepted    *)
(* machine request takes effect in one step, judged against the ledger,    *)
(* the policies and the key's record as they are in that very step.        *)
(* ExternalTransactions is shown to implement this module.                 *)
(***************************************************************************)
EXTENDS LedgerData

CONSTANT LegacyRecords   \* claims an earlier release may have left behind

VARIABLES
    rows,       \* [TxIds -> Row or NoRow]
    records,    \* [Integrations -> [Keys -> Record or NoRecord]]
    archived,   \* archived categories and payment sources
    now

vars == <<rows, records, archived, now>>

Init ==
    /\ rows = [t \in TxIds |-> NoRow]
    /\ records \in [Integrations -> [Keys -> Nullable(LegacyRecords, NoRecord)]]
    /\ archived = {}
    /\ now = 0

-------------------------------------------------------------------------------
(* The key of the request, if it has one, is spent on this result; a       *)
(* keyless create leaves no record.  The clock may have moved since the    *)
(* result was computed, never backwards.                                   *)
SpendKey(p, r, t, row, response) ==
    IF r.key = NoKey
    THEN UNCHANGED records
    ELSE \E at \in 0 .. now :
           /\ Claimable(records[p.integration][r.key], r, at)
           /\ records' = [records EXCEPT ![p.integration][r.key] =
                [operation |-> r.operation, targetExternalId |-> r.externalId,
                 requestFingerprint |-> Fingerprint(r), status |-> "completed",
                 response |-> response, targetTransactionId |-> t,
                 retainedCategoryId |-> row.command.categoryId,
                 retainedPaymentSourceId |-> row.command.paymentSourceId,
                 leaseExpiresAt |-> 0, completedAt |-> at,
                 expiresAt |-> at + Retention]]

(* 201: a new row, for an external id no row of the integration ever had.  *)
Create(p, r) ==
    /\ r.operation = "create"
    /\ Usable(p, r.command, archived)
    /\ r.externalId # NoExt => Owned(rows, p.integration, r.externalId) = {}
    /\ \E t \in TxIds :
         /\ rows[t] = NoRow
         /\ rows' = [rows EXCEPT ![t] = CreatedRow(p, r)]
         /\ SpendKey(p, r, t, CreatedRow(p, r),
                     [status |-> 201, command |-> r.command, version |-> 1])
    /\ UNCHANGED <<archived, now>>

(* 200: the external id is known, deleted or not: nothing changes, and the *)
(* answer says so only to a principal that may use the stored references.  *)
Acknowledge(p, r) ==
    /\ r.operation = "create"
    /\ r.externalId # NoExt
    /\ Usable(p, r.command, archived)
    /\ \E t \in Owned(rows, p.integration, r.externalId) :
         /\ Usable(p, rows[t].command, archived)
         /\ SpendKey(p, r, t, rows[t],
                     [status |-> 200, command |-> NoCommand, version |-> 0])
    /\ UNCHANGED <<rows, archived, now>>

(* 200: the row was at the version the client had seen.                    *)
Update(p, r) ==
    /\ r.operation = "update"
    /\ Usable(p, r.command, archived)
    /\ \E t \in OwnedActive(rows, p.integration, r.externalId) :
         /\ Usable(p, rows[t].command, archived)
         /\ rows[t].version = r.expectedVersion
         /\ rows' = [rows EXCEPT ![t] = UpdatedRow(rows[t], r.command)]
         /\ SpendKey(p, r, t, UpdatedRow(rows[t], r.command),
                     [status |-> 200, command |-> r.command,
                      version |-> r.expectedVersion + 1])
    /\ UNCHANGED <<archived, now>>

(* 204: likewise, the row becomes a tombstone.                             *)
Delete(p, r) ==
    /\ r.operation = "delete"
    /\ \E t \in OwnedActive(rows, p.integration, r.externalId) :
         /\ Usable(p, rows[t].command, archived)
         /\ rows[t].version = r.expectedVersion
         /\ rows' = [rows EXCEPT ![t] = DeletedRow(rows[t])]
         /\ SpendKey(p, r, t, rows[t],
                     [status |-> 204, command |-> NoCommand, version |-> 0])
    /\ UNCHANGED <<archived, now>>

Serve(p, r) ==
    /\ r.operation \in p.scopes
    /\ Create(p, r) \/ Acknowledge(p, r) \/ Update(p, r) \/ Delete(p, r)

-------------------------------------------------------------------------------
(* The rest of the world: members editing in the browser, inserts made     *)
(* outside the service, the cleanup timer and the clock.                   *)
Member ==
    /\ \E t \in TxIds :
         /\ rows[t] # NoRow
         /\ ~rows[t].deleted
         /\ rows[t].version < MaxVersion
         /\ \/ rows' = [rows EXCEPT ![t] = DeletedRow(rows[t])]
            \/ \E c \in Commands :
                 rows' = [rows EXCEPT ![t] = UpdatedRow(rows[t], c)]
    /\ UNCHANGED <<records, archived, now>>

Outside ==
    /\ \E t \in TxIds, i \in Integrations, e \in ExtIds, c \in Commands :
         /\ rows[t] = NoRow
         /\ Owned(rows, i, e) = {}
         /\ rows' = [rows EXCEPT ![t] =
              [owner |-> i, externalId |-> e, command |-> c,
               version |-> 1, deleted |-> FALSE]]
    /\ UNCHANGED <<records, archived, now>>

Archive ==
    /\ archived' \in SUBSET (Categories \cup Sources)
    /\ UNCHANGED <<rows, records, now>>

(* The cleanup removes, at once, records that decide nothing any more.     *)
Forget ==
    /\ \E gone \in SUBSET (Integrations \X Keys) :
         /\ \A ik \in gone : ~Decides(records[ik[1]][ik[2]], now)
         /\ records' = [i \in Integrations |-> [k \in Keys |->
              IF <<i, k>> \in gone THEN NoRecord ELSE records[i][k]]]
    /\ UNCHANGED <<rows, archived, now>>

Tick ==
    /\ now < MaxNow
    /\ now' = now + 1
    /\ UNCHANGED <<rows, records, archived>>

Next ==
    \/ \E p \in Principals, r \in Requests : Serve(p, r)
    \/ Member \/ Outside \/ Archive \/ Forget \/ Tick

Spec == Init /\ [][Next]_vars
===============================================================================
