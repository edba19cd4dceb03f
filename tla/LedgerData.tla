------------------------------ MODULE LedgerData ------------------------------
(***************************************************************************)
(* What the machine-facing ledger stores and the pure decisions taken on   *)
(* it: the rows of "transactions" and of "integration_idempotency_records",*)
(* the requests a machine client sends, the credential policy, and the     *)
(* fingerprint of a request.  Amounts, dates, descriptions, notes and tags *)
(* are one opaque "body" of a command: no property tells them apart.       *)
(***************************************************************************)
EXTENDS Integers

CONSTANTS
    Principals,     \* authenticated machine principals (credential + policy)
    Integrations,   \* durable integrations of one workspace
    TxIds,          \* transaction ids (uuids) that may ever be drawn
    Keys,           \* Idempotency-Key values
    ExtIds,         \* normalized external ids
    Commands,       \* normalized transaction bodies a request may carry
    Categories,
    Sources,        \* payment sources
    Types,          \* "expense" / "income"
    CategoryType,   \* the immutable type of every category
    MaxVersion,     \* largest value of the INTEGER column "version"
    MaxNow,         \* bound of the clock
    Retention,      \* IDEMPOTENCY_RETENTION_MS, in ticks
    Lease,          \* IDEMPOTENCY_LEASE_MS, in ticks
    NoCategory,     \* a null category reference
    NoSource,       \* a null payment source, of a record without a result
    NoKey,          \* no Idempotency-Key header
    NoExt,          \* no external id
    NoCommand,      \* a request or response without a transaction body
    NoTx, NoRow, NoRecord

Nullable(S, null) == S \cup {null}

(* The policy part of MachinePrincipal, with the scopes of its credential. *)
PrincipalType ==
    [integration : Integrations,
     scopes : SUBSET {"create", "update", "delete"},
     categoryAllowlistEnabled : BOOLEAN,
     allowedCategoryIds : SUBSET Categories,
     paymentSourceAllowlistEnabled : BOOLEAN,
     allowedPaymentSourceIds : SUBSET Sources]

CommandType ==
    [type : Types,
     categoryId : Nullable(Categories, NoCategory),
     paymentSourceId : Sources,
     body : Nat]

ASSUME ConstantsAssumption ==
    /\ Principals \subseteq PrincipalType
    /\ Commands \subseteq CommandType
    /\ CategoryType \in [Categories -> Types]
    /\ MaxVersion \in Nat \ {0}
    /\ MaxNow \in Nat
    /\ Retention \in Nat \ {0}
    /\ Lease \in Nat \ {0}
    /\ NoCategory \notin Categories \cup Sources
    /\ NoSource \notin Sources
    /\ NoKey \notin Keys
    /\ NoExt \notin ExtIds
    /\ NoCommand \notin Commands
    /\ NoTx \notin TxIds

(* Versions an If-Match may name: assertVersion refuses the others.        *)
ExpectedVersions == 1 .. MaxVersion - 1

CreateRequests ==
    [operation : {"create"}, key : Nullable(Keys, NoKey),
     externalId : Nullable(ExtIds, NoExt), command : Commands, expectedVersion : {0}]

UpdateRequests ==
    [operation : {"update"}, key : Keys,
     externalId : ExtIds, command : Commands, expectedVersion : ExpectedVersions]

DeleteRequests ==
    [operation : {"delete"}, key : Keys,
     externalId : ExtIds, command : {NoCommand}, expectedVersion : ExpectedVersions]

Requests == CreateRequests \cup UpdateRequests \cup DeleteRequests

(***************************************************************************)
(* Rows.  A row keeps its owner and external id for ever, deleted or not.  *)
(***************************************************************************)
Row ==
    [owner : Integrations, externalId : Nullable(ExtIds, NoExt),
     command : Commands, version : 1 .. MaxVersion, deleted : BOOLEAN]

Response ==
    [status : {200, 201, 204}, command : Nullable(Commands, NoCommand),
     version : 0 .. MaxVersion]

(* The canonical fingerprint covers the operation, the target, the         *)
(* normalized body and the expected version, and nothing the server may    *)
(* change: no rates, no base amounts, no labels.                           *)
Fingerprint(r) ==
    <<r.operation, r.externalId, r.command, r.expectedVersion>>

Fingerprints == {Fingerprint(r) : r \in Requests}

Record ==
    [operation : {"create", "update", "delete"},
     targetExternalId : Nullable(ExtIds, NoExt),
     requestFingerprint : Fingerprints,
     status : {"in_progress", "completed"},
     response : Response,
     targetTransactionId : Nullable(TxIds, NoTx),
     retainedCategoryId : Nullable(Categories, NoCategory),
     retainedPaymentSourceId : Nullable(Sources, NoSource),
     leaseExpiresAt : Nat, completedAt : Nat, expiresAt : Nat]

(* The nulls that stand for the absence of a row are no rows themselves.   *)
ASSUME AbsenceAssumption == NoRow \notin Row /\ NoRecord \notin Record

(* Mutant: a key is compared with its target alone.                        *)
SameIntent_SameTarget(record, r) == record.targetExternalId = r.externalId

(* A record stands for the request that is now presented under its key.    *)
SameIntent(record, r) ==
    /\ record.operation = r.operation
    /\ record.targetExternalId = r.externalId
    /\ record.requestFingerprint = Fingerprint(r)

(* A record still decides the fate of its key: completed records stop      *)
(* doing so when they expire, in-progress ones never do by themselves.     *)
Decides(record, now) ==
    /\ record # NoRecord
    /\ record.status # "completed" \/ record.expiresAt > now

LeaseLapsed(record, now) ==
    /\ record # NoRecord
    /\ record.status = "in_progress"
    /\ record.leaseExpiresAt <= now

(* A claim may go on to mutate: nothing decides the key any more, or the   *)
(* claim of a crashed worker is taken over by the same request.            *)
Claimable(record, r, now) ==
    \/ ~Decides(record, now)
    \/ LeaseLapsed(record, now) /\ SameIntent(record, r)

(***************************************************************************)
(* assertReferences: the allowlists of the principal, then the liveness of *)
(* the referenced category (and its type, when the type is known) and of   *)
(* the payment source.                                                     *)
(***************************************************************************)
AllowedByPolicy(p, category, source) ==
    /\ p.categoryAllowlistEnabled =>
           category # NoCategory /\ category \in p.allowedCategoryIds
    /\ p.paymentSourceAllowlistEnabled => source \in p.allowedPaymentSourceIds

Active(category, source, archived) ==
    /\ category # NoCategory => category \notin archived
    /\ source \notin archived

TypeMatches(command) ==
    command.categoryId # NoCategory => CategoryType[command.categoryId] = command.type

Usable(p, command, archived) ==
    /\ AllowedByPolicy(p, command.categoryId, command.paymentSourceId)
    /\ Active(command.categoryId, command.paymentSourceId, archived)
    /\ TypeMatches(command)

(* The references of a command, as names of the rows that are locked.      *)
ReferencesOf(category, source) == {category, source} \ {NoCategory}

(* Rows of an integration under an external id, the deleted ones included. *)
Owned(rows, i, e) ==
    {t \in TxIds : rows[t] # NoRow /\ rows[t].owner = i /\ rows[t].externalId = e}

OwnedActive(rows, i, e) == {t \in Owned(rows, i, e) : ~rows[t].deleted}

(* Mutants: a first version below the column's default; a deletion that    *)
(* leaves the version where it was.                                        *)
CreatedRow_Zero(p, r) ==
    [owner |-> p.integration, externalId |-> r.externalId,
     command |-> r.command, version |-> 0, deleted |-> FALSE]

DeletedRow_SameVersion(row) == [row EXCEPT !.deleted = TRUE]

(* Row values the three mutations write.                                   *)
CreatedRow(p, r) ==
    [owner |-> p.integration, externalId |-> r.externalId,
     command |-> r.command, version |-> 1, deleted |-> FALSE]

UpdatedRow(row, command) ==
    [row EXCEPT !.command = command, !.version = row.version + 1]

DeletedRow(row) ==
    [row EXCEPT !.deleted = TRUE, !.version = row.version + 1]
===============================================================================
