------------------------- MODULE IntegrationCredentials -------------------------
(***************************************************************************)
(* IntegrationCredentialService with the triggers of migrations 0023/0024: *)
(* the credentials of one workspace's integrations, and the administrators *)
(* on whose authority they exist.  A worker is one transaction: issuing,   *)
(* rotating, revoking or deleting a credential, taking a member's role or  *)
(* account away, or recording the use of a credential.  All of them are    *)
(* READ COMMITTED, but the deletion of an account is SERIALIZABLE and sees *)
(* the database as it was when it began.                                   *)
(***************************************************************************)
EXTENDS Integers, FiniteSets

CONSTANTS
    Users,          \* numbers: locks are taken in their order
    Integrations, Credentials, Workers,
    MaxNow,         \* bound of the clock
    MaxLifetime,    \* MAX_CREDENTIAL_LIFETIME_MS, in ticks
    UsageInterval,  \* USAGE_UPDATE_INTERVAL_MS, in ticks
    NoUser, NoIntegration, NoCredential, NoTime

ASSUME CredentialsAssumption ==
    /\ Users \subseteq Nat
    /\ {MaxLifetime, UsageInterval} \subseteq Nat \ {0}
    /\ MaxNow \in Nat
    /\ NoUser \notin Users
    /\ NoTime \notin Int
    /\ NoIntegration \notin Integrations
    /\ NoCredential \notin Credentials
    /\ IsFiniteSet(Users)

VARIABLES
    role,          \* role of every user in the workspace, or "none"
    accounts,      \* users whose account exists
    integrations,  \* committed rows
    credentials,   \* committed rows, deleted ones included
    now,
    work,          \* what each worker is doing
    held           \* the locks each worker holds

vars == <<role, accounts, integrations, credentials, now, work, held>>

Nullable(S, null) == S \cup {null}

IntegrationRow ==
    [creatorReference : Users, createdBy : Nullable(Users, NoUser),
     status : {"active", "deleted"}]

(* Only a revoked version is ever deleted.  "replaces" is the version that *)
(* the audit event of a rotation names.                                    *)
CredentialRow ==
    {row \in [integration : Integrations, status : {"active", "revoked"},
              deleted : BOOLEAN, createdAt : Nat, expiresAt : Nat,
              lastUsedAt : Nullable(Nat, NoTime),
              replaces : Nullable(Credentials, NoCredential)] :
       row.deleted => row.status = "revoked"}

ASSUME RowsAssumption ==
    NoIntegration \notin IntegrationRow /\ NoCredential \notin CredentialRow

IntegrationTable == [Integrations -> Nullable(IntegrationRow, NoIntegration)]
CredentialTable == [Credentials -> Nullable(CredentialRow, NoCredential)]

NoIntegrations == [i \in Integrations |-> NoIntegration]
NoCredentials == [c \in Credentials |-> NoCredential]

AuthorityLock(u) == <<"authority", u>>
IntegrationLock(i) == <<"integration", i>>
CredentialLock(c) == <<"credential", c>>

Locks ==
    {AuthorityLock(u) : u \in Users} \cup {IntegrationLock(i) : i \in Integrations}
    \cup {CredentialLock(c) : c \in Credentials}

Management == {"issueFirst", "issue", "revoke", "rotate", "delete"}
Operations == Management \cup {"demote", "deleteAccount", "authenticate"}

Idle == [pc |-> "idle"]

(* "integrations" and "credentials" are the rows staged for the commit; in *)
(* an account deletion that has not got there, the rows of its snapshot.   *)
Work ==
    [pc : {"audit", "user", "authority", "integration", "credential", "decide",
           "commit", "usage"},
     op : Operations, actor : Users,
     integration : Nullable(Integrations, NoIntegration),
     credential : Nullable(Credentials, NoCredential),
     at : Nat, queue : SUBSET Users, role : {"admin", "member", "none"},
     integrations : IntegrationTable, credentials : CredentialTable]

TypeOK ==
    /\ role \in [Users -> {"admin", "member", "none"}]
    /\ accounts \in SUBSET Users
    /\ integrations \in IntegrationTable
    /\ credentials \in CredentialTable
    /\ now \in 0 .. MaxNow
    /\ work \in [Workers -> Work \cup {Idle}]
    /\ held \in [Workers -> SUBSET Locks]

Init ==
    /\ role \in [Users -> {"admin", "member"}]
    /\ \E u \in Users : role[u] = "admin"
    /\ accounts = Users
    /\ integrations = NoIntegrations
    /\ credentials = NoCredentials
    /\ now = 0
    /\ work = [w \in Workers |-> Idle]
    /\ held = [w \in Workers |-> {}]

-------------------------------------------------------------------------------
(* Mutant: a lock is granted to whoever does not hold it yet.              *)
FreeFor_Shared(w, lock) == lock \notin held[w]

FreeFor(w, lock) == \A v \in Workers \ {w} : lock \notin held[v]

Take(w, locks) == held' = [held EXCEPT ![w] = @ \cup locks]

At(w, step) == work[w].pc = step

Database == <<role, accounts, integrations, credentials>>

(* The transaction ends without a change: an exception, an answer that     *)
(* changes nothing, or one of PostgreSQL's aborts.                         *)
Refuse(w) ==
    /\ work' = [work EXCEPT ![w] = Idle]
    /\ held' = [held EXCEPT ![w] = {}]
    /\ UNCHANGED <<Database, now>>

(* The row of the actor in "users".  An audit event or an integration that *)
(* refers to it shares it until the transaction ends (KEY SHARE); deleting *)
(* the account locks it, before the trigger that asks for the authority.   *)
SharesUser(w) == At(w, "user") \/ (At(w, "commit") /\ work[w].op \in Management)
LocksUser(w) ==
    work[w].pc \in {"authority", "decide", "commit"} /\ work[w].op = "deleteAccount"

SameUser(v, w) ==
    ~At(v, "idle") /\ ~At(w, "idle") /\ work[v].actor = work[w].actor

Refers(w) == \A v \in Workers \ {w} : ~(SameUser(v, w) /\ LocksUser(v))

(* requireAdministrator: membership is read in the transaction, unlocked.  *)
Administrator(u) == role[u] = "admin"

Start(w, op, actor, i, c, users) ==
    /\ At(w, "idle")
    /\ work' = [work EXCEPT ![w] =
         [pc |-> "authority", op |-> op, actor |-> actor, integration |-> i,
          credential |-> c, at |-> now, queue |-> users, role |-> role[actor],
          integrations |-> NoIntegrations, credentials |-> NoCredentials]]
    /\ UNCHANGED <<Database, now, held>>

(* Mutant: only the administrator who acts is locked.                      *)
Authorities_ActorOnly(i, actor) == {actor}

(* The creator's authority and the acting administrator's.                 *)
Authorities(i, actor) == {integrations[i].creatorReference, actor}

(* createIntegrationWithCredential.  The guard of the management routes    *)
(* admits administrators only; the service asks again.                     *)
BeginIssueFirst(w, actor) ==
    /\ Administrator(actor)
    /\ Start(w, "issueFirst", actor, NoIntegration, NoCredential, {actor})

(* createCredential, for an integration that is read before any lock.      *)
BeginIssue(w, actor, i) ==
    /\ Administrator(actor)
    /\ integrations[i] # NoIntegration
    /\ Start(w, "issue", actor, i, NoCredential, Authorities(i, actor))

(* revokeCredential, rotateCredential, deleteCredential: lockCredential's  *)
(* first read names the integration and its creator.                       *)
BeginLifecycle(w, op, actor, c) ==
    /\ Administrator(actor)
    /\ credentials[c] # NoCredential
    /\ LET i == credentials[c].integration IN
       Start(w, op, actor, i, c, Authorities(i, actor))

(* The administrator is demoted or removed: the row of the membership is   *)
(* updated, and its trigger takes the same lock before it revokes.         *)
BeginDemote(w, u) ==
    /\ role[u] = "admin"
    /\ Start(w, "demote", u, NoIntegration, NoCredential, {u})

(* deleteUserAccount: the snapshot is that of its first read.  The last    *)
(* member's deletion, which takes the workspace along, is left out.        *)
BeginDeleteAccount(w, u) ==
    /\ At(w, "idle")
    /\ u \in accounts
    /\ \E v \in Users \ {u} : role[v] # "none"
    /\ work' = [work EXCEPT ![w] =
         [pc |-> "audit", op |-> "deleteAccount", actor |-> u,
          integration |-> NoIntegration, credential |-> NoCredential,
          at |-> now, queue |-> {u}, role |-> role[u],
          integrations |-> integrations, credentials |-> credentials]]
    /\ UNCHANGED <<Database, now, held>>

-------------------------------------------------------------------------------
(* The deletion of an account: its audit event, then the row of the user,  *)
(* which another deletion may have removed.                                *)
ReferToUser(w) ==
    /\ At(w, "audit")
    /\ Refers(w)
    /\ IF work[w].actor \in accounts
       THEN work' = [work EXCEPT ![w].pc = "user"] /\ UNCHANGED <<Database, now, held>>
       ELSE Refuse(w)

LockUser(w) ==
    /\ At(w, "user")
    /\ \A v \in Workers \ {w} : ~(SameUser(v, w) /\ (LocksUser(v) \/ SharesUser(v)))
    /\ IF work[w].actor \in accounts
       THEN work' = [work EXCEPT ![w].pc = "authority"] /\ UNCHANGED <<Database, now, held>>
       ELSE Refuse(w)

(* Mutant: the creator's lock comes first, then the actor's.               *)
NextAuthority_CreatorFirst(w) ==
    IF work[w].queue = {work[w].actor} THEN work[w].actor
    ELSE CHOOSE u \in work[w].queue : u # work[w].actor

(* lockManagementAuthority: in the order of the user ids.                  *)
NextAuthority(w) ==
    CHOOSE u \in work[w].queue : \A v \in work[w].queue : u <= v

AfterAuthority(op) ==
    IF op \in {"issue", "revoke", "rotate", "delete"} THEN "integration" ELSE "decide"

TakeAuthority(w) ==
    /\ At(w, "authority")
    /\ LET u == NextAuthority(w)
           rest == work[w].queue \ {u}
       IN /\ FreeFor(w, AuthorityLock(u))
          /\ Take(w, {AuthorityLock(u)})
          /\ work' = [work EXCEPT
               ![w].queue = rest,
               ![w].pc = IF rest = {} THEN AfterAuthority(work[w].op) ELSE "authority"]
    /\ UNCHANGED <<Database, now>>

TakeIntegration(w) ==
    /\ At(w, "integration")
    /\ FreeFor(w, IntegrationLock(work[w].integration))
    /\ Take(w, {IntegrationLock(work[w].integration)})
    /\ work' = [work EXCEPT ![w].pc =
                  IF work[w].op = "issue" THEN "decide" ELSE "credential"]
    /\ UNCHANGED <<Database, now>>

TakeCredential(w) ==
    /\ At(w, "credential")
    /\ FreeFor(w, CredentialLock(work[w].credential))
    /\ Take(w, {CredentialLock(work[w].credential)})
    /\ work' = [work EXCEPT ![w].pc = "decide"]
    /\ UNCHANGED <<Database, now>>

-------------------------------------------------------------------------------
(* Under the locks everything is read again, and the writes are staged.    *)
Deciding(w, op) == At(w, "decide") /\ work[w].op = op

Stage(w, newIntegrations, newCredentials) ==
    /\ work' = [work EXCEPT ![w].pc = "commit",
                            ![w].integrations = newIntegrations,
                            ![w].credentials = newCredentials]
    /\ UNCHANGED <<Database, now>>

Integration(w) == integrations[work[w].integration]
Credential(w) == credentials[work[w].credential]

(* Ids are drawn at random: none that exists or is staged is drawn again.  *)
FreshIntegration(i) ==
    /\ integrations[i] = NoIntegration
    /\ \A v \in Workers : At(v, "commit") => work[v].integrations[i] = NoIntegration

FreshCredential(c) ==
    /\ credentials[c] = NoCredential
    /\ \A v \in Workers : At(v, "commit") => work[v].credentials[c] = NoCredential

(* The named versions, revoked.                                            *)
Revoked(cs) ==
    [c \in Credentials |->
       IF c \in cs THEN [credentials[c] EXCEPT !.status = "revoked"] ELSE NoCredential]

NewCredential(w, i, lifetime, previous) ==
    [integration |-> i, status |-> "active", deleted |-> FALSE,
     createdAt |-> work[w].at, expiresAt |-> work[w].at + lifetime,
     lastUsedAt |-> NoTime, replaces |-> previous]

DecideIssueFirst(w) ==
    /\ Deciding(w, "issueFirst")
    /\ IF Administrator(work[w].actor)
       THEN /\ Refers(w)
            /\ \E i \in Integrations, c \in Credentials, lifetime \in 1 .. MaxLifetime :
                 /\ FreshIntegration(i)
                 /\ FreshCredential(c)
                 /\ Stage(w,
                      [NoIntegrations EXCEPT ![i] =
                         [creatorReference |-> work[w].actor,
                          createdBy |-> work[w].actor, status |-> "active"]],
                      [NoCredentials EXCEPT ![c] =
                         NewCredential(w, i, lifetime, NoCredential)])
            /\ UNCHANGED held
       ELSE Refuse(w)

(* An active integration whose creator is still an administrator, changed  *)
(* by an administrator.                                                    *)
Manageable(w) ==
    /\ Integration(w).status = "active"
    /\ Integration(w).createdBy # NoUser
    /\ Administrator(Integration(w).createdBy)
    /\ Administrator(work[w].actor)

DecideIssue(w) ==
    /\ Deciding(w, "issue")
    /\ IF Manageable(w)
       THEN /\ Refers(w)
            /\ \E c \in Credentials, lifetime \in 1 .. MaxLifetime :
                 /\ FreshCredential(c)
                 /\ Stage(w, NoIntegrations,
                      [NoCredentials EXCEPT ![c] =
                         NewCredential(w, work[w].integration, lifetime, NoCredential)])
            /\ UNCHANGED held
       ELSE Refuse(w)

(* assertTarget, on the row that was read again under the locks.           *)
TargetExists(w) ==
    ~Credential(w).deleted /\ Integration(w).status # "deleted"

(* A version that is already revoked is only audited once more.            *)
DecideRevoke(w) ==
    /\ Deciding(w, "revoke")
    /\ IF TargetExists(w) /\ Administrator(work[w].actor)
       THEN /\ Refers(w)
            /\ Stage(w, NoIntegrations,
                 Revoked({c \in {work[w].credential} : credentials[c].status = "active"}))
            /\ UNCHANGED held
       ELSE Refuse(w)

(* Mutant: any version that was not deleted may be rotated.                *)
Rotatable_AnyStatus(row, at) == ~row.deleted

Rotatable(row, at) == ~row.deleted /\ row.status = "active" /\ row.expiresAt > at

DecideRotate(w) ==
    /\ Deciding(w, "rotate")
    /\ IF TargetExists(w) /\ Rotatable(Credential(w), work[w].at) /\ Manageable(w)
       THEN /\ Refers(w)
            /\ \E c \in Credentials, lifetime \in 1 .. MaxLifetime :
                 /\ FreshCredential(c)
                 /\ Stage(w, NoIntegrations,
                      [Revoked({work[w].credential}) EXCEPT ![c] =
                         NewCredential(w, work[w].integration, lifetime,
                                       work[w].credential)])
            /\ UNCHANGED held
       ELSE Refuse(w)

(* Mutant: a version need not be revoked before it is deleted.             *)
Deletable_Active(row) == TRUE

Deletable(row) == row.status = "revoked"

(* With its last version the integration goes.                             *)
DecideDelete(w) ==
    /\ Deciding(w, "delete")
    /\ IF TargetExists(w) /\ Administrator(work[w].actor) /\ Deletable(Credential(w))
       THEN LET c == work[w].credential
                i == work[w].integration
                remaining == {d \in Credentials \ {c} :
                    /\ credentials[d] # NoCredential
                    /\ credentials[d].integration = i
                    /\ ~credentials[d].deleted}
            IN /\ Refers(w)
               /\ Stage(w,
                    IF remaining = {}
                    THEN [NoIntegrations EXCEPT ![i] =
                            [Integration(w) EXCEPT !.status = "deleted"]]
                    ELSE NoIntegrations,
                    [NoCredentials EXCEPT ![c] = [Credential(w) EXCEPT !.deleted = TRUE]])
               /\ UNCHANGED held
       ELSE Refuse(w)

(* revoke_integration_creator_authority: the active versions of the rows a *)
(* statement sees.                                                         *)
ActiveUnder(u, seenIntegrations, seenCredentials) ==
    {c \in Credentials :
       /\ seenCredentials[c] # NoCredential
       /\ seenCredentials[c].status = "active"
       /\ seenIntegrations[seenCredentials[c].integration].createdBy = u}

(* A membership that went or changed while its lock was awaited stays so.  *)
DecideDemote(w) ==
    LET revoked == ActiveUnder(work[w].actor, integrations, credentials) IN
    /\ Deciding(w, "demote")
    /\ \A c \in revoked : FreeFor(w, CredentialLock(c))
    /\ IF role[work[w].actor] = work[w].role
       THEN /\ Take(w, {CredentialLock(c) : c \in revoked})
            /\ Stage(w, NoIntegrations, Revoked(revoked))
       ELSE Refuse(w)

(* The same under the snapshot.  A row that the deletion has to change and *)
(* that was changed or created since is a serialization failure: the       *)
(* versions to revoke, the integrations to detach, the membership.         *)
CreatedByActor(w, table) ==
    {i \in Integrations : table[i] # NoIntegration /\ table[i].createdBy = work[w].actor}

DecideDeleteAccount(w) ==
    LET seen == work[w]
        revoked == ActiveUnder(seen.actor, seen.integrations, seen.credentials)
        detached == CreatedByActor(w, integrations)
    IN  /\ Deciding(w, "deleteAccount")
        /\ \A c \in revoked : FreeFor(w, CredentialLock(c))
        /\ \A i \in detached : FreeFor(w, IntegrationLock(i))
        /\ IF /\ \A c \in revoked : credentials[c] = seen.credentials[c]
              /\ \A i \in detached : integrations[i] = seen.integrations[i]
              /\ role[seen.actor] = seen.role
           THEN /\ Take(w, {CredentialLock(c) : c \in revoked}
                           \cup {IntegrationLock(i) : i \in detached})
                /\ Stage(w,
                     [i \in Integrations |->
                        IF i \in detached
                        THEN [integrations[i] EXCEPT !.createdBy = NoUser]
                        ELSE NoIntegration],
                     Revoked(revoked))
           ELSE Refuse(w)

-------------------------------------------------------------------------------
Overlay(table, writes, none) ==
    [x \in DOMAIN table |-> IF writes[x] # none THEN writes[x] ELSE table[x]]

(* A lost role is lower or none; when an account takes the workspace's     *)
(* last administrator along, another member succeeds.                      *)
RolesAfter(w) ==
    LET u == work[w].actor IN
    IF work[w].op = "demote"
    THEN {[role EXCEPT ![u] = lost] : lost \in {"member", "none"}}
    ELSE IF work[w].op = "deleteAccount"
    THEN LET left == [role EXCEPT ![u] = "none"] IN
         IF role[u] = "admin" /\ \A v \in Users \ {u} : role[v] # "admin"
         THEN {[left EXCEPT ![v] = "admin"] : v \in {x \in Users : left[x] = "member"}}
         ELSE {left}
    ELSE {role}

Commit(w) ==
    /\ At(w, "commit")
    /\ integrations' = Overlay(integrations, work[w].integrations, NoIntegration)
    /\ credentials' = Overlay(credentials, work[w].credentials, NoCredential)
    /\ role' \in RolesAfter(w)
    /\ accounts' = IF work[w].op = "deleteAccount"
                   THEN accounts \ {work[w].actor} ELSE accounts
    /\ work' = [work EXCEPT ![w] = Idle]
    /\ held' = [held EXCEPT ![w] = {}]
    /\ UNCHANGED now

Abort(w) ==
    /\ ~At(w, "idle")
    /\ Refuse(w)

-------------------------------------------------------------------------------
(* authenticateAuthorizationHeader: one read of the credential, its        *)
(* integration and its creator's memberships at the time "at".             *)
Authenticates(c, at) ==
    /\ credentials[c] # NoCredential
    /\ credentials[c].status = "active"
    /\ ~credentials[c].deleted
    /\ credentials[c].expiresAt > at
    /\ credentials[c].createdAt <= at
    /\ LET i == integrations[credentials[c].integration] IN
       /\ i.status = "active"
       /\ i.createdBy # NoUser
       /\ Administrator(i.createdBy)

UsageDue(row, at) ==
    row.lastUsedAt # NoTime => at - row.lastUsedAt >= UsageInterval

(* The request took its time before the read; the use is recorded later.   *)
Authenticate(w, c, at) ==
    /\ At(w, "idle")
    /\ Authenticates(c, at)
    /\ UsageDue(credentials[c], at)
    /\ \E u \in Users :
         /\ u = integrations[credentials[c].integration].createdBy
         /\ work' = [work EXCEPT ![w] =
              [pc |-> "usage", op |-> "authenticate", actor |-> u,
               integration |-> credentials[c].integration, credential |-> c,
               at |-> at, queue |-> {}, role |-> role[u],
               integrations |-> NoIntegrations, credentials |-> NoCredentials]]
    /\ UNCHANGED <<Database, now, held>>

(* Mutant: the update goes by the id, as the check was made on the read.   *)
RecordsUsage_ById(row, at) == TRUE

(* The predicate of the update, on the row as it is now.                   *)
RecordsUsage(row, at) ==
    row.status = "active" /\ row.expiresAt > at /\ UsageDue(row, at)

RecordUsage(w) ==
    /\ At(w, "usage")
    /\ FreeFor(w, CredentialLock(work[w].credential))
    /\ credentials' = IF RecordsUsage(Credential(w), work[w].at)
         THEN [credentials EXCEPT ![work[w].credential].lastUsedAt = work[w].at]
         ELSE credentials
    /\ work' = [work EXCEPT ![w] = Idle]
    /\ UNCHANGED <<role, accounts, integrations, now, held>>

Tick ==
    /\ now < MaxNow
    /\ now' = now + 1
    /\ UNCHANGED <<Database, work, held>>

-------------------------------------------------------------------------------
Begin(w) ==
    \/ \E u \in Users : BeginIssueFirst(w, u) \/ BeginDemote(w, u) \/ BeginDeleteAccount(w, u)
    \/ \E u \in Users, i \in Integrations : BeginIssue(w, u, i)
    \/ \E op \in {"revoke", "rotate", "delete"}, u \in Users, c \in Credentials :
         BeginLifecycle(w, op, u, c)
    \/ \E c \in Credentials, at \in 0 .. now : Authenticate(w, c, at)

Step(w) ==
    \/ ReferToUser(w) \/ LockUser(w)
    \/ TakeAuthority(w) \/ TakeIntegration(w) \/ TakeCredential(w)
    \/ DecideIssueFirst(w) \/ DecideIssue(w) \/ DecideRevoke(w) \/ DecideRotate(w)
    \/ DecideDelete(w) \/ DecideDemote(w) \/ DecideDeleteAccount(w)
    \/ Commit(w) \/ RecordUsage(w)

Next ==
    \/ \E w \in Workers : Begin(w) \/ Step(w) \/ Abort(w)
    \/ Tick

Spec == Init /\ [][Next]_vars

-------------------------------------------------------------------------------
(* A version that is active answers to an administrator: while its creator *)
(* has an account, the creator has the role, however demotions, removals   *)
(* and deletions of accounts race with issuing and rotating.               *)
AuthorityBehindCredential ==
    \A c \in Credentials :
        /\ credentials[c] # NoCredential
        /\ credentials[c].status = "active"
        /\ integrations[credentials[c].integration].createdBy # NoUser
        => Administrator(integrations[credentials[c].integration].createdBy)

(* The deletion of the creator's account leaves no active version behind.  *)
NoLiveCredentialWithoutCreator ==
    \A c \in Credentials :
        /\ credentials[c] # NoCredential
        /\ credentials[c].status = "active"
        => integrations[credentials[c].integration].createdBy # NoUser

(* Simultaneous rotations of one version leave one replacement, which is   *)
(* in the same integration, and the version they replaced is revoked.      *)
OneReplacement ==
    \A c \in Credentials :
        credentials[c] # NoCredential /\ credentials[c].replaces # NoCredential =>
            /\ credentials[credentials[c].replaces].status = "revoked"
            /\ credentials[credentials[c].replaces].integration = credentials[c].integration
            /\ \A d \in Credentials \ {c} :
                 credentials[d] # NoCredential =>
                     credentials[d].replaces # credentials[c].replaces

(* An integration is deleted exactly when its last version was: no version *)
(* is issued into, or rotated within, an integration that is going away.   *)
DeletedWithLastVersion ==
    \A i \in Integrations :
        integrations[i] # NoIntegration =>
            (integrations[i].status = "deleted" <=>
               \A c \in Credentials :
                   credentials[c] # NoCredential /\ credentials[c].integration = i
                      => credentials[c].deleted)

(* A revoked version stays revoked, a deleted one deleted, and every row   *)
(* stays with its integration.                                             *)
LifecycleIrreversible ==
    [][\A c \in Credentials :
         credentials[c] # NoCredential =>
            /\ credentials'[c] # NoCredential
            /\ credentials[c].status = "revoked" => credentials'[c].status = "revoked"
            /\ credentials[c].deleted => credentials'[c].deleted
            /\ credentials'[c].integration = credentials[c].integration]_vars

(* The recorded use moves forward by the interval at least, and only while *)
(* the version is active, however late the updates of requests arrive.     *)
UsageThrottled ==
    [][\A c \in Credentials :
         /\ credentials[c] # NoCredential
         /\ credentials'[c].lastUsedAt # credentials[c].lastUsedAt
         => /\ credentials[c].status = "active"
            /\ credentials[c].lastUsedAt # NoTime =>
                 credentials'[c].lastUsedAt >= credentials[c].lastUsedAt + UsageInterval]_vars

(* The locks that the next statement of a worker takes.                    *)
Awaited(w) ==
    CASE At(w, "authority") -> {AuthorityLock(NextAuthority(w))}
      [] At(w, "integration") -> {IntegrationLock(work[w].integration)}
      [] At(w, "credential") \/ At(w, "usage") -> {CredentialLock(work[w].credential)}
      [] Deciding(w, "demote") ->
           {CredentialLock(c) : c \in ActiveUnder(work[w].actor, integrations, credentials)}
      [] Deciding(w, "deleteAccount") ->
           {CredentialLock(c) : c \in ActiveUnder(work[w].actor, work[w].integrations,
                                                  work[w].credentials)}
           \cup {IntegrationLock(i) : i \in CreatedByActor(w, integrations)}
      [] OTHER -> {}

AwaitsUser(w, v) ==
    /\ SameUser(v, w)
    /\ \/ At(w, "audit") /\ LocksUser(v)
       \/ At(w, "user") /\ (LocksUser(v) \/ SharesUser(v))
       \/ At(w, "decide") /\ work[w].op \in Management /\ LocksUser(v)

WaitsFor(w, v) == Awaited(w) \cap held[v] # {} \/ AwaitsUser(w, v)

(* What no order of the locks excludes: the deletion of an account meets   *)
(* another request of the same user, or another deletion.                  *)
LeavingCollides(S) ==
    \E d, v \in S :
        /\ d # v
        /\ ~At(d, "idle") /\ ~At(v, "idle")
        /\ work[d].op = "deleteAccount"
        /\ work[v].actor = work[d].actor \/ work[v].op = "deleteAccount"

(* Transactions never wait for each other in a circle, whoever acts on     *)
(* whose integration: among any of them one is not waiting for the rest.   *)
(* The only circles there can be are those of an account that is deleted   *)
(* while its user makes another request, or while another account is; the  *)
(* database ends these by aborting one of the transactions.                *)
NoLockCycle ==
    \A S \in (SUBSET Workers) \ {{}} :
        \/ \E w \in S : \A v \in S \ {w} : ~WaitsFor(w, v)
        \/ LeavingCollides(S)
===============================================================================
