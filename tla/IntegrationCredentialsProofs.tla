---------------------- MODULE IntegrationCredentialsProofs ----------------------
(***************************************************************************)
(* Theorems about IntegrationCredentials: its types, that every active     *)
(* version answers to an administrator, that a version is replaced once,   *)
(* that an integration goes with its last version, that a version's life   *)
(* is never turned back, that its use is recorded at intervals, and which  *)
(* transactions alone can wait for each other in a circle.                 *)
(***************************************************************************)
EXTENDS IntegrationCredentials, Induction, TLAPS

-------------------------------------------------------------------------------
(* The inductive invariant.                                                *)

Lifecycle == {"revoke", "rotate", "delete"}
Existing == Lifecycle \cup {"issue"}

(* The users whose authority a transaction needs locked.                   *)
Answering(r) ==
    IF r.op \in Existing THEN {r.actor, integrations[r.integration].creatorReference}
    ELSE IF r.op = "authenticate" THEN {} ELSE {r.actor}

(* What a transaction has read and locked at each of its steps.            *)
Knows(r, locks) ==
    /\ r.pc = "usage" <=> r.op = "authenticate"
    /\ r.pc = "integration" => r.op \in Existing
    /\ r.pc = "credential" => r.op \in Lifecycle
    /\ r.pc \in {"audit", "user"} => r.op = "deleteAccount"
    /\ r.pc \in {"audit", "user", "authority"} =>
         \E u, v \in Users : u \in r.queue /\ r.queue \subseteq {u, v}
    /\ r.pc \notin {"audit", "user", "authority"} => r.queue = {}
    /\ r.op \in Existing =>
         r.integration \in Integrations /\ integrations[r.integration] # NoIntegration
    /\ r.op \in Lifecycle \cup {"authenticate"} =>
         r.credential \in Credentials /\ credentials[r.credential] # NoCredential
    /\ r.op \in Lifecycle => credentials[r.credential].integration = r.integration
    /\ \A u \in Answering(r) : u \in r.queue \/ AuthorityLock(u) \in locks
    /\ r.op \in Existing /\ r.pc \in {"credential", "decide", "commit"} =>
         IntegrationLock(r.integration) \in locks
    /\ r.op \in Lifecycle /\ r.pc \in {"decide", "commit"} =>
         CredentialLock(r.credential) \in locks

(* A lock has one holder, and an integration is there before it is locked. *)
Locking ==
    /\ \A v, w \in Workers : v # w => held[v] \cap held[w] = {}
    /\ \A w \in Workers, i \in Integrations :
         IntegrationLock(i) \in held[w] => integrations[i] # NoIntegration

(* A version has an integration, and so has the version it replaced; an    *)
(* integration has its first creator or, once that account is gone, none.  *)
Rooted ==
    /\ \A c \in Credentials : credentials[c] # NoCredential =>
         /\ integrations[credentials[c].integration] # NoIntegration
         /\ credentials[c].replaces # NoCredential =>
              credentials[credentials[c].replaces] # NoCredential
    /\ \A i \in Integrations : integrations[i] # NoIntegration =>
         integrations[i].createdBy \in {integrations[i].creatorReference, NoUser}

KInv ==
    /\ TypeOK
    /\ \A w \in Workers : work[w] # Idle => Knows(work[w], held[w])
    /\ Locking
    /\ Rooted

(* A staged row of an integration is new, on the authority of its creator, *)
(* or the successor of the row that is locked.                             *)
StagedIntegration(r, locks, i) ==
    LET row == r.integrations[i] IN
    \/ /\ integrations[i] = NoIntegration
       /\ r.op = "issueFirst"
       /\ row.status = "active"
       /\ row.createdBy = row.creatorReference
       /\ Administrator(row.createdBy)
       /\ AuthorityLock(row.createdBy) \in locks
       /\ \E c \in Credentials : r.credentials[c] # NoCredential /\ r.credentials[c].integration = i
    \/ /\ integrations[i] # NoIntegration
       /\ IntegrationLock(i) \in locks
       /\ row.creatorReference = integrations[i].creatorReference
       /\ row.createdBy \in {integrations[i].createdBy, NoUser}

(* A staged version is new, in an integration that is staged with it or    *)
(* stays manageable while the locks are held, ...                          *)
StagedNew(r, locks, c) ==
    LET row == r.credentials[c]
        i == row.integration
    IN
    /\ credentials[c] = NoCredential
    /\ row.status = "active" /\ ~row.deleted /\ row.lastUsedAt = NoTime
    /\ r.op \in {"issueFirst", "issue", "rotate"}
    /\ \/ /\ integrations[i] = NoIntegration
          /\ r.integrations[i] # NoIntegration
       \/ /\ integrations[i] # NoIntegration
          /\ r.integrations[i] = NoIntegration
          /\ IntegrationLock(i) \in locks
          /\ integrations[i].status = "active"
          /\ integrations[i].createdBy # NoUser
          /\ Administrator(integrations[i].createdBy)
          /\ AuthorityLock(integrations[i].createdBy) \in locks
    /\ row.replaces # NoCredential =>
         /\ r.credentials[row.replaces] # NoCredential
         /\ credentials[row.replaces] # NoCredential
         /\ credentials[row.replaces].integration = i
         /\ \A d \in Credentials :
              credentials[d] # NoCredential => credentials[d].replaces # row.replaces
         /\ \A d \in Credentials \ {c} :
              r.credentials[d] # NoCredential => r.credentials[d].replaces # row.replaces

(* ... or it is the locked version, revoked.                               *)
StagedRevoked(r, locks, c) ==
    LET row == r.credentials[c] IN
    /\ credentials[c] # NoCredential
    /\ CredentialLock(c) \in locks
    /\ row.status = "revoked"
    /\ row.integration = credentials[c].integration
    /\ row.replaces = credentials[c].replaces
    /\ row.lastUsedAt = credentials[c].lastUsedAt
    /\ \/ row.deleted = credentials[c].deleted
       \/ row.deleted /\ IntegrationLock(row.integration) \in locks

(* The integration is deleted just when all its versions are.              *)
Balanced(table, versions, i) ==
    table[i].status = "deleted" <=>
      \A c \in Credentials :
        versions[c] # NoCredential /\ versions[c].integration = i => versions[c].deleted

IntegrationsAfter(r) == Overlay(integrations, r.integrations, NoIntegration)
CredentialsAfter(r) == Overlay(credentials, r.credentials, NoCredential)

(* What a transaction is about to write.                                   *)
Staged(r, locks) ==
    /\ \A i \in Integrations :
         r.integrations[i] # NoIntegration => StagedIntegration(r, locks, i)
    /\ \A c \in Credentials :
         r.credentials[c] # NoCredential => StagedNew(r, locks, c) \/ StagedRevoked(r, locks, c)
    /\ \A i \in Integrations :
         integrations[i] # NoIntegration /\ IntegrationLock(i) \in locks =>
           Balanced(IntegrationsAfter(r), CredentialsAfter(r), i)
    /\ r.op = "demote" =>
         \A c \in ActiveUnder(r.actor, integrations, credentials) :
           r.credentials[c] # NoCredential
    /\ r.op = "deleteAccount" =>
         \A i \in Integrations :
           integrations[i] # NoIntegration /\ integrations[i].createdBy = r.actor =>
             r.integrations[i] # NoIntegration /\ r.integrations[i].createdBy = NoUser

(* No two transactions are about to write the same row.                    *)
StagedApart(r, s) ==
    /\ \A i \in Integrations :
         r.integrations[i] = NoIntegration \/ s.integrations[i] = NoIntegration
    /\ \A c \in Credentials :
         r.credentials[c] = NoCredential \/ s.credentials[c] = NoCredential

SInv ==
    /\ \A w \in Workers : At(w, "commit") => Staged(work[w], held[w])
    /\ \A v, w \in Workers :
         v # w /\ At(v, "commit") /\ At(w, "commit") => StagedApart(work[v], work[w])
    /\ AuthorityBehindCredential
    /\ OneReplacement
    /\ DeletedWithLastVersion

-------------------------------------------------------------------------------
(* Types and locks.                                                        *)

LEMMA Bounds ==
    /\ Users \subseteq Nat /\ MaxNow \in Nat
    /\ MaxLifetime \in Nat \ {0} /\ UsageInterval \in Nat \ {0}
    /\ NoUser \notin Users /\ NoTime \notin Int
    /\ NoIntegration \notin Integrations /\ NoCredential \notin Credentials
    /\ IsFiniteSet(Users)
  BY CredentialsAssumption

LEMMA IntegrationRows ==
    ASSUME NEW table \in IntegrationTable, NEW i \in Integrations, table[i] # NoIntegration
    PROVE  /\ table[i] \in IntegrationRow
           /\ table[i].creatorReference \in Users
           /\ table[i].createdBy \in Users \cup {NoUser}
           /\ table[i].status \in {"active", "deleted"}
  BY DEF IntegrationTable, IntegrationRow, Nullable

LEMMA CredentialRows ==
    ASSUME NEW table \in CredentialTable, NEW c \in Credentials, table[c] # NoCredential
    PROVE  /\ table[c] \in CredentialRow
           /\ table[c].integration \in Integrations
           /\ table[c].status \in {"active", "revoked"}
           /\ table[c].deleted \in BOOLEAN
           /\ table[c].deleted => table[c].status = "revoked"
           /\ table[c].createdAt \in Nat /\ table[c].expiresAt \in Nat
           /\ table[c].lastUsedAt \in Nat \cup {NoTime}
           /\ table[c].replaces \in Credentials \cup {NoCredential}
  BY DEF CredentialTable, CredentialRow, Nullable

LEMMA WorkTyped ==
    ASSUME KInv, NEW w \in Workers, work[w].pc # "idle"
    PROVE  /\ work[w] \in Work /\ work[w] # Idle
           /\ Knows(work[w], held[w])
           /\ held[w] \in SUBSET Locks
           /\ work[w].actor \in Users /\ work[w].at \in Nat
           /\ work[w].queue \in SUBSET Users
           /\ work[w].integrations \in IntegrationTable
           /\ work[w].credentials \in CredentialTable
  <1>1. work[w] \in Work /\ work[w] # Idle /\ held[w] \in SUBSET Locks
    BY DEF KInv, TypeOK, Idle
  <1>. QED  BY <1>1 DEF KInv, Work

LEMMA EmptyTables ==
    NoIntegrations \in IntegrationTable /\ NoCredentials \in CredentialTable
  BY DEF NoIntegrations, NoCredentials, IntegrationTable, CredentialTable, Nullable

LEMMA InitK == Init => KInv
  <1>. SUFFICES ASSUME Init  PROVE KInv
    OBVIOUS
  <1>1. integrations \in IntegrationTable /\ credentials \in CredentialTable
    BY EmptyTables DEF Init
  <1>2. now \in 0 .. MaxNow
    BY Bounds DEF Init
  <1>3. role \in [Users -> {"admin", "member", "none"}] /\ accounts \in SUBSET Users
    BY DEF Init
  <1>4. work \in [Workers -> Work \cup {Idle}] /\ held \in [Workers -> SUBSET Locks]
    BY DEF Init
  <1>5. Locking /\ \A w \in Workers : work[w] = Idle
    BY DEF Init, Locking
  <1>6. Rooted
    BY DEF Init, Rooted, NoIntegrations, NoCredentials
  <1>. QED  BY <1>1, <1>2, <1>3, <1>4, <1>5, <1>6 DEF KInv, TypeOK

LEMMA InitS == Init => SInv
  BY DEF Init, SInv, At, Idle, AuthorityBehindCredential, OneReplacement, DeletedWithLastVersion,
     NoIntegrations, NoCredentials

(* A worker may only take what the others do not hold.                     *)
LEMMA LockingStays ==
    ASSUME KInv, NEW w \in Workers, NEW locks \in SUBSET Locks,
           UNCHANGED integrations, held' = [held EXCEPT ![w] = @ \cup locks],
           \A lock \in locks : FreeFor(w, lock),
           \A i \in Integrations :
             IntegrationLock(i) \in locks => integrations[i] # NoIntegration
    PROVE  /\ Locking'
           /\ held' \in [Workers -> SUBSET Locks]
           /\ held'[w] = held[w] \cup locks
           /\ \A v \in Workers \ {w} : held'[v] = held[v]
  <1>1. held \in [Workers -> SUBSET Locks]
    BY DEF KInv, TypeOK
  <1>2. /\ held' \in [Workers -> SUBSET Locks]
        /\ held'[w] = held[w] \cup locks
        /\ \A v \in Workers \ {w} : held'[v] = held[v]
    BY <1>1
  <1>3. \A v \in Workers \ {w} : held'[v] \cap held'[w] = {}
    BY <1>2 DEF FreeFor, KInv, Locking
  <1>4. \A u, v \in Workers \ {w} : u # v => held'[u] \cap held'[v] = {}
    BY <1>2 DEF KInv, Locking
  <1>5. \A v \in Workers, i \in Integrations :
          IntegrationLock(i) \in held'[v] => integrations[i] # NoIntegration
    BY <1>2 DEF KInv, Locking
  <1>6. Locking'
    BY <1>2, <1>3, <1>4, <1>5 DEF Locking
  <1>. QED  BY <1>2, <1>6

LEMMA LockingTakes ==
    ASSUME KInv, NEW w \in Workers, NEW lock \in Locks, FreeFor(w, lock), Take(w, {lock}),
           UNCHANGED integrations,
           \A i \in Integrations : lock = IntegrationLock(i) => integrations[i] # NoIntegration
    PROVE  /\ Locking'
           /\ held' \in [Workers -> SUBSET Locks]
           /\ held'[w] = held[w] \cup {lock}
           /\ \A v \in Workers \ {w} : held'[v] = held[v]
  <1>. DEFINE locks == {lock}
  <1>1. /\ locks \in SUBSET Locks /\ \A l \in locks : FreeFor(w, l)
        /\ \A i \in Integrations : IntegrationLock(i) \in locks => integrations[i] # NoIntegration
    OBVIOUS
  <1>2. held' = [held EXCEPT ![w] = @ \cup locks]
    BY DEF Take
  <1>3. /\ Locking'
        /\ held' \in [Workers -> SUBSET Locks]
        /\ held'[w] = held[w] \cup locks
        /\ \A v \in Workers \ {w} : held'[v] = held[v]
    <2>. HIDE DEF locks
    <2>. QED  BY <1>1, <1>2, LockingStays
  <1>. QED  BY <1>3

(* A step of one worker that leaves the database alone.                    *)
LEMMA MoveKnown ==
    ASSUME KInv, NEW w \in Workers, UNCHANGED <<Database, now>>, Locking',
           held' \in [Workers -> SUBSET Locks],
           \A v \in Workers \ {w} : held'[v] = held[v],
           NEW r \in Work, work' = [work EXCEPT ![w] = r], Knows(r, held'[w])
    PROVE  KInv'
  <1>1. work' \in [Workers -> Work \cup {Idle}]
    BY DEF KInv, TypeOK
  <1>2. TypeOK'
    BY <1>1 DEF KInv, TypeOK, Database
  <1>3. Rooted'
    BY DEF KInv, Rooted, Database
  <1>4. work'[w] = r /\ \A v \in Workers \ {w} : work'[v] = work[v]
    BY DEF KInv, TypeOK
  <1>5. ASSUME NEW v \in Workers, work'[v] # Idle
        PROVE  Knows(work'[v], held'[v])
    BY <1>4, <1>5 DEF KInv
  <1>6. \A v \in Workers : (work[v] # Idle => Knows(work[v], held[v]))'
    BY <1>5 DEF Knows, Answering, Database
  <1>. QED  BY <1>2, <1>3, <1>6 DEF KInv

LEMMA RefuseKnown ==
    ASSUME KInv, NEW w \in Workers, Refuse(w)
    PROVE  KInv'
  <1>1. work' \in [Workers -> Work \cup {Idle}] /\ held' \in [Workers -> SUBSET Locks]
    BY DEF Refuse, KInv, TypeOK
  <1>2. TypeOK'
    BY <1>1 DEF Refuse, KInv, TypeOK, Database
  <1>3. Rooted'
    BY DEF Refuse, KInv, Rooted, Database
  <1>4. /\ work'[w] = Idle /\ \A v \in Workers \ {w} : work'[v] = work[v] /\ held'[v] = held[v]
        /\ held'[w] = {}
    BY DEF Refuse, KInv, TypeOK
  <1>5. Locking'
    BY <1>4 DEF KInv, Locking, Refuse, Database
  <1>6. \A v \in Workers : (work[v] # Idle => Knows(work[v], held[v]))'
    BY <1>4 DEF KInv, Knows, Answering, Refuse, Database
  <1>. QED  BY <1>2, <1>3, <1>5, <1>6 DEF KInv

(* A transaction begins without a lock.                                    *)
LEMMA StartKnown ==
    ASSUME KInv, NEW w \in Workers, NEW op \in Operations \ {"authenticate"}, NEW actor \in Users,
           NEW i \in Nullable(Integrations, NoIntegration),
           NEW c \in Nullable(Credentials, NoCredential),
           NEW users, Start(w, op, actor, i, c, users),
           op \in Existing => /\ i \in Integrations /\ integrations[i] # NoIntegration
                              /\ users = Authorities(i, actor),
           op \notin Existing => users = {actor},
           op \in Lifecycle => /\ c \in Credentials /\ credentials[c] # NoCredential
                               /\ credentials[c].integration = i
    PROVE  KInv'
  <1>. DEFINE r == [pc |-> "authority", op |-> op, actor |-> actor, integration |-> i,
                    credential |-> c, at |-> now, queue |-> users, role |-> role[actor],
                    integrations |-> NoIntegrations, credentials |-> NoCredentials]
  <1>1. now \in Nat /\ role[actor] \in {"admin", "member", "none"}
    BY Bounds DEF KInv, TypeOK
  <1>2. op \in Existing => integrations[i].creatorReference \in Users
    BY IntegrationRows DEF KInv, TypeOK
  <1>3. users \in SUBSET Users /\ \E u, v \in Users : u \in users /\ users \subseteq {u, v}
    BY <1>2 DEF Authorities
  <1>4. r \in Work
    BY <1>1, <1>3, EmptyTables DEF Work
  <1>5. \A u \in Answering(r) : u \in r.queue
    BY DEF Answering, Authorities, Existing, Lifecycle
  <1>6. Knows(r, held'[w])
    BY <1>3, <1>5 DEF Knows, Existing, Lifecycle
  <1>7. work' = [work EXCEPT ![w] = r] /\ UNCHANGED <<Database, now, held>>
    BY DEF Start
  <1>8. Locking' /\ held' \in [Workers -> SUBSET Locks]
    BY <1>7 DEF KInv, TypeOK, Locking, Database
  <1>. HIDE DEF r
  <1>. QED  BY <1>4, <1>6, <1>7, <1>8, MoveKnown

LEMMA BeginKnown ==
    ASSUME KInv, NEW w \in Workers, Begin(w)
    PROVE  KInv'
  <1>1. ASSUME NEW u \in Users, BeginIssueFirst(w, u) \/ BeginDemote(w, u)
        PROVE  KInv'
    BY <1>1, StartKnown DEF BeginIssueFirst, BeginDemote, Operations, Management, Existing,
       Lifecycle, Nullable
  <1>2. ASSUME NEW u \in Users, NEW i \in Integrations, BeginIssue(w, u, i)
        PROVE  KInv'
    BY <1>2, StartKnown DEF BeginIssue, Operations, Management, Existing, Lifecycle, Nullable
  <1>3. ASSUME NEW op \in Lifecycle, NEW u \in Users, NEW c \in Credentials,
               BeginLifecycle(w, op, u, c)
        PROVE  KInv'
    <2>. DEFINE i == credentials[c].integration
    <2>1. credentials[c] # NoCredential /\ Start(w, op, u, i, c, Authorities(i, u))
      BY <1>3 DEF BeginLifecycle
    <2>2. i \in Integrations /\ integrations[i] # NoIntegration
      BY <2>1, CredentialRows DEF KInv, TypeOK, Rooted
    <2>3. op \in Operations \ {"authenticate"} /\ op \in Existing
      BY DEF Operations, Management, Lifecycle, Existing
    <2>. QED  BY <2>1, <2>2, <2>3, StartKnown DEF Nullable
  <1>4. ASSUME NEW u \in Users, BeginDeleteAccount(w, u)
        PROVE  KInv'
    <2>. DEFINE r == [pc |-> "audit", op |-> "deleteAccount", actor |-> u,
                      integration |-> NoIntegration, credential |-> NoCredential,
                      at |-> now, queue |-> {u}, role |-> role[u],
                      integrations |-> integrations, credentials |-> credentials]
    <2>1. r \in Work
      <3>1. now \in Nat /\ role[u] \in {"admin", "member", "none"}
        BY Bounds DEF KInv, TypeOK
      <3>. QED  BY <3>1 DEF KInv, TypeOK, Work, Operations, Nullable
    <2>2. Knows(r, held'[w])
      BY DEF Knows, Answering, Existing, Lifecycle
    <2>3. work' = [work EXCEPT ![w] = r] /\ UNCHANGED <<Database, now, held>>
      BY <1>4 DEF BeginDeleteAccount
    <2>4. Locking' /\ held' \in [Workers -> SUBSET Locks]
      BY <2>3 DEF KInv, TypeOK, Locking, Database
    <2>. HIDE DEF r
    <2>. QED  BY <2>1, <2>2, <2>3, <2>4, MoveKnown
  <1>5. ASSUME NEW c \in Credentials, NEW at \in 0 .. now, Authenticate(w, c, at)
        PROVE  KInv'
    <2>1. PICK u \in Users : work' = [work EXCEPT ![w] =
              [pc |-> "usage", op |-> "authenticate", actor |-> u,
               integration |-> credentials[c].integration, credential |-> c,
               at |-> at, queue |-> {}, role |-> role[u],
               integrations |-> NoIntegrations, credentials |-> NoCredentials]]
      BY <1>5 DEF Authenticate
    <2>. DEFINE r == [pc |-> "usage", op |-> "authenticate", actor |-> u,
                      integration |-> credentials[c].integration, credential |-> c,
                      at |-> at, queue |-> {}, role |-> role[u],
                      integrations |-> NoIntegrations, credentials |-> NoCredentials]
    <2>2. credentials[c] # NoCredential /\ UNCHANGED <<Database, now, held>>
      BY <1>5 DEF Authenticate, Authenticates
    <2>3. r \in Work
      <3>1. at \in Nat /\ role[u] \in {"admin", "member", "none"}
        BY Bounds DEF KInv, TypeOK
      <3>2. credentials[c].integration \in Integrations
        BY <2>2, CredentialRows DEF KInv, TypeOK
      <3>. QED  BY <3>1, <3>2, EmptyTables DEF Work, Operations, Nullable
    <2>4. Knows(r, held'[w])
      BY <2>2 DEF Knows, Answering, Existing, Lifecycle
    <2>5. Locking' /\ held' \in [Workers -> SUBSET Locks]
      BY <2>2 DEF KInv, TypeOK, Locking, Database
    <2>. HIDE DEF r
    <2>6. work' = [work EXCEPT ![w] = r]
      BY <2>1 DEF r
    <2>. QED  BY <2>2, <2>3, <2>4, <2>5, <2>6, MoveKnown
  <1>. QED  BY <1>1, <1>2, <1>3, <1>4, <1>5 DEF Begin, Lifecycle

(* The smallest of the one or two users in a queue.                        *)
LEMMA NextInQueue ==
    ASSUME NEW w \in Workers, NEW a \in Users, NEW b \in Users,
           a \in work[w].queue, work[w].queue \subseteq {a, b}
    PROVE  NextAuthority(w) \in work[w].queue
  <1>1. a \in Nat /\ b \in Nat
    BY Bounds
  <1>2. \E u \in work[w].queue : \A v \in work[w].queue : u <= v
    <2>1. CASE b \in work[w].queue /\ b <= a
      BY <1>1, <2>1
    <2>2. CASE b \notin work[w].queue \/ a <= b
      BY <1>1, <2>2
    <2>. QED  BY <1>1, <2>1, <2>2
  <1>. QED  BY <1>2 DEF NextAuthority

LEMMA TakeKnown ==
    ASSUME KInv, NEW w \in Workers, TakeAuthority(w) \/ TakeIntegration(w) \/ TakeCredential(w)
    PROVE  KInv'
  <1>0. work[w] \in Work /\ Knows(work[w], held[w]) /\ UNCHANGED <<Database, now>>
    BY WorkTyped DEF TakeAuthority, TakeIntegration, TakeCredential, At
  <1>1. CASE TakeAuthority(w)
    <2>. DEFINE u == NextAuthority(w)
                rest == work[w].queue \ {u}
                pc == IF rest = {} THEN AfterAuthority(work[w].op) ELSE "authority"
                r == [work[w] EXCEPT !.queue = rest, !.pc = pc]
    <2>1. PICK a \in Users, b \in Users : a \in work[w].queue /\ work[w].queue \subseteq {a, b}
      BY <1>0, <1>1 DEF TakeAuthority, At, Knows
    <2>2. u \in work[w].queue /\ u \in Users
      BY <2>1, NextInQueue
    <2>3. AuthorityLock(u) \in Locks
      BY <2>2 DEF Locks
    <2>4. /\ Locking' /\ held' \in [Workers -> SUBSET Locks]
          /\ held'[w] = held[w] \cup {AuthorityLock(u)}
          /\ \A v \in Workers \ {w} : held'[v] = held[v]
      BY <1>0, <1>1, <2>3, LockingTakes DEF TakeAuthority, Database, AuthorityLock, IntegrationLock
    <2>5. pc \in {"authority", "integration", "decide"} /\ rest \in SUBSET Users
      BY <1>0 DEF AfterAuthority, Work
    <2>6. work[w].op # "authenticate"
      BY <1>0, <1>1 DEF TakeAuthority, At, Knows
    <2>7. pc = "integration" => work[w].op \in Existing /\ rest = {}
      BY DEF AfterAuthority, Existing, Lifecycle
    <2>8. pc = "decide" => work[w].op \notin Existing /\ rest = {}
      BY DEF AfterAuthority, Existing, Lifecycle
    <2>9. pc = "authority" => \E x, y \in Users : x \in rest /\ rest \subseteq {x, y}
      <3>. SUFFICES ASSUME pc = "authority"  PROVE \E x, y \in Users : x \in rest /\ rest \subseteq {x, y}
        OBVIOUS
      <3>1. rest # {}
        BY DEF AfterAuthority
      <3>. QED  BY <2>1, <3>1
    <2>10. work' = [work EXCEPT ![w] = r]
      BY <1>1 DEF TakeAuthority, KInv, TypeOK
    <2>. HIDE DEF pc, rest
    <2>11. /\ r \in Work /\ r.pc = pc /\ r.queue = rest
           /\ r.op = work[w].op /\ r.actor = work[w].actor
           /\ r.integration = work[w].integration /\ r.credential = work[w].credential
      BY <1>0, <2>5 DEF Work
    <2>. HIDE DEF r
    <2>12. \A x \in Answering(r) : x \in rest \/ AuthorityLock(x) \in held'[w]
      BY <1>0, <2>4, <2>11 DEF rest, Knows, Answering
    <2>13. Knows(r, held'[w])
      BY <1>0, <2>4, <2>5, <2>6, <2>7, <2>8, <2>9, <2>11, <2>12 DEF Knows, Existing
    <2>. QED  BY <1>0, <2>4, <2>10, <2>11, <2>13, MoveKnown
  <1>2. CASE TakeIntegration(w)
    <2>0. \A i \in Integrations : IntegrationLock(work[w].integration) = IntegrationLock(i) =>
            integrations[i] # NoIntegration
      BY <1>0, <1>2 DEF TakeIntegration, At, Knows, IntegrationLock
    <2>. DEFINE pc == IF work[w].op = "issue" THEN "decide" ELSE "credential"
                r == [work[w] EXCEPT !.pc = pc]
    <2>1. work[w].op \in Existing /\ work[w].integration \in Integrations /\ work[w].queue = {}
      BY <1>0, <1>2 DEF TakeIntegration, At, Knows
    <2>2. IntegrationLock(work[w].integration) \in Locks
      BY <2>1 DEF Locks
    <2>3. /\ Locking' /\ held' \in [Workers -> SUBSET Locks]
          /\ held'[w] = held[w] \cup {IntegrationLock(work[w].integration)}
          /\ \A v \in Workers \ {w} : held'[v] = held[v]
      BY <1>0, <1>2, <2>0, <2>2, LockingTakes DEF TakeIntegration, Database
    <2>4. pc \in {"credential", "decide"} /\ (pc = "credential" <=> work[w].op \in Lifecycle)
      BY <2>1 DEF Existing, Lifecycle
    <2>5. work' = [work EXCEPT ![w] = r]
      BY <1>2 DEF TakeIntegration, KInv, TypeOK
    <2>. HIDE DEF pc
    <2>6. /\ r \in Work /\ r.pc = pc /\ r.queue = {}
          /\ r.op = work[w].op /\ r.actor = work[w].actor
          /\ r.integration = work[w].integration /\ r.credential = work[w].credential
      BY <1>0, <2>1, <2>4 DEF Work
    <2>. HIDE DEF r
    <2>7. Knows(r, held'[w])
      BY <1>0, <2>1, <2>3, <2>4, <2>6 DEF Knows, Answering, Existing, Lifecycle
    <2>. QED  BY <1>0, <2>3, <2>5, <2>6, <2>7, MoveKnown
  <1>3. CASE TakeCredential(w)
    <2>. DEFINE r == [work[w] EXCEPT !.pc = "decide"]
    <2>1. work[w].op \in Lifecycle /\ work[w].credential \in Credentials /\ work[w].queue = {}
      BY <1>0, <1>3 DEF TakeCredential, At, Knows
    <2>2. CredentialLock(work[w].credential) \in Locks
      BY <2>1 DEF Locks
    <2>3. /\ Locking' /\ held' \in [Workers -> SUBSET Locks]
          /\ held'[w] = held[w] \cup {CredentialLock(work[w].credential)}
          /\ \A v \in Workers \ {w} : held'[v] = held[v]
      BY <1>0, <1>3, <2>2, LockingTakes DEF TakeCredential, Database, CredentialLock, IntegrationLock
    <2>4. work' = [work EXCEPT ![w] = r]
      BY <1>3 DEF TakeCredential, KInv, TypeOK
    <2>5. /\ r \in Work /\ r.pc = "decide" /\ r.queue = {}
          /\ r.op = work[w].op /\ r.actor = work[w].actor
          /\ r.integration = work[w].integration /\ r.credential = work[w].credential
      BY <1>0, <2>1 DEF Work
    <2>. HIDE DEF r
    <2>6. Knows(r, held'[w])
      BY <1>0, <1>3, <2>1, <2>3, <2>5 DEF Knows, Answering, Existing, Lifecycle, TakeCredential, At
    <2>. QED  BY <1>0, <2>3, <2>4, <2>5, <2>6, MoveKnown
  <1>. QED  BY <1>1, <1>2, <1>3

(* The deletion of an account refers to its user, then locks it.           *)
LEMMA UserKnown ==
    ASSUME KInv, NEW w \in Workers, ReferToUser(w) \/ LockUser(w)
    PROVE  KInv'
  <1>1. CASE Refuse(w)
    BY <1>1, RefuseKnown
  <1>2. ASSUME NEW pc \in {"user", "authority"}, work[w].pc \in {"audit", "user"},
               work' = [work EXCEPT ![w].pc = pc], UNCHANGED <<Database, now, held>>
        PROVE  KInv'
    <2>. DEFINE r == [work[w] EXCEPT !.pc = pc]
    <2>1. work[w] \in Work /\ Knows(work[w], held[w])
      BY <1>2, WorkTyped
    <2>2. work' = [work EXCEPT ![w] = r]
      BY <1>2 DEF KInv, TypeOK
    <2>3. /\ r \in Work /\ r.pc = pc /\ r.queue = work[w].queue
          /\ r.op = work[w].op /\ r.actor = work[w].actor
          /\ r.integration = work[w].integration /\ r.credential = work[w].credential
      BY <1>2, <2>1 DEF Work
    <2>. HIDE DEF r
    <2>4. Knows(r, held'[w])
      BY <1>2, <2>1, <2>3 DEF Knows, Answering, Existing, Lifecycle
    <2>5. Locking' /\ held' \in [Workers -> SUBSET Locks]
      BY <1>2 DEF KInv, TypeOK, Locking, Database
    <2>. QED  BY <1>2, <2>2, <2>3, <2>4, <2>5, MoveKnown
  <1>. QED  BY <1>1, <1>2 DEF ReferToUser, LockUser, At

-------------------------------------------------------------------------------
(* Decisions.                                                              *)

LEMMA StagedSame ==
    ASSUME UNCHANGED Database, NEW v \in Workers, Staged(work'[v], held'[v])
    PROVE  Staged(work[v], held[v])'
  <1>1. ASSUME NEW i \in Integrations, StagedIntegration(work'[v], held'[v], i)
        PROVE  StagedIntegration(work[v], held[v], i)'
    BY <1>1 DEF StagedIntegration, Administrator, Database
  <1>2. ASSUME NEW c \in Credentials, StagedNew(work'[v], held'[v], c)
        PROVE  StagedNew(work[v], held[v], c)'
    BY <1>2 DEF StagedNew, Administrator, Database
  <1>3. ASSUME NEW c \in Credentials, StagedRevoked(work'[v], held'[v], c)
        PROVE  StagedRevoked(work[v], held[v], c)'
    BY <1>3 DEF StagedRevoked, Database
  <1>4. ASSUME NEW i \in Integrations,
               Balanced(IntegrationsAfter(work'[v]), CredentialsAfter(work'[v]), i)
        PROVE  Balanced(IntegrationsAfter(work[v]), CredentialsAfter(work[v]), i)'
    BY <1>4 DEF Balanced, IntegrationsAfter, CredentialsAfter, Overlay, Database
  <1>. QED  BY <1>1, <1>2, <1>3, <1>4 DEF Staged, ActiveUnder, Database

(* A step that leaves the database alone and stages nothing.               *)
LEMMA StagedKept ==
    ASSUME SInv, UNCHANGED Database,
           \A v \in Workers : work'[v].pc = "commit" => work'[v] = work[v] /\ held'[v] = held[v]
    PROVE  SInv'
  <1>1. ASSUME NEW v \in Workers, work'[v].pc = "commit"
        PROVE  Staged(work[v], held[v])'
    <2>1. Staged(work'[v], held'[v])
      BY <1>1 DEF SInv, At
    <2>. QED  BY <2>1, StagedSame
  <1>2. \A u, v \in Workers : u # v /\ work'[u].pc = "commit" /\ work'[v].pc = "commit"
          => StagedApart(work'[u], work'[v])
    BY DEF SInv, At
  <1>3. (AuthorityBehindCredential /\ OneReplacement /\ DeletedWithLastVersion)'
    BY DEF SInv, Database, AuthorityBehindCredential, OneReplacement, DeletedWithLastVersion, Administrator
  <1>. QED  BY <1>1, <1>2, <1>3 DEF SInv, At, StagedApart

LEMMA QuietSteps ==
    ASSUME KInv, SInv, NEW w \in Workers,
           \/ Begin(w) \/ ReferToUser(w) \/ LockUser(w)
           \/ TakeAuthority(w) \/ TakeIntegration(w) \/ TakeCredential(w) \/ Refuse(w)
    PROVE  KInv' /\ SInv'
  <1>1. KInv'
    BY BeginKnown, UserKnown, TakeKnown, RefuseKnown
  <1>2. UNCHANGED Database /\ \A v \in Workers \ {w} : work'[v] = work[v] /\ held'[v] = held[v]
    <2>1. CASE Begin(w)
      BY <2>1 DEF Begin, BeginIssueFirst, BeginIssue, BeginLifecycle, BeginDemote, BeginDeleteAccount,
         Authenticate, Start, KInv, TypeOK
    <2>. QED  BY <2>1 DEF ReferToUser, LockUser, TakeAuthority, TakeIntegration, TakeCredential,
              Refuse, Take, KInv, TypeOK
  <1>3. work'[w].pc # "commit"
    <2>1. work'[w] \in Work \cup {Idle} /\ work[w] \in Work \cup {Idle}
      BY <1>1 DEF KInv, TypeOK
    <2>2. CASE Begin(w)
      BY <2>2 DEF Begin, BeginIssueFirst, BeginIssue, BeginLifecycle, BeginDemote, BeginDeleteAccount,
         Authenticate, Start, KInv, TypeOK
    <2>3. CASE Refuse(w)
      BY <2>3 DEF Refuse, KInv, TypeOK, Idle
    <2>4. CASE TakeAuthority(w) \/ TakeIntegration(w) \/ TakeCredential(w)
      <3>1. work[w] \in Work
        BY <2>4, WorkTyped DEF TakeAuthority, TakeIntegration, TakeCredential, At
      <3>. QED  BY <2>4, <3>1 DEF TakeAuthority, TakeIntegration, TakeCredential, AfterAuthority,
                KInv, TypeOK, Work
    <2>5. CASE ReferToUser(w) \/ LockUser(w)
      <3>1. work[w] \in Work
        BY <2>5, WorkTyped DEF ReferToUser, LockUser, At
      <3>. QED  BY <2>3, <2>5, <3>1 DEF ReferToUser, LockUser, KInv, TypeOK, Work
    <2>. QED  BY <2>2, <2>3, <2>4, <2>5
  <1>. QED  BY <1>1, <1>2, <1>3, StagedKept

(* A decision stages rows that are new or whose lock it holds.             *)
LEMMA StageStep ==
    ASSUME KInv, SInv, NEW w \in Workers, At(w, "decide"),
           NEW ni \in IntegrationTable, NEW nc \in CredentialTable, Stage(w, ni, nc),
           NEW locks \in SUBSET Locks, \A lock \in locks : FreeFor(w, lock),
           \A i \in Integrations :
             IntegrationLock(i) \in locks => integrations[i] # NoIntegration,
           held' = [held EXCEPT ![w] = @ \cup locks],
           NEW r, r = [work[w] EXCEPT !.pc = "commit", !.integrations = ni, !.credentials = nc],
           Staged(r, held[w] \cup locks),
           \A i \in Integrations : ni[i] # NoIntegration /\ integrations[i] = NoIntegration
             => FreshIntegration(i),
           \A c \in Credentials : nc[c] # NoCredential /\ credentials[c] = NoCredential
             => FreshCredential(c)
    PROVE  KInv' /\ SInv'
  <1>1. /\ work[w] \in Work /\ Knows(work[w], held[w])
        /\ UNCHANGED <<Database, now>> /\ work' = [work EXCEPT ![w] = r]
    BY WorkTyped DEF At, Stage, KInv, TypeOK
  <1>2. /\ Locking' /\ held' \in [Workers -> SUBSET Locks]
        /\ held'[w] = held[w] \cup locks
        /\ \A v \in Workers \ {w} : held'[v] = held[v]
    BY <1>1, LockingStays DEF Database
  <1>3. /\ r \in Work /\ r.pc = "commit" /\ r.op = work[w].op /\ r.actor = work[w].actor
        /\ r.integration = work[w].integration /\ r.credential = work[w].credential
        /\ r.queue = work[w].queue
        /\ r.integrations = ni /\ r.credentials = nc
    BY <1>1 DEF Work
  <1>4. Knows(r, held'[w])
    BY <1>1, <1>2, <1>3 DEF Knows, Answering, Existing, Lifecycle, At
  <1>5. KInv'
    BY <1>1, <1>2, <1>3, <1>4, MoveKnown
  <1>6. work'[w] = r /\ \A v \in Workers \ {w} : work'[v] = work[v]
    BY <1>1 DEF KInv, TypeOK
  <1>7. ASSUME NEW v \in Workers \ {w}, At(v, "commit")
        PROVE  StagedApart(r, work[v]) /\ StagedApart(work[v], r)
    <2>1. Staged(work[v], held[v]) /\ held[v] \cap held'[w] = {}
      BY <1>2, <1>7 DEF SInv, Locking
    <2>2. \A i \in Integrations : ni[i] = NoIntegration \/ work[v].integrations[i] = NoIntegration
      BY <1>2, <1>3, <1>7, <2>1 DEF Staged, StagedIntegration, FreshIntegration
    <2>3. \A c \in Credentials : nc[c] = NoCredential \/ work[v].credentials[c] = NoCredential
      BY <1>2, <1>3, <1>7, <2>1 DEF Staged, StagedNew, StagedRevoked, FreshCredential
    <2>. QED  BY <1>3, <2>2, <2>3 DEF StagedApart
  <1>8. ASSUME NEW v \in Workers, work'[v].pc = "commit"
        PROVE  Staged(work'[v], held'[v])
    BY <1>2, <1>6, <1>8 DEF SInv, At
  <1>9. \A v \in Workers : work'[v].pc = "commit" => Staged(work[v], held[v])'
    BY <1>1, <1>8, StagedSame
  <1>10. \A u, v \in Workers : u # v /\ work'[u].pc = "commit" /\ work'[v].pc = "commit"
          => StagedApart(work'[u], work'[v])
    BY <1>6, <1>7 DEF SInv, At
  <1>11. (AuthorityBehindCredential /\ OneReplacement /\ DeletedWithLastVersion)'
    BY <1>1 DEF SInv, Database, AuthorityBehindCredential, OneReplacement, DeletedWithLastVersion, Administrator
  <1>. QED  BY <1>5, <1>9, <1>10, <1>11 DEF SInv, At, StagedApart

(* Rows that a decision makes are rows of the tables.                      *)
LEMMA TableWith ==
    /\ \A i \in Integrations, row \in IntegrationRow :
         [NoIntegrations EXCEPT ![i] = row] \in IntegrationTable
    /\ \A table \in CredentialTable, c \in Credentials, row \in CredentialRow :
         [table EXCEPT ![c] = row] \in CredentialTable
  BY DEF NoIntegrations, IntegrationTable, CredentialTable, Nullable

LEMMA RevokedRows ==
    ASSUME KInv, NEW cs \in SUBSET Credentials, \A c \in cs : credentials[c] # NoCredential
    PROVE  /\ Revoked(cs) \in CredentialTable
           /\ \A c \in cs :
                LET row == Revoked(cs)[c] IN
                /\ row # NoCredential
                /\ row.status = "revoked"
                /\ row.integration = credentials[c].integration
                /\ row.replaces = credentials[c].replaces
                /\ row.lastUsedAt = credentials[c].lastUsedAt
                /\ row.deleted = credentials[c].deleted
           /\ \A c \in Credentials \ cs : Revoked(cs)[c] = NoCredential
  <1>1. ASSUME NEW c \in cs
        PROVE  LET row == [credentials[c] EXCEPT !.status = "revoked"] IN
               /\ row \in CredentialRow
               /\ row.status = "revoked"
               /\ row.integration = credentials[c].integration
               /\ row.replaces = credentials[c].replaces
               /\ row.lastUsedAt = credentials[c].lastUsedAt
               /\ row.deleted = credentials[c].deleted
    <2>1. credentials[c] \in CredentialRow
      BY CredentialRows DEF KInv, TypeOK
    <2>. QED  BY <2>1 DEF CredentialRow
  <1>. QED  BY <1>1, RowsAssumption DEF Revoked, CredentialTable, Nullable

LEMMA NewCredentialRow ==
    ASSUME NEW w \in Workers, NEW i \in Integrations, NEW lifetime \in 1 .. MaxLifetime,
           NEW previous \in Nullable(Credentials, NoCredential), work[w].at \in Nat,
           NEW row, row = NewCredential(w, i, lifetime, previous)
    PROVE  /\ row \in CredentialRow /\ row # NoCredential
           /\ row.integration = i /\ row.status = "active" /\ ~row.deleted
           /\ row.lastUsedAt = NoTime /\ row.replaces = previous
  <1>1. work[w].at + lifetime \in Nat
    BY Bounds
  <1>2. row \in CredentialRow
    BY <1>1 DEF NewCredential, CredentialRow, Nullable
  <1>. QED  BY <1>2, RowsAssumption DEF NewCredential

(* Staged rows that leave the status of an integration and the deletion of *)
(* its versions as they are, and add versions only if it is active.        *)
LEMMA StaysBalanced ==
    ASSUME KInv, DeletedWithLastVersion, NEW r,
           NEW i \in Integrations, integrations[i] # NoIntegration,
           r.integrations[i] # NoIntegration => r.integrations[i].status = integrations[i].status,
           \A c \in Credentials : r.credentials[c] # NoCredential =>
             \/ /\ credentials[c] # NoCredential
                /\ r.credentials[c].integration = credentials[c].integration
                /\ r.credentials[c].deleted = credentials[c].deleted
             \/ /\ credentials[c] = NoCredential
                /\ ~r.credentials[c].deleted
                /\ r.credentials[c].integration = i => integrations[i].status = "active"
    PROVE  Balanced(IntegrationsAfter(r), CredentialsAfter(r), i)
  <1>1. integrations[i].status \in {"active", "deleted"}
    BY IntegrationRows DEF KInv, TypeOK
  <1>2. IntegrationsAfter(r)[i].status = integrations[i].status
    BY DEF IntegrationsAfter, Overlay, KInv, TypeOK, IntegrationTable
  <1>3. \A c \in Credentials :
          CredentialsAfter(r)[c] = IF r.credentials[c] # NoCredential THEN r.credentials[c] ELSE credentials[c]
    BY DEF CredentialsAfter, Overlay, KInv, TypeOK, CredentialTable
  <1>4. integrations[i].status = "deleted" <=>
          \A c \in Credentials :
            credentials[c] # NoCredential /\ credentials[c].integration = i => credentials[c].deleted
    BY DEF DeletedWithLastVersion
  <1>. HIDE DEF CredentialsAfter, IntegrationsAfter
  <1>. QED  BY <1>1, <1>2, <1>3, <1>4 DEF Balanced

(* What the stage of a decision looks like.                                *)
LEMMA StageRecord ==
    ASSUME KInv, NEW w \in Workers, At(w, "decide"), NEW ni, NEW nc
    PROVE  LET r == [work[w] EXCEPT !.pc = "commit", !.integrations = ni, !.credentials = nc] IN
           /\ r.op = work[w].op /\ r.actor = work[w].actor
           /\ r.integrations = ni /\ r.credentials = nc
  BY WorkTyped DEF At, Work

LEMMA StageHeld ==
    ASSUME KInv, SInv, NEW w \in Workers, At(w, "decide"), held' = held,
           NEW ni \in IntegrationTable, NEW nc \in CredentialTable, Stage(w, ni, nc),
           NEW r, r = [work[w] EXCEPT !.pc = "commit", !.integrations = ni, !.credentials = nc],
           Staged(r, held[w]),
           \A i \in Integrations : ni[i] # NoIntegration /\ integrations[i] = NoIntegration
             => FreshIntegration(i),
           \A c \in Credentials : nc[c] # NoCredential /\ credentials[c] = NoCredential
             => FreshCredential(c)
    PROVE  KInv' /\ SInv'
  <1>. DEFINE locks == {}
  <1>1. held' = [held EXCEPT ![w] = @ \cup locks] /\ held[w] \cup locks = held[w]
    BY DEF KInv, TypeOK
  <1>2. /\ locks \in SUBSET Locks /\ \A lock \in locks : FreeFor(w, lock)
        /\ \A i \in Integrations : IntegrationLock(i) \in locks => integrations[i] # NoIntegration
    OBVIOUS
  <1>3. Staged(r, held[w] \cup locks)
    BY <1>1
  <1>. HIDE DEF locks
  <1>. QED  BY <1>1, <1>2, <1>3, StageStep

LEMMA DecideIssueFirstStep ==
    ASSUME KInv, SInv, NEW w \in Workers, DecideIssueFirst(w)
    PROVE  KInv' /\ SInv'
  <1>. SUFFICES ASSUME Administrator(work[w].actor), held' = held,
                  NEW i \in Integrations, NEW c \in Credentials, NEW lifetime \in 1 .. MaxLifetime,
                  FreshIntegration(i), FreshCredential(c),
                  Stage(w, [NoIntegrations EXCEPT ![i] =
                              [creatorReference |-> work[w].actor,
                               createdBy |-> work[w].actor, status |-> "active"]],
                           [NoCredentials EXCEPT ![c] = NewCredential(w, i, lifetime, NoCredential)])
                PROVE  KInv' /\ SInv'
    BY QuietSteps DEF DecideIssueFirst
  <1>. DEFINE rowI == [creatorReference |-> work[w].actor,
                       createdBy |-> work[w].actor, status |-> "active"]
              rowC == NewCredential(w, i, lifetime, NoCredential)
              ni == [NoIntegrations EXCEPT ![i] = rowI]
              nc == [NoCredentials EXCEPT ![c] = rowC]
              r == [work[w] EXCEPT !.pc = "commit", !.integrations = ni, !.credentials = nc]
  <1>1. /\ At(w, "decide") /\ work[w].op = "issueFirst" /\ work[w] \in Work
        /\ Knows(work[w], held[w]) /\ work[w].actor \in Users /\ work[w].at \in Nat
    BY WorkTyped DEF DecideIssueFirst, Deciding, At
  <1>2. AuthorityLock(work[w].actor) \in held[w]
    BY <1>1 DEF Knows, Answering, At, Existing, Lifecycle
  <1>3. /\ rowI \in IntegrationRow /\ rowI # NoIntegration
        /\ rowI.creatorReference = work[w].actor /\ rowI.createdBy = work[w].actor
        /\ rowI.status = "active"
    BY <1>1, RowsAssumption DEF IntegrationRow, Nullable
  <1>4. /\ rowC \in CredentialRow /\ rowC # NoCredential
        /\ rowC.integration = i /\ rowC.status = "active" /\ ~rowC.deleted
        /\ rowC.lastUsedAt = NoTime /\ rowC.replaces = NoCredential
    BY <1>1, NewCredentialRow DEF Nullable
  <1>. HIDE DEF rowI, rowC
  <1>5. /\ ni \in IntegrationTable /\ nc \in CredentialTable
        /\ ni[i] = rowI /\ \A j \in Integrations \ {i} : ni[j] = NoIntegration
        /\ nc[c] = rowC /\ \A d \in Credentials \ {c} : nc[d] = NoCredential
    BY <1>3, <1>4, TableWith, EmptyTables DEF NoIntegrations, NoCredentials
  <1>. HIDE DEF ni, nc
  <1>6. /\ r.op = work[w].op /\ r.actor = work[w].actor
        /\ r.integrations = ni /\ r.credentials = nc
    BY <1>1, StageRecord
  <1>7. Stage(w, ni, nc) /\ r = [work[w] EXCEPT !.pc = "commit", !.integrations = ni, !.credentials = nc]
    BY DEF ni, nc, rowI, rowC
  <1>. HIDE DEF r
  <1>8. integrations[i] = NoIntegration /\ credentials[c] = NoCredential
    BY DEF FreshIntegration, FreshCredential
  <1>9. StagedIntegration(r, held[w], i) /\ StagedNew(r, held[w], c)
    BY <1>1, <1>2, <1>3, <1>4, <1>5, <1>6, <1>8 DEF StagedIntegration, StagedNew
  <1>10. \A j \in Integrations : integrations[j] # NoIntegration =>
           Balanced(IntegrationsAfter(r), CredentialsAfter(r), j)
    BY <1>4, <1>5, <1>6, <1>8, StaysBalanced DEF SInv
  <1>11. Staged(r, held[w])
    BY <1>1, <1>5, <1>6, <1>9, <1>10 DEF Staged
  <1>12. /\ \A j \in Integrations : ni[j] # NoIntegration => FreshIntegration(j)
         /\ \A d \in Credentials : nc[d] # NoCredential => FreshCredential(d)
    BY <1>5
  <1>. QED  BY <1>1, <1>5, <1>7, <1>11, <1>12, StageHeld

(* What a decision about an existing integration may rely on.              *)
LEMMA ExistingLocked ==
    ASSUME KInv, NEW w \in Workers, At(w, "decide"), work[w].op \in Existing
    PROVE  /\ work[w].integration \in Integrations
           /\ integrations[work[w].integration] # NoIntegration
           /\ IntegrationLock(work[w].integration) \in held[w]
           /\ Manageable(w) =>
                LET row == integrations[work[w].integration] IN
                /\ row.status = "active" /\ row.createdBy # NoUser
                /\ Administrator(row.createdBy) /\ AuthorityLock(row.createdBy) \in held[w]
           /\ work[w].op \in Lifecycle =>
                /\ work[w].credential \in Credentials
                /\ credentials[work[w].credential] # NoCredential
                /\ credentials[work[w].credential].integration = work[w].integration
                /\ CredentialLock(work[w].credential) \in held[w]
  <1>. DEFINE i == work[w].integration
  <1>1. Knows(work[w], held[w]) /\ work[w].pc = "decide"
    BY WorkTyped DEF At
  <1>2. /\ i \in Integrations /\ integrations[i] # NoIntegration
        /\ IntegrationLock(i) \in held[w]
        /\ AuthorityLock(integrations[i].creatorReference) \in held[w]
    BY <1>1 DEF Knows, Answering
  <1>3. integrations[i].createdBy \in {integrations[i].creatorReference, NoUser}
    BY <1>2 DEF KInv, Rooted
  <1>. QED  BY <1>1, <1>2, <1>3 DEF Manageable, Integration, Knows

LEMMA DecideIssueStep ==
    ASSUME KInv, SInv, NEW w \in Workers, DecideIssue(w)
    PROVE  KInv' /\ SInv'
  <1>. DEFINE i == work[w].integration
  <1>. SUFFICES ASSUME Manageable(w), held' = held,
                  NEW c \in Credentials, NEW lifetime \in 1 .. MaxLifetime, FreshCredential(c),
                  Stage(w, NoIntegrations,
                        [NoCredentials EXCEPT ![c] = NewCredential(w, i, lifetime, NoCredential)])
                PROVE  KInv' /\ SInv'
    BY QuietSteps DEF DecideIssue
  <1>. DEFINE rowC == NewCredential(w, i, lifetime, NoCredential)
              ni == NoIntegrations
              nc == [NoCredentials EXCEPT ![c] = rowC]
              r == [work[w] EXCEPT !.pc = "commit", !.integrations = ni, !.credentials = nc]
  <1>1. At(w, "decide") /\ work[w].op = "issue" /\ work[w].at \in Nat
    BY WorkTyped DEF DecideIssue, Deciding, At
  <1>2. /\ i \in Integrations /\ integrations[i] # NoIntegration
        /\ IntegrationLock(i) \in held[w]
        /\ integrations[i].status = "active" /\ integrations[i].createdBy # NoUser
        /\ Administrator(integrations[i].createdBy)
        /\ AuthorityLock(integrations[i].createdBy) \in held[w]
    BY <1>1, ExistingLocked DEF Existing
  <1>. HIDE DEF i
  <1>3. /\ rowC \in CredentialRow /\ rowC # NoCredential
        /\ rowC.integration = i /\ rowC.status = "active" /\ ~rowC.deleted
        /\ rowC.lastUsedAt = NoTime /\ rowC.replaces = NoCredential
    BY <1>1, <1>2, NewCredentialRow DEF Nullable
  <1>4. Stage(w, ni, nc)
    BY DEF i
  <1>. HIDE DEF rowC
  <1>5. /\ ni \in IntegrationTable /\ nc \in CredentialTable
        /\ \A j \in Integrations : ni[j] = NoIntegration
        /\ nc[c] = rowC /\ \A d \in Credentials \ {c} : nc[d] = NoCredential
    BY <1>3, TableWith, EmptyTables DEF NoIntegrations, NoCredentials
  <1>. HIDE DEF ni, nc
  <1>6. /\ r.op = work[w].op /\ r.actor = work[w].actor
        /\ r.integrations = ni /\ r.credentials = nc
    BY <1>1, StageRecord
  <1>7. r = [work[w] EXCEPT !.pc = "commit", !.integrations = ni, !.credentials = nc]
    OBVIOUS
  <1>. HIDE DEF r
  <1>8. credentials[c] = NoCredential
    BY DEF FreshCredential
  <1>9. StagedNew(r, held[w], c)
    BY <1>1, <1>2, <1>3, <1>5, <1>6, <1>8 DEF StagedNew
  <1>10. \A j \in Integrations : integrations[j] # NoIntegration =>
           Balanced(IntegrationsAfter(r), CredentialsAfter(r), j)
    BY <1>2, <1>3, <1>5, <1>6, <1>8, StaysBalanced DEF SInv
  <1>11. Staged(r, held[w])
    BY <1>1, <1>5, <1>6, <1>9, <1>10 DEF Staged
  <1>12. \A d \in Credentials : nc[d] # NoCredential => FreshCredential(d)
    BY <1>5
  <1>. QED  BY <1>1, <1>4, <1>5, <1>7, <1>11, <1>12, StageHeld

(* Locked versions that are revoked, and nothing else.                     *)
LEMMA RevocationStaged ==
    ASSUME KInv, SInv, NEW cs \in SUBSET Credentials, NEW locks,
           \A c \in cs : credentials[c] # NoCredential /\ CredentialLock(c) \in locks,
           NEW r, r.credentials = Revoked(cs)
    PROVE  /\ Revoked(cs) \in CredentialTable
           /\ \A c \in Credentials : r.credentials[c] # NoCredential =>
                c \in cs /\ credentials[c] # NoCredential /\ StagedRevoked(r, locks, c)
           /\ \A c \in cs : r.credentials[c] # NoCredential
           /\ \A i \in Integrations :
                /\ integrations[i] # NoIntegration
                /\ r.integrations[i] # NoIntegration =>
                     r.integrations[i].status = integrations[i].status
                => Balanced(IntegrationsAfter(r), CredentialsAfter(r), i)
  <1>1. /\ Revoked(cs) \in CredentialTable
        /\ \A c \in cs :
                LET row == Revoked(cs)[c] IN
                /\ row # NoCredential
                /\ row.status = "revoked"
                /\ row.integration = credentials[c].integration
                /\ row.replaces = credentials[c].replaces
                /\ row.lastUsedAt = credentials[c].lastUsedAt
                /\ row.deleted = credentials[c].deleted
        /\ \A c \in Credentials \ cs : Revoked(cs)[c] = NoCredential
    BY RevokedRows
  <1>2. \A c \in cs : StagedRevoked(r, locks, c)
    BY <1>1 DEF StagedRevoked
  <1>3. \A c \in Credentials : r.credentials[c] # NoCredential =>
             /\ credentials[c] # NoCredential
             /\ r.credentials[c].integration = credentials[c].integration
             /\ r.credentials[c].deleted = credentials[c].deleted
    BY <1>1
  <1>4. ASSUME NEW i \in Integrations, integrations[i] # NoIntegration,
               r.integrations[i] # NoIntegration =>
                     r.integrations[i].status = integrations[i].status
        PROVE  Balanced(IntegrationsAfter(r), CredentialsAfter(r), i)
    BY <1>3, <1>4, StaysBalanced DEF SInv
  <1>. QED  BY <1>1, <1>2, <1>3, <1>4

LEMMA DecideRevokeStep ==
    ASSUME KInv, SInv, NEW w \in Workers, DecideRevoke(w)
    PROVE  KInv' /\ SInv'
  <1>. DEFINE c == work[w].credential
              ni == NoIntegrations
              cs == {d \in {c} : credentials[d].status = "active"}
              nc == Revoked(cs)
              r == [work[w] EXCEPT !.pc = "commit", !.integrations = ni, !.credentials = nc]
  <1>. SUFFICES ASSUME held' = held, Stage(w, ni, nc)
                PROVE  KInv' /\ SInv'
    BY QuietSteps DEF DecideRevoke
  <1>1. At(w, "decide") /\ work[w].op = "revoke"
    BY DEF DecideRevoke, Deciding, At
  <1>2. /\ cs \in SUBSET Credentials
        /\ \A d \in cs : credentials[d] # NoCredential /\ CredentialLock(d) \in held[w]
    BY <1>1, ExistingLocked DEF Existing, Lifecycle
  <1>3. ni \in IntegrationTable /\ \A j \in Integrations : ni[j] = NoIntegration
    BY EmptyTables DEF NoIntegrations
  <1>. HIDE DEF cs, ni
  <1>4. /\ r.op = work[w].op /\ r.actor = work[w].actor
        /\ r.integrations = ni /\ r.credentials = nc
    BY <1>1, StageRecord
  <1>5. r = [work[w] EXCEPT !.pc = "commit", !.integrations = ni, !.credentials = nc]
    OBVIOUS
  <1>. HIDE DEF r
  <1>6. /\ nc \in CredentialTable
        /\ \A d \in Credentials : r.credentials[d] # NoCredential =>
             credentials[d] # NoCredential /\ StagedRevoked(r, held[w], d)
        /\ \A i \in Integrations : integrations[i] # NoIntegration =>
             Balanced(IntegrationsAfter(r), CredentialsAfter(r), i)
    BY <1>2, <1>3, <1>4, RevocationStaged
  <1>. HIDE DEF nc
  <1>7. Staged(r, held[w])
    BY <1>1, <1>3, <1>4, <1>6 DEF Staged
  <1>8. /\ \A d \in Credentials : ~(nc[d] # NoCredential /\ credentials[d] = NoCredential)
        /\ \A j \in Integrations : ~(ni[j] # NoIntegration /\ integrations[j] = NoIntegration)
    BY <1>3, <1>4, <1>6
  <1>. QED  BY <1>1, <1>3, <1>5, <1>6, <1>7, <1>8, StageHeld

LEMMA DecideRotateStep ==
    ASSUME KInv, SInv, NEW w \in Workers, DecideRotate(w)
    PROVE  KInv' /\ SInv'
  <1>. DEFINE i == work[w].integration
              p == work[w].credential
  <1>. SUFFICES ASSUME Rotatable(credentials[p], work[w].at), Manageable(w), held' = held,
                  NEW c \in Credentials, NEW lifetime \in 1 .. MaxLifetime, FreshCredential(c),
                  Stage(w, NoIntegrations,
                        [Revoked({p}) EXCEPT ![c] = NewCredential(w, i, lifetime, p)])
                PROVE  KInv' /\ SInv'
    BY QuietSteps DEF DecideRotate, Credential
  <1>. DEFINE rowC == NewCredential(w, i, lifetime, p)
              ni == NoIntegrations
              nc == [Revoked({p}) EXCEPT ![c] = rowC]
              r == [work[w] EXCEPT !.pc = "commit", !.integrations = ni, !.credentials = nc]
  <1>1. At(w, "decide") /\ work[w].op = "rotate" /\ work[w].at \in Nat
    BY WorkTyped DEF DecideRotate, Deciding, At
  <1>2. /\ i \in Integrations /\ integrations[i] # NoIntegration
        /\ IntegrationLock(i) \in held[w]
        /\ integrations[i].status = "active" /\ integrations[i].createdBy # NoUser
        /\ Administrator(integrations[i].createdBy)
        /\ AuthorityLock(integrations[i].createdBy) \in held[w]
    BY <1>1, ExistingLocked DEF Existing, Lifecycle
  <1>3. /\ p \in Credentials /\ credentials[p] # NoCredential
        /\ credentials[p].integration = i /\ CredentialLock(p) \in held[w]
    BY <1>1, ExistingLocked DEF Existing, Lifecycle
  <1>4. Stage(w, ni, nc) /\ credentials[p].status = "active" /\ ~credentials[p].deleted
    BY DEF Rotatable
  <1>5. /\ rowC \in CredentialRow /\ rowC # NoCredential
        /\ rowC.integration = i /\ rowC.status = "active" /\ ~rowC.deleted
        /\ rowC.lastUsedAt = NoTime /\ rowC.replaces = p
    BY <1>1, <1>2, <1>3, NewCredentialRow DEF Nullable
  <1>. HIDE DEF i, p, rowC
  <1>6. credentials[c] = NoCredential /\ c # p
    BY <1>3 DEF FreshCredential
  <1>. DEFINE revoked == Revoked({p})
  <1>7. /\ revoked \in CredentialTable
        /\ revoked[p] # NoCredential
        /\ revoked[p].status = "revoked"
        /\ revoked[p].integration = credentials[p].integration
        /\ revoked[p].replaces = credentials[p].replaces
        /\ revoked[p].lastUsedAt = credentials[p].lastUsedAt
        /\ revoked[p].deleted = credentials[p].deleted
        /\ \A d \in Credentials \ {p} : revoked[d] = NoCredential
    BY <1>3, RevokedRows
  <1>8. nc = [revoked EXCEPT ![c] = rowC]
    OBVIOUS
  <1>. HIDE DEF revoked
  <1>9. nc[p] = revoked[p] /\ nc[c] = rowC /\ \A d \in Credentials \ {p, c} : nc[d] = NoCredential
    BY <1>3, <1>6, <1>7, <1>8 DEF CredentialTable
  <1>10. /\ ni \in IntegrationTable /\ nc \in CredentialTable
         /\ \A j \in Integrations : ni[j] = NoIntegration
    BY <1>5, <1>7, <1>8, TableWith, EmptyTables DEF NoIntegrations
  <1>. HIDE DEF ni, nc
  <1>11. /\ r.op = work[w].op /\ r.actor = work[w].actor
         /\ r.integrations = ni /\ r.credentials = nc
    BY <1>1, StageRecord
  <1>12. r = [work[w] EXCEPT !.pc = "commit", !.integrations = ni, !.credentials = nc]
    OBVIOUS
  <1>. HIDE DEF r
  <1>13. \A d \in Credentials : credentials[d] # NoCredential => credentials[d].replaces # p
    <2>1. p # NoCredential
      BY <1>3, Bounds
    <2>. QED  BY <1>3, <1>4, <2>1 DEF SInv, OneReplacement
  <1>14. StagedRevoked(r, held[w], p)
    BY <1>3, <1>7, <1>9, <1>11 DEF StagedRevoked
  <1>15. StagedNew(r, held[w], c)
    <2>1. \A d \in Credentials \ {c} : nc[d] # NoCredential => nc[d].replaces # p
      BY <1>3, <1>7, <1>9, <1>13
    <2>2. nc[p] # NoCredential
      BY <1>7, <1>9
    <2>. QED  BY <1>1, <1>2, <1>3, <1>5, <1>6, <1>9, <1>10, <1>11, <1>13, <2>1, <2>2 DEF StagedNew
  <1>16. \A j \in Integrations : integrations[j] # NoIntegration =>
           Balanced(IntegrationsAfter(r), CredentialsAfter(r), j)
    <2>1. \A j \in Integrations, d \in Credentials : r.credentials[d] # NoCredential =>
             \/ /\ credentials[d] # NoCredential
                /\ r.credentials[d].integration = credentials[d].integration
                /\ r.credentials[d].deleted = credentials[d].deleted
             \/ /\ credentials[d] = NoCredential
                /\ ~r.credentials[d].deleted
                /\ r.credentials[d].integration = j => integrations[j].status = "active"
      BY <1>2, <1>3, <1>5, <1>6, <1>7, <1>9, <1>11
    <2>. QED  BY <1>10, <1>11, <2>1, StaysBalanced DEF SInv
  <1>17. Staged(r, held[w])
    BY <1>1, <1>9, <1>10, <1>11, <1>14, <1>15, <1>16 DEF Staged
  <1>18. /\ \A d \in Credentials : nc[d] # NoCredential /\ credentials[d] = NoCredential
              => FreshCredential(d)
         /\ \A j \in Integrations : ~(ni[j] # NoIntegration /\ integrations[j] = NoIntegration)
    BY <1>3, <1>9, <1>10
  <1>. QED  BY <1>1, <1>4, <1>10, <1>12, <1>17, <1>18, StageHeld

LEMMA DecideDeleteStep ==
    ASSUME KInv, SInv, NEW w \in Workers, DecideDelete(w)
    PROVE  KInv' /\ SInv'
  <1>. DEFINE i == work[w].integration
              c == work[w].credential
              remaining == {d \in Credentials \ {c} :
                    /\ credentials[d] # NoCredential
                    /\ credentials[d].integration = i
                    /\ ~credentials[d].deleted}
              rowI == [integrations[i] EXCEPT !.status = "deleted"]
              rowC == [credentials[c] EXCEPT !.deleted = TRUE]
              ni == IF remaining = {} THEN [NoIntegrations EXCEPT ![i] = rowI] ELSE NoIntegrations
              nc == [NoCredentials EXCEPT ![c] = rowC]
              r == [work[w] EXCEPT !.pc = "commit", !.integrations = ni, !.credentials = nc]
  <1>. SUFFICES ASSUME ~credentials[c].deleted, integrations[i].status # "deleted",
                       Deletable(credentials[c]), held' = held, Stage(w, ni, nc)
                PROVE  KInv' /\ SInv'
    BY QuietSteps DEF DecideDelete, TargetExists, Credential, Integration
  <1>1. At(w, "decide") /\ work[w].op = "delete"
    BY WorkTyped DEF DecideDelete, Deciding, At
  <1>2. /\ i \in Integrations /\ integrations[i] # NoIntegration
        /\ IntegrationLock(i) \in held[w]
        /\ c \in Credentials /\ credentials[c] # NoCredential
        /\ credentials[c].integration = i /\ CredentialLock(c) \in held[w]
    BY <1>1, ExistingLocked DEF Existing, Lifecycle
  <1>3. Stage(w, ni, nc) /\ credentials[c].status = "revoked"
    BY DEF Deletable
  <1>. HIDE DEF i, c
  <1>4. integrations[i] \in IntegrationRow /\ credentials[c] \in CredentialRow
    BY <1>2, IntegrationRows, CredentialRows DEF KInv, TypeOK
  <1>5. /\ rowI \in IntegrationRow /\ rowI # NoIntegration
        /\ rowI.creatorReference = integrations[i].creatorReference
        /\ rowI.createdBy = integrations[i].createdBy /\ rowI.status = "deleted"
    BY <1>4, RowsAssumption DEF IntegrationRow
  <1>6. rowC \in CredentialRow
    BY <1>3, <1>4 DEF CredentialRow
  <1>7. /\ rowC # NoCredential /\ rowC.deleted
        /\ rowC.status = credentials[c].status /\ rowC.integration = credentials[c].integration
        /\ rowC.replaces = credentials[c].replaces /\ rowC.lastUsedAt = credentials[c].lastUsedAt
    BY <1>4, <1>6, RowsAssumption DEF CredentialRow
  <1>. HIDE DEF rowI, rowC
  <1>8. /\ ni \in IntegrationTable
        /\ ni[i] = IF remaining = {} THEN rowI ELSE NoIntegration
        /\ \A j \in Integrations \ {i} : ni[j] = NoIntegration
    BY <1>2, <1>5, TableWith, EmptyTables DEF NoIntegrations
  <1>9. /\ nc \in CredentialTable /\ nc[c] = rowC
        /\ \A d \in Credentials \ {c} : nc[d] = NoCredential
    BY <1>2, <1>6, TableWith, EmptyTables DEF NoCredentials
  <1>. HIDE DEF ni, nc
  <1>10. /\ r.op = work[w].op /\ r.actor = work[w].actor
         /\ r.integrations = ni /\ r.credentials = nc
    BY <1>1, StageRecord
  <1>11. r = [work[w] EXCEPT !.pc = "commit", !.integrations = ni, !.credentials = nc]
    OBVIOUS
  <1>. HIDE DEF r
  <1>12. StagedRevoked(r, held[w], c)
    BY <1>2, <1>3, <1>7, <1>9, <1>10 DEF StagedRevoked
  <1>13. ni[i] # NoIntegration => StagedIntegration(r, held[w], i)
    BY <1>2, <1>5, <1>8, <1>10 DEF StagedIntegration
  <1>14. ASSUME NEW j \in Integrations \ {i}, integrations[j] # NoIntegration
         PROVE  Balanced(IntegrationsAfter(r), CredentialsAfter(r), j)
    <2>1. /\ IntegrationsAfter(r)[j] = integrations[j]
          /\ \A d \in Credentials : CredentialsAfter(r)[d] = IF d = c THEN rowC ELSE credentials[d]
      BY <1>7, <1>8, <1>9, <1>10 DEF IntegrationsAfter, CredentialsAfter, Overlay, KInv, TypeOK,
         IntegrationTable, CredentialTable
    <2>2. integrations[j].status = "deleted" <=>
            \A d \in Credentials :
              credentials[d] # NoCredential /\ credentials[d].integration = j => credentials[d].deleted
      BY <1>14 DEF SInv, DeletedWithLastVersion
    <2>. HIDE DEF IntegrationsAfter, CredentialsAfter
    <2>. QED  BY <1>2, <1>7, <2>1, <2>2 DEF Balanced
  <1>15. Balanced(IntegrationsAfter(r), CredentialsAfter(r), i)
    <2>1. /\ IntegrationsAfter(r)[i] = IF remaining = {} THEN rowI ELSE integrations[i]
          /\ \A d \in Credentials : CredentialsAfter(r)[d] = IF d = c THEN rowC ELSE credentials[d]
      BY <1>2, <1>5, <1>7, <1>8, <1>9, <1>10 DEF IntegrationsAfter, CredentialsAfter, Overlay, KInv,
         TypeOK, IntegrationTable, CredentialTable
    <2>. HIDE DEF IntegrationsAfter, CredentialsAfter
    <2>. QED  BY <1>2, <1>5, <1>7, <2>1 DEF Balanced
  <1>. HIDE DEF remaining
  <1>16. Staged(r, held[w])
    BY <1>1, <1>8, <1>9, <1>10, <1>12, <1>13, <1>14, <1>15 DEF Staged
  <1>17. /\ \A d \in Credentials : ~(nc[d] # NoCredential /\ credentials[d] = NoCredential)
         /\ \A j \in Integrations : ~(ni[j] # NoIntegration /\ integrations[j] = NoIntegration)
    BY <1>2, <1>8, <1>9
  <1>. QED  BY <1>1, <1>3, <1>8, <1>9, <1>11, <1>16, <1>17, StageHeld

(* Credential locks, and integration locks, are locks.                     *)
LEMMA LocksTyped ==
    ASSUME NEW cs \in SUBSET Credentials, NEW is \in SUBSET Integrations
    PROVE  {CredentialLock(c) : c \in cs} \cup {IntegrationLock(i) : i \in is} \in SUBSET Locks
  BY DEF Locks

LEMMA DecideDemoteStep ==
    ASSUME KInv, SInv, NEW w \in Workers, DecideDemote(w)
    PROVE  KInv' /\ SInv'
  <1>. DEFINE cs == ActiveUnder(work[w].actor, integrations, credentials)
              locks == {CredentialLock(c) : c \in cs}
              ni == NoIntegrations
              nc == Revoked(cs)
              r == [work[w] EXCEPT !.pc = "commit", !.integrations = ni, !.credentials = nc]
  <1>. SUFFICES ASSUME Take(w, locks), Stage(w, ni, nc)
                PROVE  KInv' /\ SInv'
    BY QuietSteps DEF DecideDemote
  <1>1. At(w, "decide") /\ work[w].op = "demote"
    BY DEF DecideDemote, Deciding, At
  <1>2. /\ cs \in SUBSET Credentials /\ \A c \in cs : credentials[c] # NoCredential
        /\ locks \in SUBSET Locks /\ \A lock \in locks : FreeFor(w, lock)
        /\ \A i \in Integrations : IntegrationLock(i) \in locks => integrations[i] # NoIntegration
    <2>1. cs \in SUBSET Credentials /\ \A c \in cs : credentials[c] # NoCredential
      BY DEF ActiveUnder
    <2>2. \A c \in cs : FreeFor(w, CredentialLock(c))
      BY DEF DecideDemote
    <2>. HIDE DEF cs
    <2>. QED  BY <2>1, <2>2 DEF Locks, CredentialLock, IntegrationLock
  <1>3. ni \in IntegrationTable /\ \A j \in Integrations : ni[j] = NoIntegration
    BY EmptyTables DEF NoIntegrations
  <1>4. /\ r.op = work[w].op /\ r.actor = work[w].actor
        /\ r.integrations = ni /\ r.credentials = nc
    BY <1>1, StageRecord
  <1>5. /\ r = [work[w] EXCEPT !.pc = "commit", !.integrations = ni, !.credentials = nc]
        /\ Stage(w, ni, nc) /\ held' = [held EXCEPT ![w] = @ \cup locks]
    BY DEF Take
  <1>6. \A c \in cs : CredentialLock(c) \in held[w] \cup locks
    OBVIOUS
  <1>7. cs = ActiveUnder(r.actor, integrations, credentials)
    BY <1>4
  <1>. HIDE DEF cs, locks, ni, r
  <1>8. /\ nc \in CredentialTable
        /\ \A d \in Credentials : r.credentials[d] # NoCredential =>
             credentials[d] # NoCredential /\ StagedRevoked(r, held[w] \cup locks, d)
        /\ \A d \in cs : r.credentials[d] # NoCredential
        /\ \A i \in Integrations : integrations[i] # NoIntegration =>
             Balanced(IntegrationsAfter(r), CredentialsAfter(r), i)
    BY <1>2, <1>3, <1>4, <1>6, RevocationStaged
  <1>. HIDE DEF nc
  <1>9. Staged(r, held[w] \cup locks)
    BY <1>1, <1>3, <1>4, <1>7, <1>8 DEF Staged
  <1>10. /\ \A d \in Credentials : ~(nc[d] # NoCredential /\ credentials[d] = NoCredential)
         /\ \A j \in Integrations : ~(ni[j] # NoIntegration /\ integrations[j] = NoIntegration)
    BY <1>3, <1>4, <1>8
  <1>. QED  BY <1>1, <1>2, <1>3, <1>5, <1>8, <1>9, <1>10, StageStep

LEMMA DecideDeleteAccountStep ==
    ASSUME KInv, SInv, NEW w \in Workers, DecideDeleteAccount(w)
    PROVE  KInv' /\ SInv'
  <1>. DEFINE seen == work[w]
              cs == ActiveUnder(seen.actor, seen.integrations, seen.credentials)
              detached == CreatedByActor(w, integrations)
              locks == {CredentialLock(c) : c \in cs} \cup {IntegrationLock(i) : i \in detached}
              ni == [i \in Integrations |-> IF i \in detached
                                            THEN [integrations[i] EXCEPT !.createdBy = NoUser]
                                            ELSE NoIntegration]
              nc == Revoked(cs)
              r == [work[w] EXCEPT !.pc = "commit", !.integrations = ni, !.credentials = nc]
  <1>. SUFFICES ASSUME \A c \in cs : credentials[c] = seen.credentials[c],
                       Take(w, locks), Stage(w, ni, nc)
                PROVE  KInv' /\ SInv'
    BY QuietSteps DEF DecideDeleteAccount
  <1>1. At(w, "decide") /\ work[w].op = "deleteAccount"
    BY DEF DecideDeleteAccount, Deciding, At
  <1>2. cs \in SUBSET Credentials /\ \A c \in cs : credentials[c] # NoCredential
    BY DEF ActiveUnder
  <1>3. detached = {i \in Integrations : integrations[i] # NoIntegration
                                         /\ integrations[i].createdBy = work[w].actor}
    BY DEF CreatedByActor
  <1>4. /\ \A c \in cs : FreeFor(w, CredentialLock(c))
        /\ \A i \in detached : FreeFor(w, IntegrationLock(i))
    BY DEF DecideDeleteAccount
  <1>5. /\ r.op = work[w].op /\ r.actor = work[w].actor
        /\ r.integrations = ni /\ r.credentials = nc
    BY <1>1, StageRecord
  <1>6. /\ r = [work[w] EXCEPT !.pc = "commit", !.integrations = ni, !.credentials = nc]
        /\ Stage(w, ni, nc) /\ held' = [held EXCEPT ![w] = @ \cup locks]
    BY DEF Take
  <1>. HIDE DEF cs, detached, r
  <1>7. /\ locks \in SUBSET Locks /\ \A lock \in locks : FreeFor(w, lock)
        /\ \A i \in Integrations : IntegrationLock(i) \in locks => integrations[i] # NoIntegration
    <2>1. locks \in SUBSET Locks /\ \A lock \in locks : FreeFor(w, lock)
      BY <1>2, <1>3, <1>4, LocksTyped
    <2>2. \A i \in Integrations : IntegrationLock(i) \in locks => i \in detached
      BY DEF CredentialLock, IntegrationLock
    <2>. QED  BY <1>3, <2>1, <2>2
  <1>8. /\ \A c \in cs : CredentialLock(c) \in held[w] \cup locks
        /\ \A i \in detached : IntegrationLock(i) \in held[w] \cup locks
    OBVIOUS
  <1>. HIDE DEF locks
  <1>9. ASSUME NEW i \in detached
        PROVE  /\ ni[i] \in IntegrationRow /\ ni[i] # NoIntegration
               /\ ni[i].creatorReference = integrations[i].creatorReference
               /\ ni[i].status = integrations[i].status /\ ni[i].createdBy = NoUser
    <2>1. i \in Integrations /\ integrations[i] \in IntegrationRow
      BY <1>3, IntegrationRows DEF KInv, TypeOK
    <2>2. ni[i] = [integrations[i] EXCEPT !.createdBy = NoUser]
      BY <2>1
    <2>. HIDE DEF ni
    <2>. QED  BY <2>1, <2>2, RowsAssumption DEF IntegrationRow, Nullable
  <1>10. \A i \in Integrations \ detached : ni[i] = NoIntegration
    OBVIOUS
  <1>11. ni \in IntegrationTable
    BY <1>9 DEF IntegrationTable, Nullable
  <1>. HIDE DEF ni
  <1>12. \A i \in Integrations : r.integrations[i] # NoIntegration =>
           i \in detached /\ integrations[i] # NoIntegration
           /\ StagedIntegration(r, held[w] \cup locks, i)
    BY <1>3, <1>5, <1>8, <1>9, <1>10 DEF StagedIntegration
  <1>13. \A i \in Integrations : r.integrations[i] # NoIntegration =>
           r.integrations[i].status = integrations[i].status
    BY <1>5, <1>9, <1>10
  <1>14. /\ nc \in CredentialTable
         /\ \A d \in Credentials : r.credentials[d] # NoCredential =>
              credentials[d] # NoCredential /\ StagedRevoked(r, held[w] \cup locks, d)
         /\ \A i \in Integrations : integrations[i] # NoIntegration =>
              Balanced(IntegrationsAfter(r), CredentialsAfter(r), i)
    BY <1>2, <1>5, <1>8, <1>13, RevocationStaged
  <1>. HIDE DEF nc
  <1>15. \A i \in Integrations :
           integrations[i] # NoIntegration /\ integrations[i].createdBy = r.actor =>
             r.integrations[i] # NoIntegration /\ r.integrations[i].createdBy = NoUser
    BY <1>3, <1>5, <1>9
  <1>16. Staged(r, held[w] \cup locks)
    BY <1>1, <1>5, <1>12, <1>14, <1>15 DEF Staged
  <1>17. /\ \A d \in Credentials : ~(nc[d] # NoCredential /\ credentials[d] = NoCredential)
         /\ \A j \in Integrations : ~(ni[j] # NoIntegration /\ integrations[j] = NoIntegration)
    BY <1>5, <1>12, <1>14
  <1>. QED  BY <1>1, <1>6, <1>7, <1>11, <1>14, <1>16, <1>17, StageStep

-------------------------------------------------------------------------------
(* Writes.                                                                 *)

(* No row goes away, and a row keeps what it was created with.             *)
Grows ==
    /\ \A i \in Integrations : integrations[i] # NoIntegration =>
         /\ integrations'[i] # NoIntegration
         /\ integrations'[i].creatorReference = integrations[i].creatorReference
    /\ \A c \in Credentials : credentials[c] # NoCredential =>
         /\ credentials'[c] # NoCredential
         /\ credentials'[c].integration = credentials[c].integration
         /\ credentials'[c].replaces = credentials[c].replaces

(* A write touches nothing that a transaction has locked or staged.        *)
Undisturbed(v) ==
    /\ \A i \in Integrations :
         IntegrationLock(i) \in held[v] \/ work[v].integrations[i] # NoIntegration =>
           integrations'[i] = integrations[i]
    /\ \A c \in Credentials :
         work[v].credentials[c] # NoCredential => credentials'[c] = credentials[c]
    /\ \A c \in Credentials :
         /\ credentials'[c] # NoCredential
         /\ IntegrationLock(credentials'[c].integration) \in held[v]
         => credentials[c] # NoCredential /\ credentials'[c].deleted = credentials[c].deleted
    /\ \A c \in Credentials :
         /\ credentials[c] = NoCredential /\ credentials'[c] # NoCredential
         /\ credentials'[c].replaces # NoCredential
         => work[v].credentials[credentials'[c].replaces] = NoCredential
    /\ \A u \in Users : AuthorityLock(u) \in held[v] =>
         /\ Administrator(u) => Administrator(u)'
         /\ ActiveUnder(u, integrations', credentials')
              \subseteq ActiveUnder(u, integrations, credentials)
         /\ \A i \in Integrations : integrations'[i] # NoIntegration /\ integrations'[i].createdBy = u
              => integrations[i] # NoIntegration /\ integrations[i].createdBy = u

LEMMA KnownAfter ==
    ASSUME KInv, NEW w \in Workers, Grows, TypeOK', Locking', Rooted',
           work' = [work EXCEPT ![w] = Idle], \A v \in Workers \ {w} : held'[v] = held[v]
    PROVE  KInv'
  <1>1. work'[w] = Idle /\ \A v \in Workers \ {w} : work'[v] = work[v]
    BY DEF KInv, TypeOK
  <1>2. ASSUME NEW v \in Workers, work'[v] # Idle
        PROVE  Knows(work[v], held[v])'
    <2>1. /\ work'[v] = work[v] /\ held'[v] = held[v] /\ Knows(work[v], held[v])
      BY <1>1, <1>2 DEF KInv
    <2>2. work[v].op \in Existing =>
            /\ integrations'[work[v].integration] # NoIntegration
            /\ integrations'[work[v].integration].creatorReference
                 = integrations[work[v].integration].creatorReference
      BY <2>1 DEF Knows, Grows
    <2>3. work[v].op \in Lifecycle \cup {"authenticate"} =>
            /\ credentials'[work[v].credential] # NoCredential
            /\ credentials'[work[v].credential].integration = credentials[work[v].credential].integration
      BY <2>1 DEF Knows, Grows
    <2>4. Answering(work[v])' = Answering(work[v])
      BY <2>1, <2>2 DEF Answering
    <2>. QED  BY <2>1, <2>2, <2>3, <2>4 DEF Knows
  <1>. QED  BY <1>2 DEF KInv

LEMMA StagedSurvives ==
    ASSUME KInv, NEW v \in Workers, At(v, "commit"), Staged(work[v], held[v]),
           TypeOK', Grows, Undisturbed(v), work'[v] = work[v], held'[v] = held[v]
    PROVE  Staged(work[v], held[v])'
  <1>0. /\ work[v].integrations \in IntegrationTable /\ work[v].credentials \in CredentialTable
        /\ work[v].actor \in Users /\ Knows(work[v], held[v])
    BY WorkTyped DEF At
  <1>1. ASSUME NEW i \in Integrations, work[v].integrations[i] # NoIntegration
        PROVE  StagedIntegration(work[v], held[v], i)'
    <2>1. StagedIntegration(work[v], held[v], i) /\ integrations'[i] = integrations[i]
      BY <1>1 DEF Staged, Undisturbed
    <2>2. work[v].integrations[i].creatorReference \in Users
      BY <1>0, <1>1, IntegrationRows
    <2>. QED  BY <2>1, <2>2 DEF StagedIntegration, Undisturbed
  <1>2. ASSUME NEW c \in Credentials, work[v].credentials[c] # NoCredential,
               StagedNew(work[v], held[v], c)
        PROVE  StagedNew(work[v], held[v], c)'
    <2>. DEFINE row == work[v].credentials[c]
                i == row.integration
                p == row.replaces
    <2>1. /\ i \in Integrations /\ p \in Credentials \cup {NoCredential}
          /\ credentials'[c] = credentials[c]
      BY <1>0, <1>2, CredentialRows DEF Undisturbed
    <2>2. integrations'[i] = integrations[i]
      BY <1>2, <2>1 DEF StagedNew, Undisturbed
    <2>3. integrations[i] # NoIntegration => integrations[i].createdBy \in Users \cup {NoUser}
      BY <2>1, IntegrationRows DEF KInv, TypeOK
    <2>4. integrations[i] # NoIntegration => Administrator(integrations[i].createdBy)'
      BY <1>2, <2>1, <2>3 DEF StagedNew, Undisturbed
    <2>5. ASSUME p # NoCredential
          PROVE  /\ credentials'[p] # NoCredential /\ credentials'[p].integration = i
                 /\ \A d \in Credentials : credentials'[d] # NoCredential => credentials'[d].replaces # p
      <3>1. p \in Credentials /\ work[v].credentials[p] # NoCredential
        BY <1>2, <2>1, <2>5 DEF StagedNew
      <3>2. credentials'[p] # NoCredential /\ credentials'[p].integration = i
        BY <1>2, <2>5, <3>1 DEF StagedNew, Grows
      <3>3. ASSUME NEW d \in Credentials, credentials'[d] # NoCredential, credentials'[d].replaces = p
            PROVE  FALSE
        <4>1. credentials[d] # NoCredential
          BY <2>5, <3>1, <3>3 DEF Undisturbed
        <4>2. credentials[d].replaces = p
          BY <3>3, <4>1 DEF Grows
        <4>. QED  BY <1>2, <2>5, <4>1, <4>2 DEF StagedNew
      <3>. QED  BY <3>2, <3>3
    <2>. QED  BY <1>2, <2>1, <2>2, <2>4, <2>5 DEF StagedNew
  <1>3. ASSUME NEW c \in Credentials, work[v].credentials[c] # NoCredential,
               StagedRevoked(work[v], held[v], c)
        PROVE  StagedRevoked(work[v], held[v], c)'
    <2>1. credentials'[c] = credentials[c]
      BY <1>3 DEF Undisturbed
    <2>. QED  BY <1>3, <2>1 DEF StagedRevoked
  <1>4. ASSUME NEW i \in Integrations, integrations'[i] # NoIntegration,
               IntegrationLock(i) \in held[v]
        PROVE  Balanced(IntegrationsAfter(work[v]), CredentialsAfter(work[v]), i)'
    <2>1. integrations'[i] = integrations[i]
      BY <1>4 DEF Undisturbed
    <2>2. Balanced(IntegrationsAfter(work[v]), CredentialsAfter(work[v]), i)
      BY <1>4, <2>1 DEF Staged
    <2>3. IntegrationsAfter(work[v])'[i] = IntegrationsAfter(work[v])[i]
      BY <2>1 DEF IntegrationsAfter, Overlay, KInv, TypeOK, IntegrationTable
    <2>4. ASSUME NEW c \in Credentials
          PROVE  /\ CredentialsAfter(work[v])[c] =
                      IF work[v].credentials[c] # NoCredential THEN work[v].credentials[c] ELSE credentials[c]
                 /\ CredentialsAfter(work[v])'[c] =
                      IF work[v].credentials[c] # NoCredential THEN work[v].credentials[c] ELSE credentials'[c]
      BY DEF CredentialsAfter, Overlay, KInv, TypeOK, CredentialTable
    <2>5. ASSUME NEW c \in Credentials, work[v].credentials[c] = NoCredential
          PROVE  credentials'[c] # NoCredential /\ credentials'[c].integration = i =>
                   /\ credentials[c] # NoCredential /\ credentials[c].integration = i
                   /\ credentials'[c].deleted = credentials[c].deleted
      BY <1>4 DEF Undisturbed, Grows
    <2>6. ASSUME NEW c \in Credentials, work[v].credentials[c] = NoCredential
          PROVE  credentials[c] # NoCredential /\ credentials[c].integration = i =>
                   /\ credentials'[c] # NoCredential /\ credentials'[c].integration = i
      BY DEF Grows
    <2>. DEFINE before == CredentialsAfter(work[v])
                after == CredentialsAfter(work[v])'
    <2>7. \A c \in Credentials :
            /\ before[c] # NoCredential /\ before[c].integration = i
                 <=> after[c] # NoCredential /\ after[c].integration = i
            /\ after[c] # NoCredential /\ after[c].integration = i => after[c].deleted = before[c].deleted
      BY <2>4, <2>5, <2>6
    <2>8. (\A c \in Credentials : before[c] # NoCredential /\ before[c].integration = i => before[c].deleted)
          <=> (\A c \in Credentials : after[c] # NoCredential /\ after[c].integration = i => after[c].deleted)
      BY <2>7
    <2>. QED  BY <2>2, <2>3, <2>8 DEF Balanced
  <1>5. ASSUME work[v].op = "demote",
               NEW c \in ActiveUnder(work[v].actor, integrations', credentials')
        PROVE  work[v].credentials[c] # NoCredential
    <2>1. AuthorityLock(work[v].actor) \in held[v]
      BY <1>0, <1>5 DEF Knows, Answering, Existing, Lifecycle, At
    <2>2. c \in ActiveUnder(work[v].actor, integrations, credentials)
      BY <1>0, <1>5, <2>1 DEF Undisturbed
    <2>. QED  BY <1>5, <2>2 DEF Staged
  <1>6. ASSUME work[v].op = "deleteAccount", NEW i \in Integrations,
               integrations'[i] # NoIntegration, integrations'[i].createdBy = work[v].actor
        PROVE  work[v].integrations[i] # NoIntegration /\ work[v].integrations[i].createdBy = NoUser
    <2>1. AuthorityLock(work[v].actor) \in held[v]
      BY <1>0, <1>6 DEF Knows, Answering, Existing, Lifecycle, At
    <2>2. integrations[i] # NoIntegration /\ integrations[i].createdBy = work[v].actor
      BY <1>0, <1>6, <2>1 DEF Undisturbed
    <2>. QED  BY <1>6, <2>2 DEF Staged
  <1>7. \A c \in Credentials : work[v].credentials[c] # NoCredential =>
          StagedNew(work[v], held[v], c)' \/ StagedRevoked(work[v], held[v], c)'
    BY <1>2, <1>3 DEF Staged
  <1>8. \A c \in ActiveUnder(work[v].actor, integrations, credentials)' :
          work[v].op = "demote" => work[v].credentials[c] # NoCredential
    BY <1>5 DEF ActiveUnder
  <1>. QED  BY <1>1, <1>4, <1>6, <1>7, <1>8 DEF Staged

(* The use of a version that nobody has locked.                            *)
LEMMA RecordUsageStep ==
    ASSUME KInv, SInv, NEW w \in Workers, RecordUsage(w)
    PROVE  /\ KInv' /\ SInv'
           /\ Grows
           /\ \A c \in Credentials : credentials[c] # NoCredential =>
                /\ credentials'[c].status = credentials[c].status
                /\ credentials'[c].deleted = credentials[c].deleted
                /\ \/ credentials'[c].lastUsedAt = credentials[c].lastUsedAt
                   \/ /\ c = work[w].credential
                      /\ RecordsUsage(credentials[c], work[w].at)
                      /\ credentials'[c].lastUsedAt = work[w].at
  <1>. DEFINE p == work[w].credential
              at == work[w].at
  <1>1. /\ work[w] \in Work /\ at \in Nat /\ p \in Credentials /\ credentials[p] # NoCredential
        /\ FreeFor(w, CredentialLock(p))
        /\ UNCHANGED <<role, accounts, integrations, now, held>>
        /\ work' = [work EXCEPT ![w] = Idle]
    <2>1. At(w, "usage") /\ FreeFor(w, CredentialLock(p))
      BY DEF RecordUsage
    <2>2. work[w] \in Work /\ Knows(work[w], held[w]) /\ at \in Nat
      BY <2>1, WorkTyped DEF At
    <2>. QED  BY <2>1, <2>2 DEF Knows, At, RecordUsage
  <1>2. /\ credentials[p] \in CredentialRow /\ credentials \in CredentialTable
        /\ credentials' = IF RecordsUsage(credentials[p], at)
                          THEN [credentials EXCEPT ![p].lastUsedAt = at] ELSE credentials
    BY <1>1, CredentialRows DEF KInv, TypeOK, RecordUsage, Credential
  <1>. DEFINE row == [credentials[p] EXCEPT !.lastUsedAt = at]
  <1>3. /\ row \in CredentialRow /\ row.integration = credentials[p].integration
        /\ row.status = credentials[p].status /\ row.deleted = credentials[p].deleted
        /\ row.replaces = credentials[p].replaces /\ row.lastUsedAt = at
    BY <1>1, <1>2 DEF CredentialRow, Nullable
  <1>4. row # NoCredential
    BY <1>3, RowsAssumption
  <1>5. RecordsUsage(credentials[p], at) => credentials' = [credentials EXCEPT ![p] = row]
    BY <1>2
  <1>. HIDE DEF p, row
  <1>6. /\ credentials' \in CredentialTable
        /\ \A c \in Credentials \ {p} : credentials'[c] = credentials[c]
        /\ \/ credentials'[p] = row /\ RecordsUsage(credentials[p], at)
           \/ credentials'[p] = credentials[p]
    <2>1. CASE RecordsUsage(credentials[p], at)
      BY <1>1, <1>2, <1>3, <1>5, <2>1 DEF CredentialTable, Nullable
    <2>2. CASE ~RecordsUsage(credentials[p], at)
      BY <1>2, <2>2
    <2>. QED  BY <2>1, <2>2
  <1>7. \A c \in Credentials :
          /\ credentials'[c] = NoCredential <=> credentials[c] = NoCredential
          /\ credentials[c] # NoCredential =>
               /\ credentials'[c].integration = credentials[c].integration
               /\ credentials'[c].status = credentials[c].status
               /\ credentials'[c].deleted = credentials[c].deleted
               /\ credentials'[c].replaces = credentials[c].replaces
    BY <1>1, <1>3, <1>4, <1>6
  <1>8. Grows
    BY <1>1, <1>7 DEF Grows
  <1>9. work'[w] = Idle /\ \A v \in Workers \ {w} : work'[v] = work[v] /\ held'[v] = held[v]
    BY <1>1 DEF KInv, TypeOK
  <1>10. TypeOK'
    BY <1>1, <1>6 DEF KInv, TypeOK
  <1>11. Rooted' /\ Locking'
    <2>1. Locking'
      BY <1>1 DEF KInv, Locking
    <2>2. \A c \in Credentials : credentials[c] # NoCredential =>
            credentials[c].replaces \in Credentials \cup {NoCredential}
      BY CredentialRows DEF KInv, TypeOK
    <2>3. Rooted'
      BY <1>1, <1>7, <2>2 DEF KInv, Rooted
    <2>. QED  BY <2>1, <2>3
  <1>12. KInv'
    BY <1>1, <1>8, <1>9, <1>10, <1>11, KnownAfter
  <1>13. ASSUME NEW u \in Users
         PROVE  ActiveUnder(u, integrations', credentials') = ActiveUnder(u, integrations, credentials)
    BY <1>1, <1>7 DEF ActiveUnder
  <1>14. ASSUME NEW v \in Workers \ {w}, At(v, "commit")
         PROVE  Staged(work[v], held[v])'
    <2>1. Staged(work[v], held[v])
      BY <1>14 DEF SInv
    <2>2. CredentialLock(p) \notin held[v]
      BY <1>1 DEF FreeFor
    <2>3. work[v].credentials[p] = NoCredential
      BY <1>1, <2>1, <2>2 DEF Staged, StagedNew, StagedRevoked
    <2>4. \A c \in Credentials : work[v].credentials[c] # NoCredential => credentials'[c] = credentials[c]
      BY <1>6, <2>3
    <2>5. Undisturbed(v)
      BY <1>1, <1>7, <1>13, <2>4 DEF Undisturbed, Administrator
    <2>. QED  BY <1>8, <1>9, <1>10, <1>14, <2>1, <2>5, StagedSurvives
  <1>15. \A u, v \in Workers : u # v /\ At(u, "commit")' /\ At(v, "commit")'
           => StagedApart(work[u], work[v])'
    BY <1>9 DEF SInv, At, Idle, StagedApart
  <1>16. \A v \in Workers : At(v, "commit")' => Staged(work[v], held[v])'
    <2>1. ~At(w, "commit")'
      BY <1>9 DEF At, Idle
    <2>2. \A v \in Workers \ {w} : At(v, "commit")' => At(v, "commit")
      BY <1>9 DEF At
    <2>. QED  BY <1>14, <2>1, <2>2
  <1>17. AuthorityBehindCredential'
    BY <1>1, <1>7 DEF SInv, AuthorityBehindCredential, Administrator
  <1>18. OneReplacement'
    <2>1. \A c \in Credentials : credentials[c] # NoCredential /\ credentials[c].replaces # NoCredential
            => credentials[c].replaces \in Credentials
      BY CredentialRows DEF KInv, TypeOK
    <2>. QED  BY <1>7, <2>1 DEF KInv, Rooted, SInv, OneReplacement
  <1>19. DeletedWithLastVersion'
    BY <1>1, <1>7 DEF SInv, DeletedWithLastVersion
  <1>20. SInv'
    BY <1>15, <1>16, <1>17, <1>18, <1>19 DEF SInv
  <1>21. \A c \in Credentials : credentials[c] # NoCredential =>
           \/ credentials'[c].lastUsedAt = credentials[c].lastUsedAt
           \/ /\ c = p /\ RecordsUsage(credentials[c], at)
              /\ credentials'[c].lastUsedAt = at
    BY <1>3, <1>6
  <1>. QED  BY <1>7, <1>8, <1>12, <1>20, <1>21 DEF p

(* A commit takes the role of nobody whose authority another has locked,   *)
(* and only a demotion or the deletion of an account takes any.            *)
LEMMA RolesAfterCommit ==
    ASSUME KInv, NEW w \in Workers, At(w, "commit"), role' \in RolesAfter(w)
    PROVE  /\ role' \in [Users -> {"admin", "member", "none"}]
           /\ \A u \in Users : Administrator(u) =>
                \/ Administrator(u)'
                \/ /\ work[w].op \in {"demote", "deleteAccount"}
                   /\ u = work[w].actor
                   /\ AuthorityLock(u) \in held[w]
  <1>. DEFINE a == work[w].actor
  <1>1. /\ a \in Users /\ role \in [Users -> {"admin", "member", "none"}]
        /\ work[w].op \in {"demote", "deleteAccount"} => AuthorityLock(a) \in held[w]
    BY WorkTyped DEF At, KInv, TypeOK, Knows, Answering, Existing, Lifecycle
  <1>2. CASE work[w].op = "demote"
    <2>1. PICK lost \in {"member", "none"} : role' = [role EXCEPT ![a] = lost]
      BY <1>2 DEF RolesAfter
    <2>. QED  BY <1>1, <1>2, <2>1 DEF Administrator
  <1>3. CASE work[w].op = "deleteAccount"
    <2>. DEFINE left == [role EXCEPT ![a] = "none"]
    <2>1. role' = left \/ \E v \in Users : left[v] = "member" /\ role' = [left EXCEPT ![v] = "admin"]
      BY <1>3 DEF RolesAfter
    <2>2. left \in [Users -> {"admin", "member", "none"}]
          /\ \A u \in Users \ {a} : left[u] = role[u]
      BY <1>1
    <2>. HIDE DEF left
    <2>3. role' \in [Users -> {"admin", "member", "none"}]
          /\ \A u \in Users \ {a} : role[u] = "admin" => role'[u] = "admin"
      BY <2>1, <2>2
    <2>. QED  BY <1>1, <1>3, <2>3 DEF Administrator
  <1>4. CASE work[w].op \notin {"demote", "deleteAccount"}
    <2>1. role' = role
      BY <1>4 DEF RolesAfter
    <2>. QED  BY <1>1, <2>1 DEF Administrator
  <1>. QED  BY <1>2, <1>3, <1>4

(* What a commit does to every row.                                        *)
LEMMA CommitRows ==
    ASSUME KInv, SInv, NEW w \in Workers, Commit(w)
    PROVE  /\ work[w].integrations \in IntegrationTable /\ work[w].credentials \in CredentialTable
           /\ integrations' = IntegrationsAfter(work[w]) /\ credentials' = CredentialsAfter(work[w])
           /\ integrations' \in IntegrationTable /\ credentials' \in CredentialTable
           /\ \A i \in Integrations : integrations'[i] =
                IF work[w].integrations[i] # NoIntegration THEN work[w].integrations[i] ELSE integrations[i]
           /\ \A c \in Credentials : credentials'[c] =
                IF work[w].credentials[c] # NoCredential THEN work[w].credentials[c] ELSE credentials[c]
           /\ \A i \in Integrations : work[w].integrations[i] # NoIntegration =>
                StagedIntegration(work[w], held[w], i)
           /\ \A c \in Credentials : work[w].credentials[c] # NoCredential =>
                StagedNew(work[w], held[w], c) \/ StagedRevoked(work[w], held[w], c)
           /\ Grows
           /\ \A c \in Credentials : credentials[c] # NoCredential =>
                /\ credentials'[c].lastUsedAt = credentials[c].lastUsedAt
                /\ credentials[c].status = "revoked" => credentials'[c].status = "revoked"
                /\ credentials[c].deleted => credentials'[c].deleted
  <1>. DEFINE r == work[w]
  <1>1. /\ r.integrations \in IntegrationTable /\ r.credentials \in CredentialTable
        /\ Staged(r, held[w])
        /\ integrations' = IntegrationsAfter(r) /\ credentials' = CredentialsAfter(r)
    BY WorkTyped DEF Commit, At, SInv, IntegrationsAfter, CredentialsAfter
  <1>2. integrations \in IntegrationTable /\ credentials \in CredentialTable
    BY DEF KInv, TypeOK
  <1>. HIDE DEF r
  <1>3. \A i \in Integrations : integrations'[i] =
          IF r.integrations[i] # NoIntegration THEN r.integrations[i] ELSE integrations[i]
    BY <1>1, <1>2 DEF IntegrationsAfter, Overlay, IntegrationTable
  <1>4. \A c \in Credentials : credentials'[c] =
          IF r.credentials[c] # NoCredential THEN r.credentials[c] ELSE credentials[c]
    BY <1>1, <1>2 DEF CredentialsAfter, Overlay, CredentialTable
  <1>5. integrations' \in IntegrationTable
    BY <1>1, <1>2 DEF IntegrationsAfter, Overlay, IntegrationTable
  <1>6. credentials' \in CredentialTable
    BY <1>1, <1>2 DEF CredentialsAfter, Overlay, CredentialTable
  <1>7. /\ \A i \in Integrations : r.integrations[i] # NoIntegration => StagedIntegration(r, held[w], i)
        /\ \A c \in Credentials : r.credentials[c] # NoCredential =>
             StagedNew(r, held[w], c) \/ StagedRevoked(r, held[w], c)
    BY <1>1 DEF Staged
  <1>8. ASSUME NEW i \in Integrations, integrations[i] # NoIntegration
        PROVE  /\ integrations'[i] # NoIntegration
               /\ integrations'[i].creatorReference = integrations[i].creatorReference
    BY <1>3, <1>7, <1>8 DEF StagedIntegration
  <1>9. ASSUME NEW c \in Credentials, credentials[c] # NoCredential
        PROVE  /\ credentials'[c] # NoCredential
               /\ credentials'[c].integration = credentials[c].integration
               /\ credentials'[c].replaces = credentials[c].replaces
               /\ credentials'[c].lastUsedAt = credentials[c].lastUsedAt
               /\ credentials[c].status = "revoked" => credentials'[c].status = "revoked"
               /\ credentials[c].deleted => credentials'[c].deleted
    <2>1. CASE r.credentials[c] = NoCredential
      BY <1>4, <1>9, <2>1
    <2>2. CASE r.credentials[c] # NoCredential
      <3>1. StagedRevoked(r, held[w], c) /\ credentials'[c] = r.credentials[c]
        BY <1>4, <1>7, <1>9, <2>2 DEF StagedNew
      <3>. QED  BY <2>2, <3>1 DEF StagedRevoked
    <2>. QED  BY <2>1, <2>2
  <1>10. Grows
    BY <1>8, <1>9 DEF Grows
  <1>. QED  BY <1>1, <1>3, <1>4, <1>5, <1>6, <1>7, <1>9, <1>10 DEF r

LEMMA CommitKnown ==
    ASSUME KInv, SInv, NEW w \in Workers, Commit(w)
    PROVE  KInv'
  <1>1. /\ At(w, "commit") /\ role' \in RolesAfter(w) /\ UNCHANGED now
        /\ work' = [work EXCEPT ![w] = Idle] /\ held' = [held EXCEPT ![w] = {}]
    BY DEF Commit
  <1>2. /\ work'[w] = Idle /\ held'[w] = {}
        /\ \A v \in Workers \ {w} : work'[v] = work[v] /\ held'[v] = held[v]
    BY <1>1 DEF KInv, TypeOK
  <1>3. Grows /\ integrations' \in IntegrationTable /\ credentials' \in CredentialTable
    BY CommitRows
  <1>4. TypeOK'
    <2>1. accounts' \in SUBSET Users
      BY DEF Commit, KInv, TypeOK
    <2>2. role' \in [Users -> {"admin", "member", "none"}]
      BY <1>1, RolesAfterCommit
    <2>3. work' \in [Workers -> Work \cup {Idle}] /\ held' \in [Workers -> SUBSET Locks]
      BY <1>1 DEF KInv, TypeOK
    <2>. QED  BY <1>1, <1>3, <2>1, <2>2, <2>3 DEF KInv, TypeOK
  <1>5. Locking'
    <2>1. \A v \in Workers, i \in Integrations : IntegrationLock(i) \in held'[v] => integrations[i] # NoIntegration
      BY <1>2 DEF KInv, Locking
    <2>2. \A u, v \in Workers : u # v => held'[u] \cap held'[v] = {}
      BY <1>2 DEF KInv, Locking
    <2>. QED  BY <1>3, <2>1, <2>2 DEF Locking, Grows
  <1>6. ASSUME NEW c \in Credentials, credentials'[c] # NoCredential
        PROVE  /\ integrations'[credentials'[c].integration] # NoIntegration
               /\ credentials'[c].replaces # NoCredential =>
                    credentials'[credentials'[c].replaces] # NoCredential
    <2>1. /\ credentials'[c].integration \in Integrations
          /\ credentials'[c].replaces \in Credentials \cup {NoCredential}
      BY <1>3, <1>6, CredentialRows
    <2>2. CASE credentials[c] # NoCredential
      BY <1>3, <2>1, <2>2 DEF Grows, KInv, Rooted
    <2>3. CASE credentials[c] = NoCredential
      <3>1. StagedNew(work[w], held[w], c) /\ credentials'[c] = work[w].credentials[c]
        BY <1>6, <2>3, CommitRows DEF StagedRevoked
      <3>2. \A i \in Integrations : integrations'[i] =
              IF work[w].integrations[i] # NoIntegration THEN work[w].integrations[i] ELSE integrations[i]
        BY CommitRows
      <3>. QED  BY <1>3, <2>1, <3>1, <3>2 DEF StagedNew, Grows
    <2>. QED  BY <2>2, <2>3
  <1>7. ASSUME NEW i \in Integrations, integrations'[i] # NoIntegration
        PROVE  integrations'[i].createdBy \in {integrations'[i].creatorReference, NoUser}
    <2>1. CASE work[w].integrations[i] = NoIntegration
      <3>1. integrations'[i] = integrations[i]
        BY <2>1, CommitRows
      <3>. QED  BY <1>7, <3>1 DEF KInv, Rooted
    <2>2. CASE work[w].integrations[i] # NoIntegration
      <3>1. StagedIntegration(work[w], held[w], i) /\ integrations'[i] = work[w].integrations[i]
        BY <2>2, CommitRows
      <3>. QED  BY <3>1 DEF StagedIntegration, KInv, Rooted
    <2>. QED  BY <2>1, <2>2
  <1>8. Rooted'
    BY <1>6, <1>7 DEF Rooted
  <1>. QED  BY <1>1, <1>2, <1>3, <1>4, <1>5, <1>8, KnownAfter

LEMMA CommitUndisturbing ==
    ASSUME KInv, SInv, NEW w \in Workers, Commit(w), NEW v \in Workers \ {w}, At(v, "commit")
    PROVE  Undisturbed(v)
  <1>. DEFINE r == work[w]
              s == work[v]
  <1>1. /\ At(w, "commit") /\ role' \in RolesAfter(w)
        /\ held[v] \cap held[w] = {}
        /\ \A i \in Integrations : IntegrationLock(i) \in held[v] => integrations[i] # NoIntegration
        /\ StagedApart(r, s) /\ Staged(s, held[v])
    BY DEF Commit, KInv, Locking, SInv
  <1>2. /\ s.integrations \in IntegrationTable /\ s.credentials \in CredentialTable
    BY WorkTyped DEF At
  <1>3. /\ r.integrations \in IntegrationTable /\ r.credentials \in CredentialTable
        /\ integrations' \in IntegrationTable /\ credentials' \in CredentialTable
        /\ \A i \in Integrations : integrations'[i] =
             IF r.integrations[i] # NoIntegration THEN r.integrations[i] ELSE integrations[i]
        /\ \A c \in Credentials : credentials'[c] =
             IF r.credentials[c] # NoCredential THEN r.credentials[c] ELSE credentials[c]
        /\ \A i \in Integrations : r.integrations[i] # NoIntegration => StagedIntegration(r, held[w], i)
        /\ \A c \in Credentials : r.credentials[c] # NoCredential =>
             StagedNew(r, held[w], c) \/ StagedRevoked(r, held[w], c)
        /\ Grows
    BY CommitRows
  <1>. HIDE DEF r, s
  <1>4. ASSUME NEW i \in Integrations,
               IntegrationLock(i) \in held[v] \/ s.integrations[i] # NoIntegration
        PROVE  integrations'[i] = integrations[i]
    <2>1. r.integrations[i] # NoIntegration => s.integrations[i] = NoIntegration
      BY <1>1 DEF StagedApart
    <2>2. r.integrations[i] # NoIntegration => IntegrationLock(i) \notin held[v]
      BY <1>1, <1>3 DEF StagedIntegration
    <2>. QED  BY <1>3, <1>4, <2>1, <2>2
  <1>5. ASSUME NEW c \in Credentials, s.credentials[c] # NoCredential
        PROVE  credentials'[c] = credentials[c]
    BY <1>1, <1>3, <1>5 DEF StagedApart
  <1>6. ASSUME NEW c \in Credentials, credentials'[c] # NoCredential,
               IntegrationLock(credentials'[c].integration) \in held[v]
        PROVE  credentials[c] # NoCredential /\ credentials'[c].deleted = credentials[c].deleted
    <2>1. CASE r.credentials[c] = NoCredential
      BY <1>3, <1>6, <2>1
    <2>2. CASE r.credentials[c] # NoCredential
      <3>1. credentials'[c] = r.credentials[c] /\ credentials'[c].integration \in Integrations
        BY <1>3, <1>6, <2>2, CredentialRows
      <3>2. integrations[r.credentials[c].integration] # NoIntegration
        BY <1>1, <1>6, <3>1
      <3>3. IntegrationLock(r.credentials[c].integration) \notin held[w]
        BY <1>1, <1>6, <3>1
      <3>4. ~StagedNew(r, held[w], c)
        BY <3>2, <3>3 DEF StagedNew
      <3>5. StagedRevoked(r, held[w], c)
        BY <1>3, <2>2, <3>4
      <3>. QED  BY <3>1, <3>3, <3>5 DEF StagedRevoked
    <2>. QED  BY <2>1, <2>2
  <1>7. ASSUME NEW c \in Credentials, credentials[c] = NoCredential,
               credentials'[c] # NoCredential, credentials'[c].replaces # NoCredential
        PROVE  s.credentials[credentials'[c].replaces] = NoCredential
    <2>1. /\ r.credentials[c] # NoCredential /\ credentials'[c] = r.credentials[c]
          /\ credentials'[c].replaces \in Credentials
      BY <1>3, <1>7, CredentialRows
    <2>2. StagedNew(r, held[w], c)
      BY <1>3, <1>7, <2>1 DEF StagedRevoked
    <2>3. r.credentials[credentials'[c].replaces] # NoCredential
      BY <1>7, <2>1, <2>2 DEF StagedNew
    <2>. QED  BY <1>1, <2>1, <2>3 DEF StagedApart
  <1>8. ASSUME NEW u \in Users, AuthorityLock(u) \in held[v]
        PROVE  /\ Administrator(u) => Administrator(u)'
               /\ ActiveUnder(u, integrations', credentials')
                    \subseteq ActiveUnder(u, integrations, credentials)
               /\ \A i \in Integrations :
                    integrations'[i] # NoIntegration /\ integrations'[i].createdBy = u
                      => integrations[i] # NoIntegration /\ integrations[i].createdBy = u
    <2>1. AuthorityLock(u) \notin held[w] /\ u # NoUser
      BY <1>1, <1>8, Bounds
    <2>2. Administrator(u) => Administrator(u)'
      BY <1>1, <2>1, RolesAfterCommit
    <2>3. ASSUME NEW i \in Integrations,
                 integrations'[i] # NoIntegration, integrations'[i].createdBy = u
          PROVE  integrations[i] # NoIntegration /\ integrations[i].createdBy = u
      <3>1. CASE r.integrations[i] = NoIntegration
        BY <1>3, <2>3, <3>1
      <3>2. CASE r.integrations[i] # NoIntegration
        <4>1. StagedIntegration(r, held[w], i) /\ r.integrations[i].createdBy = u
          BY <1>3, <2>3, <3>2
        <4>. QED  BY <2>1, <4>1 DEF StagedIntegration
      <3>. QED  BY <3>1, <3>2
    <2>4. ASSUME NEW c \in Credentials, credentials'[c] # NoCredential,
                 credentials'[c].status = "active",
                 integrations'[credentials'[c].integration].createdBy = u
          PROVE  /\ credentials[c] # NoCredential /\ credentials[c].status = "active"
                 /\ integrations[credentials[c].integration].createdBy = u
      <3>. DEFINE i == credentials'[c].integration
      <3>1. i \in Integrations /\ integrations'[i] # NoIntegration
        <4>1. i \in Integrations
          BY <1>3, <2>4, CredentialRows
        <4>2. Rooted'
          BY CommitKnown DEF KInv
        <4>. QED  BY <2>4, <4>1, <4>2 DEF Rooted
      <3>2. integrations[i] # NoIntegration /\ integrations[i].createdBy = u
        BY <2>3, <2>4, <3>1
      <3>3. CASE r.credentials[c] = NoCredential
        BY <1>3, <2>4, <3>2, <3>3
      <3>4. CASE r.credentials[c] # NoCredential
        <4>1. credentials'[c] = r.credentials[c]
          BY <1>3, <3>4
        <4>2. ~StagedRevoked(r, held[w], c)
          BY <2>4, <4>1 DEF StagedRevoked
        <4>3. ~StagedNew(r, held[w], c)
          BY <2>1, <3>2, <4>1 DEF StagedNew
        <4>. QED  BY <1>3, <3>4, <4>2, <4>3
      <3>. QED  BY <3>3, <3>4
    <2>5. ActiveUnder(u, integrations', credentials') \subseteq ActiveUnder(u, integrations, credentials)
      BY <2>4 DEF ActiveUnder
    <2>. QED  BY <2>2, <2>3, <2>5
  <1>. QED  BY <1>4, <1>5, <1>6, <1>7, <1>8 DEF Undisturbed, s

LEMMA CommitStep ==
    ASSUME KInv, SInv, NEW w \in Workers, Commit(w)
    PROVE  KInv' /\ SInv'
  <1>. DEFINE r == work[w]
  <1>1. /\ At(w, "commit") /\ role' \in RolesAfter(w) /\ Staged(r, held[w])
        /\ work' = [work EXCEPT ![w] = Idle] /\ held' = [held EXCEPT ![w] = {}]
    BY DEF Commit, SInv
  <1>2. /\ work'[w] = Idle
        /\ \A v \in Workers \ {w} : work'[v] = work[v] /\ held'[v] = held[v]
    BY <1>1 DEF KInv, TypeOK
  <1>3. KInv'
    BY CommitKnown
  <1>4. /\ integrations' = IntegrationsAfter(r) /\ credentials' = CredentialsAfter(r)
        /\ integrations' \in IntegrationTable /\ credentials' \in CredentialTable
        /\ \A i \in Integrations : integrations'[i] =
             IF r.integrations[i] # NoIntegration THEN r.integrations[i] ELSE integrations[i]
        /\ \A c \in Credentials : credentials'[c] =
             IF r.credentials[c] # NoCredential THEN r.credentials[c] ELSE credentials[c]
        /\ \A i \in Integrations : r.integrations[i] # NoIntegration => StagedIntegration(r, held[w], i)
        /\ \A c \in Credentials : r.credentials[c] # NoCredential =>
             StagedNew(r, held[w], c) \/ StagedRevoked(r, held[w], c)
        /\ Grows
    BY CommitRows
  <1>. HIDE DEF r
  <1>5. ASSUME NEW v \in Workers, At(v, "commit")'
        PROVE  Staged(work[v], held[v])'
    <2>1. v # w /\ work'[v] = work[v] /\ held'[v] = held[v] /\ At(v, "commit")
      BY <1>2, <1>5 DEF At, Idle
    <2>2. Undisturbed(v) /\ Staged(work[v], held[v]) /\ TypeOK'
      BY <1>3, <2>1, CommitUndisturbing DEF SInv, KInv
    <2>. QED  BY <1>4, <2>1, <2>2, StagedSurvives
  <1>6. \A u, v \in Workers : u # v /\ At(u, "commit")' /\ At(v, "commit")'
           => StagedApart(work[u], work[v])'
    BY <1>2 DEF SInv, At, Idle, StagedApart
  <1>7. \A c \in Credentials : credentials'[c] # NoCredential =>
          /\ credentials'[c].integration \in Integrations
          /\ integrations'[credentials'[c].integration] # NoIntegration
          /\ credentials'[c].replaces \in Credentials \cup {NoCredential}
    BY <1>3, <1>4, CredentialRows DEF KInv, Rooted
  <1>8. ASSUME NEW c \in Credentials, credentials'[c] # NoCredential,
               credentials'[c].status = "active",
               integrations'[credentials'[c].integration].createdBy # NoUser
        PROVE  role'[integrations'[credentials'[c].integration].createdBy] = "admin"
    <2>. DEFINE i == credentials'[c].integration
                u == integrations'[i].createdBy
    <2>1. i \in Integrations /\ integrations'[i] # NoIntegration /\ u \in Users
      BY <1>4, <1>7, <1>8, IntegrationRows
    <2>. HIDE DEF u
    <2>2. ASSUME Administrator(u), r.op \in {"demote", "deleteAccount"} => u # r.actor
          PROVE  role'[u] = "admin"
      BY <1>1, <2>1, <2>2, RolesAfterCommit DEF r, Administrator
    <2>3. CASE r.credentials[c] = NoCredential
      <3>1. credentials'[c] = credentials[c]
        BY <1>4, <2>3
      <3>2. integrations[i] # NoIntegration /\ integrations[i].createdBy = u
        <4>1. integrations[i] # NoIntegration
          BY <1>8, <3>1 DEF KInv, Rooted
        <4>2. CASE r.integrations[i] = NoIntegration
          BY <1>4, <2>1, <4>1, <4>2 DEF u
        <4>3. CASE r.integrations[i] # NoIntegration
          <5>1. StagedIntegration(r, held[w], i) /\ integrations'[i] = r.integrations[i]
            BY <1>4, <2>1, <4>3
          <5>. QED  BY <1>8, <4>1, <5>1 DEF StagedIntegration, u
        <4>. QED  BY <4>2, <4>3
      <3>3. Administrator(u)
        BY <1>8, <3>1, <3>2 DEF SInv, AuthorityBehindCredential, u
      <3>4. ~(r.op = "demote" /\ u = r.actor)
        <4>. SUFFICES ASSUME r.op = "demote", u = r.actor  PROVE FALSE
          OBVIOUS
        <4>1. c \in ActiveUnder(r.actor, integrations, credentials)
          BY <1>8, <3>1, <3>2 DEF ActiveUnder
        <4>. QED  BY <1>1, <2>3, <4>1 DEF Staged
      <3>5. ~(r.op = "deleteAccount" /\ u = r.actor)
        <4>. SUFFICES ASSUME r.op = "deleteAccount", u = r.actor  PROVE FALSE
          OBVIOUS
        <4>1. r.integrations[i] # NoIntegration /\ r.integrations[i].createdBy = NoUser
          BY <1>1, <2>1, <3>2 DEF Staged
        <4>. QED  BY <1>4, <1>8, <2>1, <4>1
      <3>. QED  BY <2>2, <3>3, <3>4, <3>5 DEF u
    <2>4. CASE r.credentials[c] # NoCredential
      <3>1. credentials'[c] = r.credentials[c]
        BY <1>4, <2>4
      <3>2. ~StagedRevoked(r, held[w], c)
        BY <1>8, <3>1 DEF StagedRevoked
      <3>3. StagedNew(r, held[w], c)
        BY <1>4, <2>4, <3>2
      <3>4. r.op \notin {"demote", "deleteAccount"}
        BY <3>3 DEF StagedNew
      <3>5. Administrator(u)
        <4>1. CASE integrations[i] = NoIntegration
          <5>1. StagedIntegration(r, held[w], i) /\ integrations'[i] = r.integrations[i]
            BY <1>4, <2>1, <3>1, <3>3, <4>1 DEF StagedNew
          <5>. QED  BY <4>1, <5>1 DEF StagedIntegration, u
        <4>2. CASE integrations[i] # NoIntegration
          <5>1. integrations'[i] = integrations[i]
            BY <1>4, <2>1, <3>1, <3>3, <4>2 DEF StagedNew
          <5>. QED  BY <3>1, <3>3, <4>2, <5>1 DEF StagedNew, u
        <4>. QED  BY <4>1, <4>2
      <3>. QED  BY <2>2, <3>4, <3>5 DEF u
    <2>. QED  BY <2>3, <2>4
  <1>9. ASSUME NEW c \in Credentials, credentials'[c] # NoCredential,
               credentials'[c].replaces # NoCredential
        PROVE  /\ credentials'[credentials'[c].replaces].status = "revoked"
               /\ credentials'[credentials'[c].replaces].integration = credentials'[c].integration
               /\ \A d \in Credentials \ {c} :
                    credentials'[d] # NoCredential => credentials'[d].replaces # credentials'[c].replaces
    <2>. DEFINE p == credentials'[c].replaces
    <2>1. p \in Credentials
      BY <1>7, <1>9
    <2>2. CASE credentials[c] # NoCredential
      <3>1. /\ credentials[c].replaces = p
            /\ credentials'[c].integration = credentials[c].integration
        BY <1>4, <2>2 DEF Grows
      <3>2. /\ credentials[p] # NoCredential /\ credentials[p].status = "revoked"
            /\ credentials[p].integration = credentials[c].integration
            /\ \A d \in Credentials \ {c} : credentials[d] # NoCredential => credentials[d].replaces # p
        BY <1>9, <2>2, <3>1 DEF KInv, Rooted, SInv, OneReplacement
      <3>3. /\ credentials'[p].status = "revoked"
            /\ credentials'[p].integration = credentials[p].integration
        BY <2>1, <3>2, CommitRows DEF Grows
      <3>4. ASSUME NEW d \in Credentials \ {c}, credentials'[d] # NoCredential, credentials'[d].replaces = p
            PROVE  FALSE
        <4>1. credentials[d] = NoCredential
          BY <1>4, <3>2, <3>4 DEF Grows
        <4>2. StagedNew(r, held[w], d) /\ credentials'[d] = r.credentials[d]
          BY <1>4, <3>4, <4>1 DEF StagedRevoked
        <4>. QED  BY <1>9, <2>2, <3>1, <3>4, <4>2 DEF StagedNew
      <3>. QED  BY <3>1, <3>2, <3>3, <3>4
    <2>3. CASE credentials[c] = NoCredential
      <3>1. StagedNew(r, held[w], c) /\ credentials'[c] = r.credentials[c]
        BY <1>4, <1>9, <2>3 DEF StagedRevoked
      <3>2. /\ r.credentials[p] # NoCredential /\ credentials[p] # NoCredential
            /\ credentials[p].integration = credentials'[c].integration
            /\ \A d \in Credentials : credentials[d] # NoCredential => credentials[d].replaces # p
            /\ \A d \in Credentials \ {c} : r.credentials[d] # NoCredential => r.credentials[d].replaces # p
        BY <1>9, <3>1 DEF StagedNew
      <3>3. StagedRevoked(r, held[w], p) /\ credentials'[p] = r.credentials[p]
        BY <1>4, <2>1, <3>2 DEF StagedNew
      <3>4. credentials'[p].status = "revoked" /\ credentials'[p].integration = credentials[p].integration
        BY <3>3 DEF StagedRevoked
      <3>. QED  BY <1>4, <3>2, <3>4
    <2>. QED  BY <2>2, <2>3
  <1>10. ASSUME NEW i \in Integrations, integrations'[i] # NoIntegration
         PROVE  Balanced(integrations', credentials', i)
    <2>1. CASE integrations[i] # NoIntegration /\ IntegrationLock(i) \in held[w]
      BY <1>1, <1>4, <2>1 DEF Staged
    <2>2. CASE integrations[i] # NoIntegration /\ IntegrationLock(i) \notin held[w]
      <3>1. integrations'[i] = integrations[i]
        BY <1>4, <2>2 DEF StagedIntegration
      <3>2. ASSUME NEW c \in Credentials, credentials'[c] # NoCredential, credentials'[c].integration = i
            PROVE  credentials[c] # NoCredential /\ credentials'[c].deleted = credentials[c].deleted
        <4>1. CASE r.credentials[c] = NoCredential
          BY <1>4, <3>2, <4>1
        <4>2. CASE r.credentials[c] # NoCredential
          <5>1. credentials'[c] = r.credentials[c]
            BY <1>4, <4>2
          <5>2. ~StagedNew(r, held[w], c)
            BY <2>2, <3>2, <5>1 DEF StagedNew
          <5>3. StagedRevoked(r, held[w], c)
            BY <1>4, <4>2, <5>2
          <5>. QED  BY <2>2, <3>2, <5>1, <5>3 DEF StagedRevoked
        <4>. QED  BY <4>1, <4>2
      <3>3. \A c \in Credentials :
              credentials[c] # NoCredential /\ credentials[c].integration = i
                <=> credentials'[c] # NoCredential /\ credentials'[c].integration = i
        BY <1>4, <3>2 DEF Grows
      <3>4. Balanced(integrations, credentials, i)
        BY <2>2 DEF SInv, DeletedWithLastVersion, Balanced
      <3>. QED  BY <3>1, <3>2, <3>3, <3>4 DEF Balanced
    <2>3. CASE integrations[i] = NoIntegration
      <3>1. StagedIntegration(r, held[w], i) /\ integrations'[i] = r.integrations[i]
        BY <1>4, <1>10, <2>3
      <3>2. PICK c \in Credentials : r.credentials[c] # NoCredential /\ r.credentials[c].integration = i
        BY <2>3, <3>1 DEF StagedIntegration
      <3>3. ~StagedRevoked(r, held[w], c)
        BY <2>3, <3>2 DEF StagedRevoked, KInv, Rooted
      <3>4. StagedNew(r, held[w], c) /\ credentials'[c] = r.credentials[c]
        BY <1>4, <3>2, <3>3
      <3>5. integrations'[i].status = "active" /\ ~credentials'[c].deleted
        BY <2>3, <3>1, <3>4 DEF StagedIntegration, StagedNew
      <3>. QED  BY <3>2, <3>4, <3>5 DEF Balanced
    <2>. QED  BY <2>1, <2>2, <2>3
  <1>11. AuthorityBehindCredential'
    BY <1>8 DEF AuthorityBehindCredential, Administrator
  <1>12. OneReplacement'
    BY <1>9 DEF OneReplacement
  <1>13. DeletedWithLastVersion'
    BY <1>10 DEF DeletedWithLastVersion, Balanced
  <1>. QED  BY <1>3, <1>5, <1>6, <1>11, <1>12, <1>13 DEF SInv

-------------------------------------------------------------------------------
(* The theorems.                                                           *)

(* The database and the transactions as they were.                         *)
LEMMA StutterStep ==
    ASSUME KInv, SInv, UNCHANGED <<Database, work, held>>, now' \in 0 .. MaxNow
    PROVE  KInv' /\ SInv'
  <1>1. KInv'
    BY DEF KInv, TypeOK, Knows, Answering, Locking, Rooted, Database
  <1>2. SInv'
    BY StagedKept
  <1>. QED  BY <1>1, <1>2

LEMMA DecideStep ==
    ASSUME KInv, SInv, NEW w \in Workers,
           \/ DecideIssueFirst(w) \/ DecideIssue(w) \/ DecideRevoke(w) \/ DecideRotate(w)
           \/ DecideDelete(w) \/ DecideDemote(w) \/ DecideDeleteAccount(w)
    PROVE  KInv' /\ SInv' /\ UNCHANGED Database
  <1>1. KInv' /\ SInv'
    BY DecideIssueFirstStep, DecideIssueStep, DecideRevokeStep, DecideRotateStep, DecideDeleteStep,
       DecideDemoteStep, DecideDeleteAccountStep
  <1>2. UNCHANGED Database
    BY DEF DecideIssueFirst, DecideIssue, DecideRevoke, DecideRotate, DecideDelete, DecideDemote,
       DecideDeleteAccount, Refuse, Stage
  <1>. QED  BY <1>1, <1>2

LEMMA QuietDatabase ==
    ASSUME NEW w \in Workers,
           \/ Begin(w) \/ ReferToUser(w) \/ LockUser(w)
           \/ TakeAuthority(w) \/ TakeIntegration(w) \/ TakeCredential(w) \/ Abort(w)
    PROVE  UNCHANGED Database
  BY DEF Begin, BeginIssueFirst, BeginIssue, BeginLifecycle, BeginDemote, BeginDeleteAccount,
     Authenticate, Start, ReferToUser, LockUser, TakeAuthority, TakeIntegration, TakeCredential,
     Abort, Refuse

LEMMA NextInvariant == KInv /\ SInv /\ [Next]_vars => KInv' /\ SInv'
  <1>. SUFFICES ASSUME KInv, SInv, [Next]_vars  PROVE KInv' /\ SInv'
    OBVIOUS
  <1>1. ASSUME NEW w \in Workers, Begin(w) \/ Abort(w)
        PROVE  KInv' /\ SInv'
    BY <1>1, QuietSteps DEF Abort
  <1>2. ASSUME NEW w \in Workers, Step(w)
        PROVE  KInv' /\ SInv'
    BY <1>2, QuietSteps, DecideStep, CommitStep, RecordUsageStep DEF Step
  <1>3. CASE Tick
    <2>1. now' \in 0 .. MaxNow
      BY <1>3, Bounds DEF Tick, KInv, TypeOK
    <2>. QED  BY <1>3, <2>1, StutterStep DEF Tick
  <1>4. CASE UNCHANGED vars
    <2>1. now' \in 0 .. MaxNow
      BY <1>4 DEF vars, KInv, TypeOK
    <2>. QED  BY <1>4, <2>1, StutterStep DEF vars, Database
  <1>. QED  BY <1>1, <1>2, <1>3, <1>4 DEF Next

(* What every transaction knows, holds and is about to write, however the  *)
(* transactions of a workspace interleave: KInv and SInv are inductive.    *)
THEOREM Known == Spec => [](KInv /\ SInv)
  <1>1. Init => KInv /\ SInv
    BY InitK, InitS
  <1>. QED  BY <1>1, NextInvariant, PTL DEF Spec

(* Every row, lock and transaction keeps its type.                         *)
THEOREM TypeCorrect == Spec => []TypeOK
  <1>1. KInv => TypeOK
    BY DEF KInv
  <1>. QED  BY <1>1, Known, PTL

(* revoke_integration_creator_authority and the locks of the management    *)
(* operations: for any users, integrations and number of simultaneous      *)
(* transactions, an active version whose creator still has an account      *)
(* answers to an administrator.                                            *)
THEOREM VersionsAnswerToAdministrators == Spec => []AuthorityBehindCredential
  <1>1. SInv => AuthorityBehindCredential
    BY DEF SInv
  <1>. QED  BY <1>1, Known, PTL

(* rotateCredential: however many rotations of one version race, it gets   *)
(* one replacement, in its own integration, and is itself revoked.         *)
THEOREM RotatedOnce == Spec => []OneReplacement
  <1>1. SInv => OneReplacement
    BY DEF SInv
  <1>. QED  BY <1>1, Known, PTL

(* deleteCredential: an integration is deleted exactly when its last       *)
(* version was, whatever is issued, rotated or deleted at the same time.   *)
THEOREM IntegrationGoesWithLastVersion == Spec => []DeletedWithLastVersion
  <1>1. SInv => DeletedWithLastVersion
    BY DEF SInv
  <1>. QED  BY <1>1, Known, PTL

(* A commit and the record of a use are the only steps that change a row.  *)
LEMMA RowsChange ==
    ASSUME KInv, SInv, [Next]_vars
    PROVE  \/ credentials' = credentials
           \/ \E w \in Workers : Commit(w) \/ RecordUsage(w)
  <1>1. ASSUME NEW w \in Workers, Begin(w) \/ Abort(w) \/ Step(w)
        PROVE  credentials' = credentials \/ Commit(w) \/ RecordUsage(w)
    BY <1>1, QuietDatabase, DecideStep DEF Step, Database
  <1>. QED  BY <1>1 DEF Next, Tick, vars, Database

(* A revoked version is never active again, a deleted one never returns    *)
(* and no version moves to another integration: lifecycle writes are made  *)
(* under locks, on rows that were read again, and never on stale ones.     *)
THEOREM LifecycleNeverTurnsBack == Spec => LifecycleIrreversible
  <1>1. KInv /\ SInv /\ [Next]_vars =>
          [\A c \in Credentials :
             credentials[c] # NoCredential =>
                /\ credentials'[c] # NoCredential
                /\ credentials[c].status = "revoked" => credentials'[c].status = "revoked"
                /\ credentials[c].deleted => credentials'[c].deleted
                /\ credentials'[c].integration = credentials[c].integration]_vars
    <2>. SUFFICES ASSUME KInv, SInv, [Next]_vars,
                         NEW c \in Credentials, credentials[c] # NoCredential
                  PROVE  /\ credentials'[c] # NoCredential
                         /\ credentials[c].status = "revoked" => credentials'[c].status = "revoked"
                         /\ credentials[c].deleted => credentials'[c].deleted
                         /\ credentials'[c].integration = credentials[c].integration
      OBVIOUS
    <2>1. CASE credentials' = credentials
      BY <2>1
    <2>2. ASSUME NEW w \in Workers, Commit(w)
          PROVE  /\ credentials[c].status = "revoked" => credentials'[c].status = "revoked"
                 /\ credentials[c].deleted => credentials'[c].deleted
                 /\ Grows
      BY <2>2, CommitRows
    <2>3. ASSUME NEW w \in Workers, RecordUsage(w)
          PROVE  /\ credentials[c].status = "revoked" => credentials'[c].status = "revoked"
                 /\ credentials[c].deleted => credentials'[c].deleted
                 /\ Grows
      BY <2>3, RecordUsageStep
    <2>. QED  BY <2>1, <2>2, <2>3, RowsChange DEF Grows
  <1>. QED  BY <1>1, Known, PTL DEF Spec, LifecycleIrreversible

(* recordCredentialUse: however late the updates of requests arrive, and   *)
(* in whatever order, lastUsedAt moves forward by the interval at least,   *)
(* and only while the version is active.                                   *)
THEOREM UseRecordedAtIntervals == Spec => UsageThrottled
  <1>1. KInv /\ SInv /\ [Next]_vars =>
          [\A c \in Credentials :
             /\ credentials[c] # NoCredential
             /\ credentials'[c].lastUsedAt # credentials[c].lastUsedAt
             => /\ credentials[c].status = "active"
                /\ credentials[c].lastUsedAt # NoTime =>
                     credentials'[c].lastUsedAt >= credentials[c].lastUsedAt + UsageInterval]_vars
    <2>. SUFFICES ASSUME KInv, SInv, [Next]_vars,
                         NEW c \in Credentials, credentials[c] # NoCredential,
                         credentials'[c].lastUsedAt # credentials[c].lastUsedAt
                  PROVE  /\ credentials[c].status = "active"
                         /\ credentials[c].lastUsedAt # NoTime =>
                              credentials'[c].lastUsedAt >= credentials[c].lastUsedAt + UsageInterval
      OBVIOUS
    <2>1. PICK w \in Workers : RecordUsage(w)
      BY RowsChange, CommitRows
    <2>2. /\ RecordsUsage(credentials[c], work[w].at)
          /\ credentials'[c].lastUsedAt = work[w].at
      BY <2>1, RecordUsageStep
    <2>3. work[w].at \in Nat
      BY <2>1, WorkTyped DEF RecordUsage, At
    <2>4. credentials[c].lastUsedAt \in Nat \cup {NoTime}
      BY CredentialRows DEF KInv, TypeOK
    <2>5. credentials[c].lastUsedAt # NoTime =>
            work[w].at - credentials[c].lastUsedAt >= UsageInterval
      BY <2>2 DEF RecordsUsage, UsageDue
    <2>6. credentials[c].lastUsedAt # NoTime =>
            work[w].at >= credentials[c].lastUsedAt + UsageInterval
      BY <2>3, <2>4, <2>5, Bounds
    <2>. QED  BY <2>2, <2>6 DEF RecordsUsage
  <1>. QED  BY <1>1, Known, PTL DEF Spec, UsageThrottled

-------------------------------------------------------------------------------
(* Locks are taken in one order.                                           *)

AuthorityLocks == {AuthorityLock(u) : u \in Users}
IntegrationLocks == {IntegrationLock(i) : i \in Integrations}
CredentialLocks == {CredentialLock(c) : c \in Credentials}

(* What a transaction that still has locks to take may hold: authorities   *)
(* of users before the next one, then an integration, then a version.      *)
Ordered(r, locks) ==
    /\ r.pc \in {"idle", "usage", "audit", "user"} => locks = {}
    /\ r.pc = "authority" =>
         \A lock \in locks : \E u \in Users :
           lock = AuthorityLock(u) /\ \A v \in r.queue : u < v
    /\ r.pc = "integration" => locks \subseteq AuthorityLocks
    /\ r.pc = "credential" => locks \subseteq AuthorityLocks \cup IntegrationLocks
    /\ r.pc = "decide" /\ r.op \in {"demote", "deleteAccount"} => locks \subseteq AuthorityLocks

LInv == \A w \in Workers : Ordered(work[w], held[w])

(* The first user of a queue comes before the others.                      *)
LEMMA QueueOrder ==
    ASSUME KInv, NEW w \in Workers, At(w, "authority")
    PROVE  /\ NextAuthority(w) \in work[w].queue /\ NextAuthority(w) \in Users
           /\ \A v \in work[w].queue \ {NextAuthority(w)} : NextAuthority(w) < v
  <1>1. PICK a \in Users, b \in Users : a \in work[w].queue /\ work[w].queue \subseteq {a, b}
    BY WorkTyped DEF At, Knows
  <1>2. NextAuthority(w) \in work[w].queue
    BY <1>1, NextInQueue
  <1>3. a \in Nat /\ b \in Nat
    BY Bounds
  <1>4. \E u \in work[w].queue : \A v \in work[w].queue : u <= v
    <2>1. CASE b \in work[w].queue /\ b <= a
      BY <1>1, <1>3, <2>1
    <2>2. CASE b \notin work[w].queue \/ a <= b
      BY <1>1, <1>3, <2>2
    <2>. QED  BY <1>3, <2>1, <2>2
  <1>5. \A v \in work[w].queue : NextAuthority(w) <= v
    BY <1>4 DEF NextAuthority
  <1>. QED  BY <1>1, <1>2, <1>3, <1>5

LEMMA OrderedStep == KInv /\ LInv /\ [Next]_vars => LInv'
  <1>. SUFFICES ASSUME KInv, LInv, [Next]_vars  PROVE LInv'
    OBVIOUS
  <1>0. /\ work \in [Workers -> Work \cup {Idle}] /\ held \in [Workers -> SUBSET Locks]
        /\ Idle.pc = "idle"
    BY DEF KInv, TypeOK, Idle
  <1>1. ASSUME NEW w \in Workers, NEW r, work' = [work EXCEPT ![w] = r],
               \A v \in Workers \ {w} : held'[v] = held[v], Ordered(r, held'[w])
        PROVE  LInv'
    BY <1>0, <1>1 DEF LInv
  <1>2. ASSUME NEW w \in Workers, Refuse(w)
        PROVE  LInv'
    <2>1. Ordered(Idle, held'[w])
      BY <1>0, <1>2 DEF Refuse, Ordered
    <2>. QED  BY <1>0, <1>1, <1>2, <2>1 DEF Refuse
  <1>3. ASSUME NEW w \in Workers, Begin(w)
        PROVE  LInv'
    <2>1. ASSUME NEW r, work' = [work EXCEPT ![w] = r], UNCHANGED held, At(w, "idle"),
                 r.pc \in {"audit", "authority", "usage"}
          PROVE  LInv'
      <3>1. held'[w] = {}
        BY <2>1 DEF LInv, Ordered, At
      <3>2. Ordered(r, held'[w])
        BY <2>1, <3>1 DEF Ordered
      <3>. QED  BY <1>1, <2>1, <3>2
    <2>2. ASSUME NEW op, NEW actor, NEW i, NEW c, NEW users, Start(w, op, actor, i, c, users)
          PROVE  LInv'
      BY <2>1, <2>2 DEF Start
    <2>3. ASSUME NEW u \in Users, BeginDeleteAccount(w, u)
          PROVE  LInv'
      BY <2>1, <2>3 DEF BeginDeleteAccount
    <2>4. ASSUME NEW c \in Credentials, NEW at \in 0 .. now, Authenticate(w, c, at)
          PROVE  LInv'
      BY <2>1, <2>4 DEF Authenticate
    <2>. QED  BY <1>3, <2>2, <2>3, <2>4 DEF Begin, BeginIssueFirst, BeginIssue, BeginLifecycle, BeginDemote
  <1>4. ASSUME NEW w \in Workers, TakeAuthority(w)
        PROVE  LInv'
    <2>. DEFINE u == NextAuthority(w)
                rest == work[w].queue \ {u}
                pc == IF rest = {} THEN AfterAuthority(work[w].op) ELSE "authority"
                r == [work[w] EXCEPT !.queue = rest, !.pc = pc]
    <2>1. /\ u \in work[w].queue /\ u \in Users /\ \A v \in rest : u < v
          /\ work[w] \in Work /\ work[w].pc = "authority"
      BY <1>4, QueueOrder, WorkTyped DEF TakeAuthority, At
    <2>2. /\ held'[w] = held[w] \cup {AuthorityLock(u)}
          /\ \A v \in Workers \ {w} : held'[v] = held[v]
          /\ work' = [work EXCEPT ![w] = r]
      BY <1>0, <1>4 DEF TakeAuthority, Take
    <2>3. \A lock \in held[w] : \E x \in Users : lock = AuthorityLock(x) /\ \A v \in work[w].queue : x < v
      BY <2>1 DEF LInv, Ordered
    <2>. HIDE DEF u
    <2>4. held'[w] \subseteq AuthorityLocks
      BY <2>1, <2>2, <2>3 DEF AuthorityLocks
    <2>5. \A lock \in held'[w] : \E x \in Users : lock = AuthorityLock(x) /\ \A v \in rest : x < v
      BY <2>1, <2>2, <2>3
    <2>6. pc \in {"authority", "integration", "decide"}
      BY DEF AfterAuthority
    <2>. HIDE DEF pc, rest
    <2>7. r.pc = pc /\ r.queue = rest
      BY <2>1 DEF Work
    <2>. HIDE DEF r
    <2>8. Ordered(r, held'[w])
      BY <2>4, <2>5, <2>6, <2>7 DEF Ordered
    <2>. QED  BY <1>1, <2>2, <2>8
  <1>5. ASSUME NEW w \in Workers, TakeIntegration(w)
        PROVE  LInv'
    <2>. DEFINE r == [work[w] EXCEPT !.pc = IF work[w].op = "issue" THEN "decide" ELSE "credential"]
    <2>1. /\ work[w] \in Work /\ work[w].pc = "integration" /\ work[w].op \in Existing
          /\ work[w].integration \in Integrations
      BY <1>5, WorkTyped DEF TakeIntegration, At, Knows
    <2>2. /\ held'[w] = held[w] \cup {IntegrationLock(work[w].integration)}
          /\ \A v \in Workers \ {w} : held'[v] = held[v]
          /\ work' = [work EXCEPT ![w] = r]
      BY <1>0, <1>5 DEF TakeIntegration, Take
    <2>3. held'[w] \subseteq AuthorityLocks \cup IntegrationLocks
      BY <2>1, <2>2 DEF LInv, Ordered, IntegrationLocks
    <2>4. r.pc \in {"decide", "credential"} /\ r.op \in Existing
      BY <2>1 DEF Work
    <2>. HIDE DEF r
    <2>5. Ordered(r, held'[w])
      BY <2>3, <2>4 DEF Ordered, Existing, Lifecycle
    <2>. QED  BY <1>1, <2>2, <2>5
  <1>6. ASSUME NEW w \in Workers, TakeCredential(w)
        PROVE  LInv'
    <2>. DEFINE r == [work[w] EXCEPT !.pc = "decide"]
    <2>1. /\ work[w] \in Work /\ work[w].op \in Lifecycle
      BY <1>6, WorkTyped DEF TakeCredential, At, Knows
    <2>2. /\ \A v \in Workers \ {w} : held'[v] = held[v]
          /\ work' = [work EXCEPT ![w] = r]
      BY <1>0, <1>6 DEF TakeCredential, Take
    <2>3. r.pc = "decide" /\ r.op \in Lifecycle
      BY <2>1 DEF Work
    <2>. HIDE DEF r
    <2>4. Ordered(r, held'[w])
      BY <2>3 DEF Ordered, Lifecycle
    <2>. QED  BY <1>1, <2>2, <2>4
  <1>7. ASSUME NEW w \in Workers, NEW ni, NEW nc, NEW locks, Stage(w, ni, nc), At(w, "decide"),
               held' = held \/ Take(w, locks)
        PROVE  LInv'
    <2>. DEFINE r == [work[w] EXCEPT !.pc = "commit", !.integrations = ni, !.credentials = nc]
    <2>1. work[w] \in Work
      BY <1>7, WorkTyped DEF At
    <2>2. work' = [work EXCEPT ![w] = r] /\ r.pc = "commit"
      BY <1>0, <1>7, <2>1 DEF Stage, Work
    <2>3. \A v \in Workers \ {w} : held'[v] = held[v]
      BY <1>0, <1>7 DEF Take
    <2>. HIDE DEF r
    <2>4. Ordered(r, held'[w])
      BY <2>2 DEF Ordered
    <2>. QED  BY <1>1, <2>2, <2>3, <2>4
  <1>8. ASSUME NEW w \in Workers,
           \/ DecideIssueFirst(w) \/ DecideIssue(w) \/ DecideRevoke(w) \/ DecideRotate(w)
           \/ DecideDelete(w) \/ DecideDemote(w) \/ DecideDeleteAccount(w)
        PROVE  LInv'
    BY <1>2, <1>7, <1>8 DEF DecideIssueFirst, DecideIssue, DecideRevoke, DecideRotate, DecideDelete,
       DecideDemote, DecideDeleteAccount, Deciding
  <1>9. ASSUME NEW w \in Workers, Commit(w)
        PROVE  LInv'
    <2>1. Ordered(Idle, held'[w])
      BY <1>0, <1>9 DEF Commit, Ordered
    <2>. QED  BY <1>0, <1>1, <1>9, <2>1 DEF Commit
  <1>10. ASSUME NEW w \in Workers, RecordUsage(w)
         PROVE  LInv'
    <2>1. held'[w] = {}
      BY <1>10 DEF RecordUsage, At, LInv, Ordered
    <2>2. Ordered(Idle, held'[w])
      BY <1>0, <2>1 DEF Ordered
    <2>. QED  BY <1>0, <1>1, <1>10, <2>2 DEF RecordUsage
  <1>11. ASSUME NEW w \in Workers, ReferToUser(w) \/ LockUser(w)
         PROVE  LInv'
    <2>1. work[w] \in Work
      BY <1>11, WorkTyped DEF ReferToUser, LockUser, At
    <2>2. ASSUME NEW pc \in {"user", "authority"}, work[w].pc \in {"audit", "user"},
                 work' = [work EXCEPT ![w].pc = pc], held' = held
          PROVE  LInv'
      <3>. DEFINE r == [work[w] EXCEPT !.pc = pc]
      <3>1. held'[w] = {}
        BY <2>2 DEF LInv, Ordered
      <3>2. work' = [work EXCEPT ![w] = r] /\ r.pc = pc
        BY <1>0, <2>1, <2>2 DEF Work
      <3>. HIDE DEF r
      <3>3. Ordered(r, held'[w])
        BY <3>1, <3>2 DEF Ordered
      <3>. QED  BY <1>1, <2>2, <3>2, <3>3
    <2>. QED  BY <1>2, <1>11, <2>2 DEF ReferToUser, LockUser, At
  <1>12. CASE Tick \/ UNCHANGED vars
    BY <1>12 DEF Tick, vars, LInv
  <1>. QED  BY <1>2, <1>3, <1>4, <1>5, <1>6, <1>8, <1>9, <1>10, <1>11, <1>12 DEF Next, Step, Abort

(* What a transaction waits for, by where it is.                           *)
LEMMA AwaitedLocks ==
    ASSUME KInv, NEW w \in Workers, Awaited(w) # {}
    PROVE  \/ At(w, "authority") /\ Awaited(w) = {AuthorityLock(NextAuthority(w))}
           \/ At(w, "integration") /\ Awaited(w) \subseteq IntegrationLocks
           \/ At(w, "credential") /\ Awaited(w) \subseteq CredentialLocks
           \/ At(w, "usage") /\ Awaited(w) \subseteq CredentialLocks
           \/ Deciding(w, "demote") /\ Awaited(w) \subseteq CredentialLocks
           \/ /\ Deciding(w, "deleteAccount")
              /\ Awaited(w) \subseteq IntegrationLocks \cup CredentialLocks
  <1>1. CASE At(w, "authority")
    BY <1>1 DEF Awaited, At, Deciding
  <1>2. CASE At(w, "integration")
    <2>1. work[w].integration \in Integrations
      BY <1>2, WorkTyped DEF At, Knows
    <2>. QED  BY <1>2, <2>1 DEF Awaited, At, Deciding, IntegrationLocks
  <1>3. CASE At(w, "credential") \/ At(w, "usage")
    <2>1. work[w].credential \in Credentials
      BY <1>3, WorkTyped DEF At, Knows
    <2>. QED  BY <1>3, <2>1 DEF Awaited, At, Deciding, CredentialLocks
  <1>4. CASE Deciding(w, "demote")
    BY <1>4 DEF Awaited, At, Deciding, CredentialLocks, ActiveUnder
  <1>5. CASE Deciding(w, "deleteAccount")
    BY <1>5 DEF Awaited, At, Deciding, CredentialLocks, IntegrationLocks, ActiveUnder, CreatedByActor
  <1>6. CASE ~(\/ At(w, "authority") \/ At(w, "integration") \/ At(w, "credential") \/ At(w, "usage")
               \/ Deciding(w, "demote") \/ Deciding(w, "deleteAccount"))
    BY <1>6 DEF Awaited
  <1>. QED  BY <1>1, <1>2, <1>3, <1>4, <1>5, <1>6

LEMMA LocksDiffer ==
    /\ AuthorityLocks \cap IntegrationLocks = {}
    /\ AuthorityLocks \cap CredentialLocks = {}
    /\ IntegrationLocks \cap CredentialLocks = {}
  BY DEF AuthorityLocks, IntegrationLocks, CredentialLocks, AuthorityLock, IntegrationLock,
     CredentialLock

(* Who waits for the row of a user deletes the account, or waits for the   *)
(* transaction that does.                                                  *)
LEMMA UserAwaited ==
    ASSUME KInv, NEW S \in SUBSET Workers, NEW w \in S, NEW v \in S \ {w}, AwaitsUser(w, v)
    PROVE  LeavingCollides(S)
  <1>1. At(w, "audit") \/ At(w, "user") => work[w].op = "deleteAccount"
    BY WorkTyped DEF At, Knows
  <1>2. work[w].op = "deleteAccount" \/ work[v].op = "deleteAccount"
    BY <1>1 DEF AwaitsUser, LocksUser
  <1>3. ~At(w, "idle") /\ ~At(v, "idle") /\ work[v].actor = work[w].actor
    BY DEF AwaitsUser, SameUser
  <1>. QED  BY <1>2, <1>3 DEF LeavingCollides

LEMMA OrderMeansNoCycle == KInv /\ LInv => NoLockCycle
  <1>. SUFFICES ASSUME KInv, LInv, NEW S \in (SUBSET Workers) \ {{}}, ~LeavingCollides(S)
                PROVE  \E w \in S : \A v \in S \ {w} : ~WaitsFor(w, v)
    BY Zenon DEF NoLockCycle
  <1>0. \A w \in S : \A v \in S \ {w} : ~AwaitsUser(w, v)
    BY UserAwaited
  <1>. SUFFICES ASSUME \A w \in S : \E v \in S \ {w} : Awaited(w) \cap held[v] # {}
                PROVE  FALSE
    BY <1>0, Zenon DEF WaitsFor
  <1>1. \A w \in S : Awaited(w) # {}
    OBVIOUS
  <1>2. \A v \in S : held[v] \cap CredentialLocks = {}
    <2>. SUFFICES ASSUME NEW v \in S  PROVE held[v] \cap CredentialLocks = {}
      OBVIOUS
    <2>1. Ordered(work[v], held[v])
      BY DEF LInv
    <2>2. held[v] \subseteq AuthorityLocks \cup IntegrationLocks
      BY <1>1, <2>1, AwaitedLocks DEF Ordered, At, Deciding, AuthorityLocks
    <2>. QED  BY <2>2, LocksDiffer
  <1>3. \A w \in S : At(w, "authority") \/ At(w, "integration") \/ Deciding(w, "deleteAccount")
    BY <1>1, <1>2, AwaitedLocks
  <1>4. \A v \in S : held[v] \cap IntegrationLocks = {}
    <2>. SUFFICES ASSUME NEW v \in S  PROVE held[v] \cap IntegrationLocks = {}
      OBVIOUS
    <2>1. Ordered(work[v], held[v])
      BY DEF LInv
    <2>2. held[v] \subseteq AuthorityLocks
      BY <1>3, <2>1 DEF Ordered, At, Deciding, AuthorityLocks
    <2>. QED  BY <2>2, LocksDiffer
  <1>5. \A w \in S : At(w, "authority") /\ Awaited(w) = {AuthorityLock(NextAuthority(w))}
    BY <1>1, <1>2, <1>3, <1>4, AwaitedLocks DEF At, Deciding
  <1>. DEFINE Nexts == {NextAuthority(w) : w \in S}
  <1>6. Nexts \subseteq Users /\ Nexts # {}
    <2>1. \A w \in S : NextAuthority(w) \in Users
      BY <1>5, QueueOrder
    <2>2. Nexts \subseteq Users
      BY <2>1
    <2>3. PICK w : w \in S
      OBVIOUS
    <2>4. NextAuthority(w) \in Nexts
      BY <2>3
    <2>. QED  BY <2>2, <2>4
  <1>7. PICK n \in Nexts : \A m \in Nexts : m <= n
    <2>1. Nexts \in SUBSET Nat /\ IsFiniteSet(Nexts)
      BY <1>6, Bounds, FS_Subset
    <2>. QED  BY <1>6, <2>1, GreatestNatural
  <1>8. PICK w \in S : n = NextAuthority(w)
    BY <1>7
  <1>9. PICK v \in S \ {w} : AuthorityLock(n) \in held[v]
    BY <1>5, <1>8
  <1>10. PICK u \in Users : AuthorityLock(n) = AuthorityLock(u) /\ \A x \in work[v].queue : u < x
    BY <1>5, <1>9 DEF LInv, Ordered, At
  <1>11. u = n /\ NextAuthority(v) \in work[v].queue
    BY <1>5, <1>10, QueueOrder DEF AuthorityLock
  <1>12. n < NextAuthority(v) /\ NextAuthority(v) <= n /\ n \in Nat /\ NextAuthority(v) \in Nat
    BY <1>6, <1>7, <1>10, <1>11, Bounds
  <1>. QED  BY <1>12

(* lockManagementAuthority and the order of the locks after it: whatever   *)
(* integrations are managed and whoever is demoted at the same time, no    *)
(* set of transactions waits for itself, unless one of them deletes an     *)
(* account of whose user another request runs, or two delete an account.   *)
THEOREM NoDeadlock == Spec => []NoLockCycle
  <1>1. Init => LInv
    BY DEF Init, LInv, Ordered, Idle
  <1>2. Spec => []LInv
    BY <1>1, OrderedStep, Known, PTL DEF Spec
  <1>. QED  BY <1>2, OrderMeansNoCycle, Known, PTL

===============================================================================
