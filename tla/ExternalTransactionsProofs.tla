---------------------- MODULE ExternalTransactionsProofs ----------------------
(***************************************************************************)
(* Proofs about ExternalTransactions for every set of workers, keys,       *)
(* external ids, principals, commands and every retention period.          *)
(***************************************************************************)
EXTENDS ExternalTransactions, TLAPS

(***************************************************************************)
(* What a worker may rely on at each of its steps.  Type correctness is    *)
(* not inductive without it: the row a worker found must still exist when  *)
(* it copies the row's references into the record.                         *)
(***************************************************************************)
Creating(w) == work[w].request.operation = "create"
Keyed(w) == work[w].request.key \in Keys

WorkOK(w) ==
    /\ work[w].pc \in {"claim", "replay"} => Keyed(w)
    /\ work[w].pc \in {"references", "lock"} => Creating(w)
    /\ work[w].pc \in {"lock", "find"} => work[w].request.externalId \in ExtIds
    /\ work[w].pc \in {"claim", "references", "lock", "find"} => work[w].target = NoTx
    /\ work[w].pc = "replay" => work[w].record \in Record
    /\ work[w].pc = "write" =>
         /\ ~Creating(w) => work[w].target \in TxIds
         /\ work[w].target # NoTx => rows[work[w].target] # NoRow
    /\ work[w].pc = "commit" =>
         /\ work[w].target \in TxIds
         /\ work[w].row = NoRow => rows[work[w].target] # NoRow
         /\ Keyed(w) /\ ~work[w].replayed => work[w].record \in Record

WorkInv == \A w \in Workers : WorkOK(w)

(* What the fields of a request range over.                                *)
LEMMA RequestFacts ==
    ASSUME NEW r \in Requests
    PROVE  /\ r.operation \in {"create", "update", "delete"}
           /\ r.key \in Keys \cup {NoKey}
           /\ r.externalId \in ExtIds \cup {NoExt}
           /\ r.command \in Commands \cup {NoCommand}
           /\ r.operation # "delete" => r.command \in Commands
           /\ r.operation # "create" => /\ r.key \in Keys
                                        /\ r.externalId \in ExtIds
                                        /\ r.expectedVersion \in 1 .. MaxVersion - 1
  BY DEF Requests, CreateRequests, UpdateRequests, DeleteRequests, Nullable,
         ExpectedVersions

(* What the references of a body range over.                               *)
LEMMA CommandFacts ==
    ASSUME NEW c \in Commands
    PROVE  /\ c.categoryId \in Categories \cup {NoCategory}
           /\ c.paymentSourceId \in Sources
  BY ConstantsAssumption DEF CommandType, Nullable

(* A row that is not at the last version has a next one.                   *)
LEMMA NextVersionTyped ==
    ASSUME NEW row \in Row, row.version < MaxVersion
    PROVE  /\ row.version + 1 \in 1 .. MaxVersion
           /\ DeletedRow(row) \in Row
           /\ \A c \in Commands : UpdatedRow(row, c) \in Row
  <1>1. row.version + 1 \in 1 .. MaxVersion
    BY ConstantsAssumption DEF Row
  <1>. QED  BY <1>1 DEF DeletedRow, UpdatedRow, Row

(* An idle worker carries nothing.                                         *)
LEMMA IdleNotWork == Idle \notin Work /\ Idle.pc = "idle"
  BY DEF Idle, Work, Steps

(* A worker that is not idle carries a full record.                        *)
LEMMA WorkTyped ==
    ASSUME TypeOK, NEW w \in Workers, work[w].pc # "idle"
    PROVE  /\ work[w] \in Work
           /\ work[w].principal \in Principals
           /\ work[w].principal.integration \in Integrations
           /\ work[w].request \in Requests
           /\ work[w].pc \in Steps
  <1>1. work[w] \in Work
    BY IdleNotWork DEF TypeOK
  <1>2. Principals \subseteq PrincipalType
    BY ConstantsAssumption
  <1>. QED  BY <1>1, <1>2 DEF Work, PrincipalType

(* Lock names are what they look like.                                     *)
LEMMA LockTyped ==
    /\ \A i \in Integrations, k \in Keys : KeyLock(i, k) \in Locks
    /\ \A i \in Integrations, e \in ExtIds : ExternalLock(i, e) \in Locks
    /\ \A t \in TxIds : RowLock(t) \in Locks /\ RowShare(t) \in Locks
    /\ \A c \in Commands : RefShares(c) \subseteq Locks
    /\ \A c \in Categories \cup {NoCategory}, s \in Sources \cup {NoSource} :
          s # NoSource => {RefShare(x) : x \in ReferencesOf(c, s)} \subseteq Locks
  BY CommandFacts DEF Locks, RefShares, ReferencesOf

(***************************************************************************)
(* Steps that end the transaction leave nothing behind.                    *)
(***************************************************************************)
LEMMA RefuseKeeps ==
    ASSUME TypeOK, WorkInv, NEW w \in Workers, Refuse(w)
    PROVE  TypeOK' /\ WorkInv'
  <1>1. TypeOK'
    BY DEF TypeOK, Refuse, EndTransaction
  <1>2. \A v \in Workers : WorkOK(v)'
    <2>. SUFFICES ASSUME NEW v \in Workers PROVE WorkOK(v)'
      OBVIOUS
    <2>1. CASE v = w
      <3>1. work'[v].pc = "idle"
        BY <2>1, IdleNotWork DEF Refuse, EndTransaction, TypeOK
      <3>. QED  BY <3>1 DEF WorkOK
    <2>2. CASE v # w
      <3>1. work'[v] = work[v] /\ rows' = rows
        BY <2>2 DEF Refuse, EndTransaction, TypeOK
      <3>. QED  BY <3>1 DEF WorkInv, WorkOK, Keyed, Creating
    <2>. QED  BY <2>1, <2>2
  <1>. QED  BY <1>1, <1>2 DEF WorkInv

(* A step of one worker that changes neither rows nor the other workers.   *)
LEMMA OthersKeep ==
    ASSUME TypeOK, WorkInv, NEW w \in Workers, NEW x,
           work' = [work EXCEPT ![w] = x], rows' = rows, WorkOK(w)'
    PROVE  WorkInv'
  <1>. SUFFICES ASSUME NEW v \in Workers, v # w PROVE WorkOK(v)'
    BY DEF WorkInv
  <1>1. work'[v] = work[v]
    BY DEF TypeOK
  <1>. QED  BY <1>1 DEF WorkInv, WorkOK, Keyed, Creating

(* rows only ever gains rows: what a worker found stays there.             *)
LEMMA RowsGrowKeeps ==
    ASSUME TypeOK, WorkInv, work' = work,
           \A t \in TxIds : rows[t] # NoRow => rows'[t] # NoRow
    PROVE  WorkInv'
  <1>. SUFFICES ASSUME NEW v \in Workers PROVE WorkOK(v)'
    BY DEF WorkInv
  <1>1. WorkOK(v) /\ work'[v] = work[v]
    BY DEF WorkInv
  <1>2. work[v].pc # "idle" => work[v].target \in TxIds \cup {NoTx}
    BY WorkTyped DEF Work, Nullable
  <1>. QED  BY <1>1, <1>2 DEF WorkOK, Keyed, Creating

(***************************************************************************)
(* Type correctness, one step per action.                                  *)
(***************************************************************************)
TInv == TypeOK /\ WorkInv

(* The initial states are typed and every worker is idle.                  *)
LEMMA TInvInit == Init => TInv
  <1>. SUFFICES ASSUME Init PROVE TInv
    OBVIOUS
  <1>1. TypeOK
    BY LegacyAssumption, ConstantsAssumption
    DEF Init, TypeOK, Nullable
  <1>2. WorkInv
    BY IdleNotWork DEF Init, WorkInv, WorkOK
  <1>. QED  BY <1>1, <1>2 DEF TInv

(* A worker moves on, taking some locks and leaving the database alone.    *)
LEMMA WorkerMoves ==
    ASSUME TInv, NEW w \in Workers, NEW x \in Work, NEW L \in SUBSET Locks,
           work' = [work EXCEPT ![w] = x], held' = [held EXCEPT ![w] = @ \cup L],
           UNCHANGED <<rows, records, archived, now, completions>>,
           work'[w] = x => WorkOK(w)'
    PROVE  TInv'
  <1>1. work'[w] = x
    BY DEF TInv, TypeOK
  <1>2. WorkInv'
    BY <1>1, OthersKeep DEF TInv
  <1>3. TypeOK'
    BY DEF TypeOK, TInv
  <1>. QED  BY <1>2, <1>3 DEF TInv

(* A request that begins carries a typed record.                           *)
LEMMA TInvBegin ==
    ASSUME TInv, NEW w \in Workers, NEW p \in Principals,
           NEW r \in ClientRequests, Begin(w, p, r)
    PROVE  TInv'
  <1>. r \in Requests
    BY ClientRequestsAssumption
  <1>1. NoResponse \in Response
    BY ConstantsAssumption DEF NoResponse, Response, Nullable
  <1>2. PICK s \in {"claim", "references", "find"} :
          /\ s = FirstStep(r)
          /\ s = "claim" => r.key \in Keys
          /\ s = "references" => r.operation = "create"
          /\ s = "find" => r.operation # "create"
    BY RequestFacts DEF FirstStep, AfterClaim
  <1>. DEFINE x == [pc |-> s, principal |-> p, request |-> r,
                    claimedAt |-> now, retried |-> FALSE, target |-> NoTx,
                    row |-> NoRow, record |-> NoRecord,
                    response |-> NoResponse, replayed |-> FALSE]
  <1>3. x \in Work
    BY <1>1, <1>2 DEF Work, Steps, Nullable, TInv, TypeOK
  <1>4. work' = [work EXCEPT ![w] = x] /\ UNCHANGED <<rows, records, archived, now, completions>>
    BY <1>2 DEF Begin
  <1>5. held' = [held EXCEPT ![w] = @ \cup {}]
    BY DEF Begin, TInv, TypeOK
  <1>6. work'[w] = x => WorkOK(w)'
    BY <1>2, RequestFacts DEF WorkOK, Keyed, Creating
  <1>7. {} \in SUBSET Locks
    OBVIOUS
  <1>. HIDE DEF x
  <1>. QED  BY <1>3, <1>4, <1>5, <1>6, <1>7, WorkerMoves

(* The outcomes of the claim: go on, replay, or refuse.                    *)
LEMMA TInvClaim ==
    ASSUME TInv, NEW w \in Workers,
           ClaimKey(w) \/ ClaimReplay(w) \/ ClaimConflict(w) \/ ClaimInProgress(w)
    PROVE  TInv'
  <1>. DEFINE L == {KeyLock(work[w].principal.integration, work[w].request.key)}
  <1>1. /\ work[w] \in Work
        /\ work[w].principal.integration \in Integrations
        /\ work[w].request \in Requests
        /\ work[w].request.key \in Keys
        /\ work[w].target = NoTx
        /\ now \in Nat
    <2>1. work[w].pc = "claim" /\ WorkOK(w)
      BY DEF ClaimKey, ClaimReplay, ClaimConflict, ClaimInProgress, LockKey, At,
             TInv, WorkInv
    <2>2. now \in Nat
      BY ConstantsAssumption DEF TInv, TypeOK
    <2>. QED  BY <2>1, <2>2, WorkTyped DEF TInv, WorkOK, Keyed
  <1>2. L \in SUBSET Locks
    BY <1>1, LockTyped
  <1>3. CASE ClaimKey(w)
    <2>1. PICK s \in {"references", "find"} :
            /\ s = AfterClaim(work[w].request)
            /\ s = "references" => Creating(w)
            /\ s = "find" => ~Creating(w)
      BY DEF AfterClaim, Creating
    <2>. DEFINE x == [work[w] EXCEPT !.pc = s, !.claimedAt = now]
    <2>2. x \in Work
      BY <1>1 DEF Work, Steps
    <2>3. work' = [work EXCEPT ![w] = x]
      BY <1>3, <2>1 DEF ClaimKey
    <2>4. /\ held' = [held EXCEPT ![w] = @ \cup L]
          /\ UNCHANGED <<rows, records, archived, now, completions>>
      BY <1>3 DEF ClaimKey, Take
    <2>5. work'[w] = x => WorkOK(w)'
      BY <1>1, <2>1, RequestFacts DEF Work, WorkOK, Keyed, Creating
    <2>. HIDE DEF x, L
    <2>. QED  BY <1>2, <2>2, <2>3, <2>4, <2>5, WorkerMoves
  <1>4. CASE ClaimReplay(w)
    <2>1. Rec(w) \in Record
      <3>1. records \in [Integrations -> [Keys -> Record \cup {NoRecord}]]
        BY DEF TInv, TypeOK, Nullable
      <3>2. Rec(w) \in Record \cup {NoRecord}
        BY <1>1, <3>1 DEF Rec
      <3>3. Rec(w) # NoRecord
        BY <1>4 DEF ClaimReplay, Decides
      <3>. QED  BY <3>2, <3>3
    <2>. DEFINE x == [work[w] EXCEPT !.pc = "replay", !.record = Rec(w)]
    <2>2. x \in Work
      BY <1>1, <2>1 DEF Work, Steps, Nullable
    <2>3. work' = [work EXCEPT ![w] = x]
      BY <1>4 DEF ClaimReplay
    <2>4. /\ held' = [held EXCEPT ![w] = @ \cup L]
          /\ UNCHANGED <<rows, records, archived, now, completions>>
      BY <1>4 DEF ClaimReplay, Take
    <2>5. work'[w] = x => WorkOK(w)'
      BY <1>1, <2>1 DEF Work, WorkOK, Keyed, Creating
    <2>. HIDE DEF x, L
    <2>. QED  BY <1>2, <2>2, <2>3, <2>4, <2>5, WorkerMoves
  <1>5. CASE ClaimConflict(w) \/ ClaimInProgress(w)
    BY <1>5, RefuseKeeps DEF ClaimConflict, ClaimInProgress, TInv
  <1>. QED  BY <1>3, <1>4, <1>5

(***************************************************************************)
(* Looking for the target: references, external lock, row.                 *)
(***************************************************************************)
LEMMA TInvLook ==
    ASSUME TInv, NEW w \in Workers,
           \/ CheckReferences(w) \/ LockExternal(w)
           \/ FindExisting(w) \/ FindNothing(w) \/ FindTarget(w)
    PROVE  TInv'
  <1>1. /\ work[w] \in Work
        /\ work[w].principal.integration \in Integrations
        /\ work[w].request \in Requests
        /\ work[w].pc \in {"references", "lock", "find"}
        /\ work[w].target = NoTx
        /\ WorkOK(w)
    <2>1. work[w].pc \in {"references", "lock", "find"} /\ WorkOK(w)
      BY DEF CheckReferences, LockExternal, FindExisting, FindNothing, FindTarget,
             At, TInv, WorkInv
    <2>. QED  BY <2>1, WorkTyped DEF TInv, WorkOK
  <1>2. \A t \in TxIds : rows[t] # NoRow =>
           rows[t].command \in Commands /\ RefShares(rows[t].command) \subseteq Locks
    BY LockTyped DEF TInv, TypeOK, Row, Nullable
  <1>3. CASE Refuse(w)
    BY <1>3, RefuseKeeps DEF TInv
  <1>4. CASE CheckReferences(w) /\ ~Refuse(w)
    <2>1. Creating(w) /\ work[w].request.command \in Commands
      BY <1>1, <1>4, RequestFacts DEF CheckReferences, At, WorkOK, Creating
    <2>. DEFINE L == RefShares(work[w].request.command)
    <2>2. L \in SUBSET Locks
      BY <2>1, LockTyped
    <2>3. PICK s \in {"write", "lock"} :
            /\ work' = [work EXCEPT ![w].pc = s]
            /\ s = "lock" => work[w].request.externalId # NoExt
      BY <1>4 DEF CheckReferences, Go
    <2>. DEFINE x == [work[w] EXCEPT !.pc = s]
    <2>4. x \in Work /\ work' = [work EXCEPT ![w] = x]
      BY <1>1, <2>3 DEF Work, Steps
    <2>5. /\ held' = [held EXCEPT ![w] = @ \cup L]
          /\ UNCHANGED <<rows, records, archived, now, completions>>
      BY <1>4 DEF CheckReferences, Take
    <2>6. work'[w] = x => WorkOK(w)'
      BY <1>1, <2>1, <2>3, RequestFacts DEF Work, WorkOK, Keyed, Creating
    <2>. HIDE DEF x, L
    <2>. QED  BY <2>2, <2>4, <2>5, <2>6, WorkerMoves
  <1>5. CASE LockExternal(w)
    <2>1. work[w].request.externalId \in ExtIds /\ Creating(w)
      BY <1>1, <1>5 DEF LockExternal, At, WorkOK
    <2>. DEFINE L == {ExternalLock(work[w].principal.integration,
                                   work[w].request.externalId)}
                x == [work[w] EXCEPT !.pc = "find"]
    <2>2. L \in SUBSET Locks
      BY <1>1, <2>1, LockTyped
    <2>3. x \in Work
      BY <1>1 DEF Work, Steps
    <2>4. /\ work' = [work EXCEPT ![w] = x]
          /\ held' = [held EXCEPT ![w] = @ \cup L]
          /\ UNCHANGED <<rows, records, archived, now, completions>>
      BY <1>5 DEF LockExternal, Go, Take
    <2>5. work'[w] = x => WorkOK(w)'
      BY <1>1, <2>1 DEF Work, WorkOK, Keyed, Creating
    <2>. HIDE DEF x, L
    <2>. QED  BY <2>2, <2>3, <2>4, <2>5, WorkerMoves
  <1>6. CASE FindNothing(w) /\ ~Refuse(w)
    <2>. DEFINE x == [work[w] EXCEPT !.pc = "write"]
    <2>1. x \in Work
      BY <1>1 DEF Work, Steps
    <2>2. /\ work' = [work EXCEPT ![w] = x]
          /\ UNCHANGED <<rows, records, archived, now, completions>>
          /\ held' = held
          /\ Creating(w)
      BY <1>6 DEF FindNothing, Go, Creating
    <2>3. {} \in SUBSET Locks /\ held' = [held EXCEPT ![w] = @ \cup {}]
      BY <2>2 DEF TInv, TypeOK
    <2>4. work'[w] = x => WorkOK(w)'
      BY <1>1, <2>2 DEF Work, WorkOK, Keyed, Creating
    <2>. HIDE DEF x
    <2>. QED  BY <2>1, <2>2, <2>3, <2>4, WorkerMoves
  <1>7. CASE (FindExisting(w) \/ FindTarget(w)) /\ ~Refuse(w)
    <2>1. PICK t \in TxIds, L \in SUBSET Locks :
            /\ rows[t] # NoRow
            /\ work' = [work EXCEPT ![w].pc = "write", ![w].target = t]
            /\ held' = [held EXCEPT ![w] = @ \cup L]
            /\ UNCHANGED <<rows, records, archived, now, completions>>
      <3>1. CASE FindExisting(w)
        <4>1. PICK t \in TxIds :
                /\ rows[t] # NoRow
                /\ work' = [work EXCEPT ![w].pc = "write", ![w].target = t]
                /\ Take(w, {RowLock(t)} \cup RefShares(rows[t].command))
                /\ UNCHANGED <<rows, records, archived, now, completions>>
          BY <1>7, <3>1 DEF FindExisting, Owned
        <4>2. {RowLock(t)} \cup RefShares(rows[t].command) \in SUBSET Locks
          BY <1>2, <4>1, LockTyped
        <4>. QED  BY <4>1, <4>2 DEF Take
      <3>2. CASE FindTarget(w)
        <4>1. PICK t \in TxIds :
                /\ rows[t] # NoRow
                /\ work' = [work EXCEPT ![w].pc = "write", ![w].target = t]
                /\ Take(w, {RowLock(t)} \cup RefShares(rows[t].command)
                           \cup IF work[w].request.operation = "update"
                                THEN RefShares(work[w].request.command) ELSE {})
                /\ UNCHANGED <<rows, records, archived, now, completions>>
          BY <1>7, <3>2 DEF FindTarget, OwnedActive, Owned
        <4>2. {RowLock(t)} \cup RefShares(rows[t].command)
              \cup (IF work[w].request.operation = "update"
                    THEN RefShares(work[w].request.command) ELSE {}) \in SUBSET Locks
          BY <1>1, <1>2, <4>1, LockTyped, RequestFacts
        <4>. QED  BY <4>1, <4>2 DEF Take
      <3>. QED  BY <1>7, <3>1, <3>2
    <2>. DEFINE x == [work[w] EXCEPT !.pc = "write", !.target = t]
    <2>2. x \in Work /\ work' = [work EXCEPT ![w] = x]
      BY <1>1, <2>1 DEF Work, Steps, Nullable
    <2>3. x.pc = "write" /\ x.target = t
      BY <1>1 DEF Work
    <2>4. work'[w] = x => WorkOK(w)'
      BY <2>1, <2>3 DEF WorkOK, Keyed, Creating
    <2>. HIDE DEF x
    <2>. QED  BY <2>1, <2>2, <2>4, WorkerMoves
  <1>. QED  BY <1>3, <1>4, <1>5, <1>6, <1>7

(***************************************************************************)
(* The mutation.                                                           *)
(***************************************************************************)
LEMMA TInvStage ==
    ASSUME TInv, NEW w \in Workers, NEW t \in TxIds, NEW row \in Row \cup {NoRow},
           NEW command \in Commands, NEW response \in Response,
           row = NoRow => rows[t] # NoRow,
           Stage(w, t, row, command, response)
    PROVE  TInv'
  <1>1. work[w] \in Work /\ work[w].request \in Requests /\ now \in Nat
    BY WorkTyped, ConstantsAssumption DEF Stage, At, TInv, TypeOK
  <1>. DEFINE record == Completed(w, t, command, response)
              x == [work[w] EXCEPT !.pc = "commit", !.target = t, !.row = row,
                                   !.record = record, !.response = response]
  <1>2. record \in Record \cup {NoRecord} /\ (Keyed(w) => record \in Record)
    <2>1. NoKey \notin Keys /\ Retention \in Nat /\ now + Retention \in Nat
      BY <1>1, ConstantsAssumption
    <2>2. Fingerprint(work[w].request) \in Fingerprints
      BY <1>1 DEF Fingerprints
    <2>3. command.categoryId \in Nullable(Categories, NoCategory)
          /\ command.paymentSourceId \in Nullable(Sources, NoSource)
      BY CommandFacts DEF Nullable
    <2>4. work[w].request.operation \in {"create", "update", "delete"}
          /\ work[w].request.externalId \in Nullable(ExtIds, NoExt)
      BY <1>1, RequestFacts DEF Nullable
    <2>5. CASE work[w].request.key = NoKey
      BY <2>1, <2>5 DEF Completed, Keyed
    <2>6. CASE work[w].request.key # NoKey
      BY <1>1, <2>1, <2>2, <2>3, <2>4, <2>6 DEF Completed, Record, Nullable
    <2>. QED  BY <2>5, <2>6
  <1>3. x \in Work
    <2>. HIDE DEF record
    <2>. QED  BY <1>1, <1>2 DEF Work, Steps, Nullable
  <1>4. work' = [work EXCEPT ![w] = x] /\ UNCHANGED <<rows, records, archived, now, completions>>
    BY DEF Stage
  <1>5. {} \in SUBSET Locks /\ held' = [held EXCEPT ![w] = @ \cup {}]
    BY DEF Stage, TInv, TypeOK
  <1>6. x.pc = "commit" /\ x.target = t /\ x.row = row /\ x.record = record
        /\ x.request = work[w].request
    BY <1>1 DEF Work
  <1>. HIDE DEF x, record
  <1>7. work'[w] = x => WorkOK(w)'
    BY <1>2, <1>4, <1>6 DEF WorkOK, Keyed, Creating
  <1>. QED  BY <1>3, <1>4, <1>5, <1>7, WorkerMoves

(* What each of the three mutations stages is typed.                       *)
LEMMA TInvWrite ==
    ASSUME TInv, NEW w \in Workers,
           \/ WriteCreated(w) \/ WriteDuplicate(w)
           \/ WriteAcknowledged(w) \/ WriteUpdated(w) \/ WriteDeleted(w)
    PROVE  TInv'
  <1>1. /\ work[w] \in Work
        /\ work[w].principal.integration \in Integrations
        /\ work[w].request \in Requests
        /\ WorkOK(w)
        /\ work[w].pc = "write"
    <2>1. work[w].pc = "write" /\ WorkOK(w)
      BY DEF WriteCreated, WriteDuplicate, WriteAcknowledged,
             WriteUpdated, WriteDeleted, At, TInv, WorkInv
    <2>. QED  BY <2>1, WorkTyped DEF TInv
  <1>2. \A t \in TxIds : rows[t] # NoRow => rows[t] \in Row
    BY DEF TInv, TypeOK, Nullable
  <1>3. MaxVersion \in Nat \ {0}
    BY ConstantsAssumption
  <1>4. CASE Refuse(w)
    BY <1>4, RefuseKeeps DEF TInv
  <1>5. CASE WriteCreated(w)
    <2>1. work[w].request.command \in Commands
      BY <1>1, <1>5, RequestFacts DEF WriteCreated
    <2>2. CreatedRow(work[w].principal, work[w].request) \in Row
      BY <1>1, <1>3, <2>1, RequestFacts DEF CreatedRow, Row, Nullable
    <2>. DEFINE response == [status |-> 201, command |-> work[w].request.command,
                             version |-> 1]
    <2>3. response \in Response
      BY <1>3, <2>1 DEF Response, Nullable
    <2>4. PICK t \in TxIds :
            Stage(w, t, CreatedRow(work[w].principal, work[w].request),
                  work[w].request.command, response)
      BY <1>5 DEF WriteCreated
    <2>. HIDE DEF response
    <2>5. CreatedRow(work[w].principal, work[w].request) # NoRow
      BY <2>2, AbsenceAssumption
    <2>. QED  BY <2>1, <2>2, <2>3, <2>4, <2>5, TInvStage
  <1>6. CASE WriteAcknowledged(w)
    <2>. DEFINE t == work[w].target
                response == [status |-> 200, command |-> NoCommand, version |-> 0]
    <2>1. t \in TxIds /\ rows[t] # NoRow
      BY <1>1, <1>6 DEF WriteAcknowledged, WorkOK, Work, Nullable
    <2>2. rows[t].command \in Commands
      BY <1>2, <2>1 DEF Row
    <2>3. response \in Response
      BY <1>3 DEF Response, Nullable
    <2>4. Stage(w, t, NoRow, rows[t].command, response)
      BY <1>6 DEF WriteAcknowledged
    <2>. HIDE DEF t, response
    <2>. QED  BY <2>1, <2>2, <2>3, <2>4, TInvStage
  <1>7. CASE WriteUpdated(w) /\ ~Refuse(w)
    <2>. DEFINE t == work[w].target
                row == UpdatedRow(rows[t], work[w].request.command)
                response == [status |-> 200, command |-> work[w].request.command,
                             version |-> rows[t].version + 1]
    <2>1. ~Creating(w)
      BY <1>7 DEF WriteUpdated, Creating
    <2>2. t \in TxIds /\ rows[t] # NoRow
      <3>1. t \in TxIds
        BY <1>1, <2>1 DEF WorkOK
      <3>. QED  BY <1>1, <3>1, ConstantsAssumption DEF WorkOK
    <2>3. work[w].request.command \in Commands
          /\ work[w].request.expectedVersion \in 1 .. MaxVersion - 1
      BY <1>1, <1>7, RequestFacts DEF WriteUpdated
    <2>4. rows[t] \in Row /\ rows[t].version + 1 \in 1 .. MaxVersion
      <3>1. VersionMatches(rows[t], work[w].request)
        BY <1>7 DEF WriteUpdated
      <3>. QED  BY <1>2, <1>3, <2>2, <2>3, <3>1 DEF VersionMatches
    <2>5. row \in Row
      BY <2>3, <2>4 DEF UpdatedRow, Row
    <2>6. response \in Response
      BY <1>3, <2>3, <2>4 DEF Response, Nullable
    <2>7. Stage(w, t, row, work[w].request.command, response)
      BY <1>7 DEF WriteUpdated
    <2>. HIDE DEF t, row, response
    <2>. QED  BY <2>2, <2>3, <2>5, <2>6, <2>7, TInvStage
  <1>8. CASE WriteDeleted(w) /\ ~Refuse(w)
    <2>. DEFINE t == work[w].target
                row == DeletedRow(rows[t])
                response == [status |-> 204, command |-> NoCommand, version |-> 0]
    <2>1. ~Creating(w)
      BY <1>8 DEF WriteDeleted, Creating
    <2>2. t \in TxIds /\ rows[t] # NoRow
      <3>1. t \in TxIds
        BY <1>1, <2>1 DEF WorkOK
      <3>. QED  BY <1>1, <3>1, ConstantsAssumption DEF WorkOK
    <2>3. work[w].request.expectedVersion \in 1 .. MaxVersion - 1
      BY <1>1, <1>8, RequestFacts DEF WriteDeleted
    <2>4. rows[t] \in Row /\ rows[t].version + 1 \in 1 .. MaxVersion
      <3>1. VersionMatches(rows[t], work[w].request)
        BY <1>8 DEF WriteDeleted
      <3>. QED  BY <1>2, <1>3, <2>2, <2>3, <3>1 DEF VersionMatches
    <2>5. row \in Row /\ rows[t].command \in Commands
      BY <2>4 DEF DeletedRow, Row
    <2>6. response \in Response
      BY <1>3 DEF Response, Nullable
    <2>7. Stage(w, t, row, rows[t].command, response)
      BY <1>8 DEF WriteDeleted
    <2>. HIDE DEF t, row, response
    <2>. QED  BY <2>2, <2>5, <2>6, <2>7, TInvStage
  <1>9. CASE WriteDuplicate(w) /\ ~Refuse(w)
    <2>1. PICK s \in {"claim", "references", "find"} :
            /\ s = FirstStep(work[w].request)
            /\ s = "claim" => Keyed(w)
            /\ s = "references" => Creating(w)
            /\ s = "find" => ~Creating(w)
      BY <1>1, RequestFacts DEF FirstStep, AfterClaim, Keyed, Creating
    <2>. DEFINE x == [work[w] EXCEPT !.pc = s, !.retried = TRUE]
    <2>2. x \in Work
      BY <1>1 DEF Work, Steps
    <2>3. /\ work[w].target = NoTx
          /\ Creating(w)
          /\ work' = [work EXCEPT ![w] = x]
          /\ held' = [held EXCEPT ![w] = {}]
          /\ UNCHANGED <<rows, records, archived, now, completions>>
      BY <1>9, <2>1 DEF WriteDuplicate, Creating
    <2>4. work'[w] = x
      BY <2>3 DEF TInv, TypeOK
    <2>5. WorkOK(w)'
      BY <1>1, <2>1, <2>3, <2>4 DEF Work, WorkOK, Keyed, Creating
    <2>. HIDE DEF x
    <2>6. WorkInv'
      BY <2>3, <2>5, OthersKeep DEF TInv
    <2>7. TypeOK'
      BY <2>2, <2>3 DEF TypeOK, TInv
    <2>. QED  BY <2>6, <2>7 DEF TInv
  <1>. QED  BY <1>4, <1>5, <1>6, <1>7, <1>8, <1>9

(***************************************************************************)
(* The answers: a stored one, or the commit of what was staged.            *)
(***************************************************************************)
LEMMA TInvReplay ==
    ASSUME TInv, NEW w \in Workers, Replay(w)
    PROVE  TInv'
  <1>. DEFINE record == work[w].record
              t == record.targetTransactionId
  <1>1. work[w] \in Work /\ work[w].request \in Requests /\ WorkOK(w)
        /\ record \in Record /\ Keyed(w)
    <2>1. work[w].pc = "replay" /\ WorkOK(w)
      BY DEF Replay, At, TInv, WorkInv
    <2>. QED  BY <2>1, WorkTyped DEF TInv, WorkOK
  <1>2. CASE Refuse(w)
    BY <1>2, RefuseKeeps DEF TInv
  <1>3. CASE ~Refuse(w)
    <2>. DEFINE L == {RowShare(t)} \cup RefShares(rows[t].command)
                     \cup {RefShare(x) : x \in ReferencesOf(record.retainedCategoryId,
                                                   record.retainedPaymentSourceId)}
                x == [work[w] EXCEPT !.pc = "commit", !.target = t,
                        !.response = record.response, !.replayed = TRUE]
    <2>1. /\ t # NoTx /\ record.retainedPaymentSourceId # NoSource
          /\ rows[t] # NoRow
          /\ work' = [work EXCEPT ![w] = x]
          /\ held' = [held EXCEPT ![w] = @ \cup L]
          /\ UNCHANGED <<rows, records, archived, now, completions>>
      BY <1>3 DEF Replay, Take
    <2>2. t \in TxIds /\ record.retainedCategoryId \in Categories \cup {NoCategory}
          /\ record.retainedPaymentSourceId \in Sources \cup {NoSource}
          /\ record.response \in Response
      BY <1>1, <2>1 DEF Record, Nullable
    <2>3. RefShares(rows[t].command) \subseteq Locks
      BY <2>1, <2>2, LockTyped DEF TInv, TypeOK, Row, Nullable
    <2>4. {RefShare(r) : r \in ReferencesOf(record.retainedCategoryId,
                                            record.retainedPaymentSourceId)} \subseteq Locks
      BY <2>1, <2>2, LockTyped
    <2>5. L \in SUBSET Locks
      BY <2>2, <2>3, <2>4, LockTyped
    <2>6. x \in Work
      BY <1>1, <2>2 DEF Work, Steps, Nullable
    <2>7. x.pc = "commit" /\ x.target = t /\ x.replayed = TRUE
      BY <1>1 DEF Work
    <2>. HIDE DEF x, L, t
    <2>8. work'[w] = x => WorkOK(w)'
      BY <2>1, <2>2, <2>7 DEF WorkOK, Keyed, Creating
    <2>. QED  BY <2>1, <2>5, <2>6, <2>8, WorkerMoves
  <1>. QED  BY <1>2, <1>3

(* What a commit writes is what was staged, so it is typed.                *)
LEMMA TInvCommit ==
    ASSUME TInv, NEW w \in Workers, Commit(w)
    PROVE  TInv'
  <1>. DEFINE p == work[w].principal
              r == work[w].request
              t == work[w].target
              keyed == r.key # NoKey /\ ~work[w].replayed
              committed == IF work[w].row = NoRow THEN rows
                           ELSE [rows EXCEPT ![t] = work[w].row]
  <1>1. /\ work[w] \in Work /\ p.integration \in Integrations /\ r \in Requests
        /\ WorkOK(w)
        /\ work[w].pc = "commit"
        /\ t \in TxIds
    <2>1. work[w].pc = "commit" /\ WorkOK(w)
      BY DEF Commit, At, TInv, WorkInv
    <2>. QED  BY <2>1, WorkTyped DEF TInv, WorkOK
  <1>2. keyed => r.key \in Keys /\ work[w].record \in Record
    BY <1>1, RequestFacts DEF WorkOK, Keyed
  <1>3. /\ committed \in [TxIds -> Nullable(Row, NoRow)]
        /\ committed[t] \in Row
        /\ \A s \in TxIds : rows[s] # NoRow => committed[s] # NoRow
    BY <1>1, AbsenceAssumption DEF TInv, TypeOK, Work, WorkOK, Nullable
  <1>4. /\ rows' = committed
        /\ records' = IF keyed
                      THEN [records EXCEPT ![p.integration][r.key] = work[w].record]
                      ELSE records
        /\ work' = [work EXCEPT ![w] = Idle]
        /\ held' = [held EXCEPT ![w] = {}]
        /\ UNCHANGED <<archived, now>>
    BY DEF Commit, EndTransaction
  <1>5. completions' \in SUBSET Completion
    <2>1. CASE ~keyed
      BY <2>1 DEF Commit, TInv, TypeOK
    <2>2. CASE keyed
      <3>. DEFINE c == [integration |-> p.integration, key |-> r.key,
                        requestFingerprint |-> Fingerprint(r),
                        claimedAt |-> work[w].claimedAt,
                        completedAt |-> work[w].record.completedAt,
                        response |-> work[w].response,
                        target |-> t, version |-> committed[t].version]
      <3>1. completions' = completions \cup {c}
        BY <2>2 DEF Commit
      <3>2. committed[t].version \in 1 .. MaxVersion
        BY <1>3 DEF Row
      <3>3. Fingerprint(r) \in Fingerprints
        BY <1>1 DEF Fingerprints
      <3>4. work[w].record.completedAt \in Nat
        BY <1>2, <2>2 DEF Record
      <3>. HIDE DEF committed, t
      <3>5. c \in Completion
        BY <1>1, <1>2, <2>2, <3>2, <3>3, <3>4 DEF Completion, Work
      <3>. QED  BY <3>1, <3>5 DEF TInv, TypeOK
    <2>. QED  BY <2>1, <2>2
  <1>. HIDE DEF committed
  <1>6. records' \in [Integrations -> [Keys -> Nullable(Record, NoRecord)]]
    <2>. HIDE DEF keyed
    <2>. QED  BY <1>1, <1>2, <1>4 DEF TInv, TypeOK, Nullable
  <1>7. TypeOK'
    BY <1>3, <1>4, <1>5, <1>6 DEF TInv, TypeOK
  <1>8. WorkInv'
    <2>. SUFFICES ASSUME NEW v \in Workers PROVE WorkOK(v)'
      BY DEF WorkInv
    <2>1. CASE v = w
      BY <1>4, <2>1, IdleNotWork DEF TInv, TypeOK, WorkOK
    <2>2. CASE v # w
      <3>1. work'[v] = work[v] /\ WorkOK(v)
        BY <1>4, <2>2 DEF TInv, TypeOK, WorkInv
      <3>2. work[v].pc # "idle" => work[v].target \in TxIds \cup {NoTx}
        BY WorkTyped DEF TInv, Work, Nullable
      <3>. QED  BY <1>3, <1>4, <3>1, <3>2 DEF WorkOK, Keyed, Creating
    <2>. QED  BY <2>1, <2>2
  <1>. QED  BY <1>7, <1>8 DEF TInv

(***************************************************************************)
(* Everything that is not a machine request.                               *)
(***************************************************************************)
LEMMA TInvEnvironment ==
    ASSUME TInv, Environment
    PROVE  TInv'
  <1>1. MaxVersion \in Nat \ {0} /\ MaxNow \in Nat
    BY ConstantsAssumption
  <1>. DEFINE Grown == \A t \in TxIds : rows[t] # NoRow => rows'[t] # NoRow
  <1>2. ASSUME NEW t \in TxIds, NEW c \in Commands, MemberEdit(t, c)
        PROVE  TypeOK' /\ Grown
    <2>1. /\ rows[t] \in Row /\ rows[t].version < MaxVersion
          /\ rows' = [rows EXCEPT ![t] = UpdatedRow(rows[t], c)]
          /\ UNCHANGED <<records, archived, now, work, held, completions>>
      BY <1>2 DEF MemberEdit, TInv, TypeOK, Nullable
    <2>2. UpdatedRow(rows[t], c) \in Row
      BY <2>1, NextVersionTyped
    <2>. QED  BY <2>1, <2>2, AbsenceAssumption DEF TInv, TypeOK, Nullable
  <1>3. ASSUME NEW t \in TxIds, MemberDelete(t)
        PROVE  TypeOK' /\ Grown
    <2>1. /\ rows[t] \in Row /\ rows[t].version < MaxVersion
          /\ rows' = [rows EXCEPT ![t] = DeletedRow(rows[t])]
          /\ UNCHANGED <<records, archived, now, work, held, completions>>
      BY <1>3 DEF MemberDelete, TInv, TypeOK, Nullable
    <2>2. DeletedRow(rows[t]) \in Row
      BY <2>1, NextVersionTyped
    <2>. QED  BY <2>1, <2>2, AbsenceAssumption DEF TInv, TypeOK, Nullable
  <1>4. ASSUME NEW x \in Categories \cup Sources, ArchiveReference(x)
        PROVE  TypeOK' /\ Grown
    BY <1>4 DEF ArchiveReference, TInv, TypeOK
  <1>5. ASSUME NEW c \in Categories, RestoreCategory(c)
        PROVE  TypeOK' /\ Grown
    BY <1>5 DEF RestoreCategory, TInv, TypeOK
  <1>6. ASSUME NEW t \in TxIds, NEW i \in Integrations, NEW e \in ExtIds,
               NEW c \in Commands, InsertOutside(t, i, e, c)
        PROVE  TypeOK' /\ Grown
    <2>. DEFINE row == [owner |-> i, externalId |-> e, command |-> c,
                        version |-> 1, deleted |-> FALSE]
    <2>1. row \in Row
      BY <1>1 DEF Row, Nullable
    <2>2. /\ rows' = [rows EXCEPT ![t] = row]
          /\ UNCHANGED <<records, archived, now, work, held, completions>>
      BY <1>6 DEF InsertOutside
    <2>. HIDE DEF row
    <2>. QED  BY <2>1, <2>2, AbsenceAssumption DEF TInv, TypeOK, Nullable
  <1>7. ASSUME CleanupExpiredIdempotency
        PROVE  TypeOK' /\ Grown
    BY <1>7 DEF CleanupExpiredIdempotency, TInv, TypeOK, Nullable
  <1>8. ASSUME Tick
        PROVE  TypeOK' /\ Grown
    BY <1>1, <1>8 DEF Tick, TInv, TypeOK
  <1>9. work' = work
    BY DEF Environment, MemberEdit, MemberDelete, ArchiveReference, RestoreCategory,
           InsertOutside, CleanupExpiredIdempotency, Tick
  <1>10. TypeOK' /\ Grown
    BY <1>2, <1>3, <1>4, <1>5, <1>6, <1>7, <1>8 DEF Environment
  <1>. QED  BY <1>9, <1>10, RowsGrowKeeps DEF TInv

(* The type invariant is inductive.                                        *)
LEMMA TInvNext == TInv /\ [Next]_vars => TInv'
  <1>. SUFFICES ASSUME TInv, [Next]_vars PROVE TInv'
    OBVIOUS
  <1>1. CASE \E w \in Workers, p \in Principals, r \in ClientRequests : Begin(w, p, r)
    BY <1>1, TInvBegin
  <1>2. ASSUME NEW w \in Workers, Step(w) PROVE TInv'
    BY <1>2, TInvClaim, TInvLook, TInvWrite, TInvReplay, TInvCommit DEF Step
  <1>3. ASSUME NEW w \in Workers, Abort(w) PROVE TInv'
    BY <1>3, RefuseKeeps DEF Abort, TInv
  <1>4. CASE Environment
    BY <1>4, TInvEnvironment
  <1>5. CASE UNCHANGED vars
    BY <1>5 DEF vars, TInv, TypeOK, WorkInv, WorkOK, Keyed, Creating
  <1>. QED  BY <1>1, <1>2, <1>3, <1>4, <1>5 DEF Next

(* Every reachable state satisfies it.                                     *)
LEMMA InvariantTyped == Spec => []TInv
  BY TInvInit, TInvNext, PTL DEF Spec

(* Every variable keeps its type: the version column never leaves its      *)
(* range, no record, lock or staged row is malformed, for every instance.  *)
THEOREM TypeCorrect == Spec => []TypeOK
  <1>1. TInv => TypeOK
    BY DEF TInv
  <1>. QED  BY <1>1, InvariantTyped, PTL

(***************************************************************************)
(* Locks.  What a step takes is compatible with what the others hold.      *)
(***************************************************************************)
Compatible(w, L) ==
    /\ \A i \in Integrations, k \in Keys :
         KeyLock(i, k) \in L => FreeFor(w, KeyLock(i, k))
    /\ \A i \in Integrations, e \in ExtIds :
         ExternalLock(i, e) \in L => FreeFor(w, ExternalLock(i, e))
    /\ \A t \in TxIds :
         /\ RowLock(t) \in L => RowFreeFor(w, t)
         /\ RowShare(t) \in L => FreeFor(w, RowLock(t))

(* Locks taken compatibly leave exclusion intact.                          *)
LEMMA TakeCompatible ==
    ASSUME TypeOK, LocksExclusive, NEW w \in Workers, NEW L, Compatible(w, L),
           Take(w, L)
    PROVE  LocksExclusive'
  <1>1. \A v \in Workers : held'[v] = IF v = w THEN held[v] \cup L ELSE held[v]
    BY DEF Take, TypeOK
  <1>. SUFFICES ASSUME NEW u \in Workers, NEW v \in Workers, u # v
                PROVE  /\ \A i \in Integrations, k \in Keys :
                            ~(KeyLock(i, k) \in held'[u] /\ KeyLock(i, k) \in held'[v])
                       /\ \A i \in Integrations, e \in ExtIds :
                            ~(ExternalLock(i, e) \in held'[u]
                              /\ ExternalLock(i, e) \in held'[v])
                       /\ \A t \in TxIds :
                            RowLock(t) \in held'[u] =>
                               RowLock(t) \notin held'[v] /\ RowShare(t) \notin held'[v]
    BY DEF LocksExclusive, KeyLock, ExternalLock, RowLock, RowShare
  <1>2. \A l \in L : FreeFor(w, l) => \A x \in Workers \ {w} : l \notin held[x]
    BY DEF FreeFor
  <1>3. \A i \in Integrations, k \in Keys :
          ~(KeyLock(i, k) \in held'[u] /\ KeyLock(i, k) \in held'[v])
    BY <1>1, <1>2 DEF LocksExclusive, Compatible
  <1>4. \A i \in Integrations, e \in ExtIds :
          ~(ExternalLock(i, e) \in held'[u] /\ ExternalLock(i, e) \in held'[v])
    BY <1>1, <1>2 DEF LocksExclusive, Compatible
  <1>5. \A t \in TxIds :
          RowLock(t) \in held'[u] =>
             RowLock(t) \notin held'[v] /\ RowShare(t) \notin held'[v]
    BY <1>1 DEF LocksExclusive, Compatible, RowFreeFor, FreeFor
  <1>. QED  BY <1>3, <1>4, <1>5

(* Share locks on categories and sources exclude nobody in this sense.     *)
LEMMA ReferenceSharesHarmless ==
    /\ \A X, i, k : KeyLock(i, k) \notin {RefShare(x) : x \in X}
    /\ \A X, i, e : ExternalLock(i, e) \notin {RefShare(x) : x \in X}
    /\ \A X, t : RowLock(t) \notin {RefShare(x) : x \in X}
    /\ \A X, t : RowShare(t) \notin {RefShare(x) : x \in X}
  BY DEF KeyLock, ExternalLock, RowLock, RowShare, RefShare

(* Locks of different kinds, or of different rows, are different.          *)
LEMMA LockNames ==
    /\ \A i, k, j, e : KeyLock(i, k) # ExternalLock(j, e)
    /\ \A i, k, t : KeyLock(i, k) # RowLock(t) /\ KeyLock(i, k) # RowShare(t)
    /\ \A i, e, t : ExternalLock(i, e) # RowLock(t) /\ ExternalLock(i, e) # RowShare(t)
    /\ \A s, t : RowLock(s) # RowShare(t)
    /\ \A s, t : RowLock(s) = RowLock(t) => s = t
    /\ \A s, t : RowShare(s) = RowShare(t) => s = t
  BY DEF KeyLock, ExternalLock, RowLock, RowShare

(* Giving up locks disturbs nothing.                                       *)
LEMMA ReleaseKeeps ==
    ASSUME TypeOK, LocksExclusive, NEW w \in Workers,
           held' = [held EXCEPT ![w] = {}]
    PROVE  LocksExclusive'
  <1>1. \A v \in Workers : held'[v] \subseteq held[v]
    BY DEF TypeOK
  <1>. QED  BY <1>1 DEF LocksExclusive

(* Neither does a step that leaves the locks alone.                        *)
LEMMA HeldKeeps ==
    ASSUME LocksExclusive, held' = held
    PROVE  LocksExclusive'
  <1>1. \A v \in Workers : held'[v] = held[v]
    OBVIOUS
  <1>. QED  BY <1>1 DEF LocksExclusive

(* A step of a worker takes only locks that are free for it.               *)
LEMMA LocksStep ==
    ASSUME TypeOK, LocksExclusive, NEW w \in Workers, Step(w)
    PROVE  LocksExclusive'
  <1>1. CASE held' = held
    BY <1>1, HeldKeeps
  <1>2. CASE held' = [held EXCEPT ![w] = {}]
    BY <1>2, ReleaseKeeps
  <1>3. CASE \E L : Take(w, L) /\ Compatible(w, L)
    BY <1>3, TakeCompatible
  <1>4. CASE ClaimKey(w) \/ ClaimReplay(w)
    <2>. DEFINE i == work[w].principal.integration
                k == work[w].request.key
    <2>1. FreeFor(w, KeyLock(i, k)) /\ Take(w, {KeyLock(i, k)})
      BY <1>4 DEF ClaimKey, ClaimReplay, LockKey
    <2>. HIDE DEF i, k
    <2>2. Compatible(w, {KeyLock(i, k)})
      BY <2>1, LockNames DEF Compatible
    <2>. QED  BY <1>3, <2>1, <2>2
  <1>5. CASE CheckReferences(w)
    <2>1. \A c : Compatible(w, RefShares(c))
      BY ReferenceSharesHarmless DEF Compatible, RefShares
    <2>. QED  BY <1>2, <1>3, <1>5, <2>1 DEF CheckReferences, Refuse, EndTransaction
  <1>6. CASE LockExternal(w)
    <2>. DEFINE i == work[w].principal.integration
                e == work[w].request.externalId
    <2>1. FreeFor(w, ExternalLock(i, e)) /\ Take(w, {ExternalLock(i, e)})
      BY <1>6 DEF LockExternal
    <2>. HIDE DEF i, e
    <2>2. Compatible(w, {ExternalLock(i, e)})
      BY <2>1, LockNames DEF Compatible
    <2>. QED  BY <1>3, <2>1, <2>2
  <1>7. CASE FindExisting(w) \/ FindTarget(w)
    <2>1. CASE Refuse(w)
      BY <1>2, <2>1 DEF Refuse, EndTransaction
    <2>2. CASE ~Refuse(w)
      <3>1. PICK t, X :
              /\ t \in TxIds
              /\ RowFreeFor(w, t)
              /\ Take(w, {RowLock(t)} \cup {RefShare(x) : x \in X})
        <4>1. CASE FindExisting(w)
          BY <2>2, <4>1 DEF FindExisting, Owned, RefShares
        <4>2. CASE FindTarget(w)
          <5>1. PICK t \in TxIds :
                  /\ RowFreeFor(w, t)
                  /\ Take(w, {RowLock(t)} \cup RefShares(rows[t].command)
                            \cup IF work[w].request.operation = "update"
                                 THEN RefShares(work[w].request.command) ELSE {})
            BY <2>2, <4>2 DEF FindTarget, OwnedActive, Owned
          <5>. DEFINE Refs(c) == ReferencesOf(c.categoryId, c.paymentSourceId)
                      X == Refs(rows[t].command)
                           \cup IF work[w].request.operation = "update"
                                THEN Refs(work[w].request.command) ELSE {}
          <5>2. {RowLock(t)} \cup RefShares(rows[t].command)
                \cup (IF work[w].request.operation = "update"
                      THEN RefShares(work[w].request.command) ELSE {})
                = {RowLock(t)} \cup {RefShare(x) : x \in X}
            BY DEF RefShares
          <5>. QED  BY <5>1, <5>2
        <4>. QED  BY <1>7, <4>1, <4>2
      <3>2. Compatible(w, {RowLock(t)} \cup {RefShare(x) : x \in X})
        BY <3>1, LockNames, ReferenceSharesHarmless DEF Compatible
      <3>. QED  BY <1>3, <3>1, <3>2
    <2>. QED  BY <2>1, <2>2
  <1>8. CASE Replay(w)
    <2>1. CASE Refuse(w)
      BY <1>2, <2>1 DEF Refuse, EndTransaction
    <2>2. CASE ~Refuse(w)
      <3>1. PICK t, X, Y :
              /\ FreeFor(w, RowLock(t))
              /\ Take(w, {RowShare(t)} \cup {RefShare(x) : x \in X}
                                       \cup {RefShare(x) : x \in Y})
        BY <1>8, <2>2 DEF Replay, RefShares
      <3>2. Compatible(w, {RowShare(t)} \cup {RefShare(x) : x \in X}
                                        \cup {RefShare(x) : x \in Y})
        BY <3>1, LockNames, ReferenceSharesHarmless DEF Compatible
      <3>. QED  BY <1>3, <3>1, <3>2
    <2>. QED  BY <2>1, <2>2
  <1>9. CASE ClaimConflict(w) \/ ClaimInProgress(w) \/ FindNothing(w)
    BY <1>1, <1>2, <1>9 DEF ClaimConflict, ClaimInProgress, FindNothing, Refuse,
                            EndTransaction
  <1>10. CASE WriteCreated(w) \/ WriteDuplicate(w)
              \/ WriteAcknowledged(w) \/ WriteUpdated(w) \/ WriteDeleted(w)
    BY <1>1, <1>2, <1>10 DEF WriteCreated, WriteDuplicate,
       WriteAcknowledged, WriteUpdated, WriteDeleted, Stage, Refuse, EndTransaction
  <1>11. CASE Commit(w)
    BY <1>2, <1>11 DEF Commit, EndTransaction
  <1>. QED  BY <1>4, <1>5, <1>6, <1>7, <1>8, <1>9, <1>10, <1>11 DEF Step

(* No two workers ever hold the same advisory lock or write-lock the same  *)
(* row, and no row locked FOR UPDATE is share-locked by another worker.    *)
THEOREM LocksAreExclusive == Spec => []LocksExclusive
  <1>1. Init => LocksExclusive
    BY DEF Init, LocksExclusive
  <1>2. TypeOK /\ LocksExclusive /\ [Next]_vars => LocksExclusive'
    <2>. SUFFICES ASSUME TypeOK, LocksExclusive, [Next]_vars PROVE LocksExclusive'
      OBVIOUS
    <2>1. ASSUME NEW w \in Workers, NEW p \in Principals, NEW r \in ClientRequests,
                 Begin(w, p, r)
          PROVE  LocksExclusive'
      BY <2>1, HeldKeeps DEF Begin
    <2>2. ASSUME NEW w \in Workers, Step(w) \/ Abort(w)
          PROVE  LocksExclusive'
      BY <2>2, LocksStep, ReleaseKeeps DEF Abort, Refuse, EndTransaction
    <2>3. CASE Environment
      BY <2>3, HeldKeeps DEF Environment, MemberEdit, MemberDelete, ArchiveReference,
         RestoreCategory, InsertOutside, CleanupExpiredIdempotency, Tick
    <2>4. CASE UNCHANGED vars
      BY <2>4, HeldKeeps DEF vars
    <2>. QED  BY <2>1, <2>2, <2>3, <2>4 DEF Next
  <1>. QED  BY <1>1, <1>2, TypeCorrect, PTL DEF Spec

(***************************************************************************)
(* Exactly once per key.  The property is not inductive: a commit could    *)
(* break it if the worker had not claimed its key after every earlier      *)
(* result of that key had expired.  What carries it is (1) a worker past   *)
(* its claim holds the key's lock, (2) it claimed when nothing retained    *)
(* was left, and nothing has been completed under the key since, and (3)   *)
(* a result younger than the retention period is still in "records".       *)
(***************************************************************************)
Mine(c, w) ==
    /\ c.integration = work[w].principal.integration
    /\ c.key = work[w].request.key

PastClaim(w) ==
    /\ Keyed(w)
    /\ work[w].pc \in {"references", "lock", "find", "write", "replay", "commit"}

Claimant(w) ==
    /\ PastClaim(w)
    /\ work[w].pc # "replay"
    /\ work[w].pc = "commit" => ~work[w].replayed

KeyOK(w) ==
    /\ PastClaim(w) =>
         KeyLock(work[w].principal.integration, work[w].request.key) \in held[w]
    /\ Claimant(w) =>
         /\ work[w].claimedAt <= now
         /\ \A c \in completions :
              Mine(c, w) => c.completedAt + Retention <= work[w].claimedAt
    /\ Claimant(w) /\ work[w].pc = "commit" =>
         /\ work[w].record.status = "completed"
         /\ work[w].record.completedAt <= now
         /\ work[w].record.expiresAt = work[w].record.completedAt + Retention

Retained(c) ==
    \/ c.completedAt + Retention <= now
    \/ LET record == records[c.integration][c.key] IN
       /\ record # NoRecord
       /\ record.status = "completed"
       /\ record.completedAt = c.completedAt
       /\ record.expiresAt = c.completedAt + Retention

ClaimsOK == \A w \in Workers : KeyOK(w)
ResultsRetained == \A c \in completions : Retained(c)

KInv == ClaimsOK /\ ResultsRetained /\ ExactlyOncePerKey

(* A step of one worker that leaves the records and the clock alone.       *)
LEMMA KeyWorkerMoves ==
    ASSUME TInv, KInv, NEW w \in Workers, NEW x, work' = [work EXCEPT ![w] = x],
           \A v \in Workers \ {w} : held'[v] = held[v],
           UNCHANGED <<records, now, completions>>, KeyOK(w)'
    PROVE  KInv'
  <1>1. ASSUME NEW v \in Workers PROVE KeyOK(v)'
    <2>1. CASE v = w
      BY <2>1
    <2>2. CASE v # w
      <3>1. work'[v] = work[v] /\ held'[v] = held[v] /\ now' = now
            /\ completions' = completions /\ KeyOK(v)
        BY <2>2 DEF TInv, TypeOK, KInv, ClaimsOK
      <3>. QED  BY <3>1 DEF KeyOK, PastClaim, Claimant, Mine, Keyed, KeyLock
    <2>. QED  BY <2>1, <2>2
  <1>2. ResultsRetained'
    BY DEF KInv, ResultsRetained, Retained
  <1>3. ExactlyOncePerKey'
    BY DEF KInv, ExactlyOncePerKey
  <1>. QED  BY <1>1, <1>2, <1>3 DEF KInv, ClaimsOK

(* The steps between the claim and the commit keep the claim.              *)
LEMMA Advance ==
    ASSUME TInv, NEW w \in Workers, ~Refuse(w),
           \/ CheckReferences(w) \/ LockExternal(w)
           \/ FindExisting(w) \/ FindNothing(w) \/ FindTarget(w)
           \/ WriteCreated(w) \/ WriteAcknowledged(w)
           \/ WriteUpdated(w) \/ WriteDeleted(w)
    PROVE  /\ \E x : work' = [work EXCEPT ![w] = x]
           /\ work[w].pc \in {"references", "lock", "find", "write"}
           /\ work'[w].pc \in {"lock", "find", "write", "commit"}
           /\ work'[w].principal = work[w].principal
           /\ work'[w].request = work[w].request
           /\ work'[w].claimedAt = work[w].claimedAt
           /\ work'[w].pc = "commit" /\ Keyed(w) =>
                /\ work'[w].record.status = "completed"
                /\ work'[w].record.completedAt = now
                /\ work'[w].record.expiresAt = now + Retention
           /\ \A v \in Workers \ {w} : held'[v] = held[v]
           /\ held[w] \subseteq held'[w]
           /\ UNCHANGED <<records, now, completions>>
  <1>1. work[w].pc \in {"references", "lock", "find", "write"}
    BY DEF CheckReferences, LockExternal, FindExisting, FindNothing, FindTarget,
           WriteCreated, WriteAcknowledged, WriteUpdated, WriteDeleted, At
  <1>2. work[w] \in Work
    BY <1>1, WorkTyped DEF TInv
  <1>3. UNCHANGED <<records, now, completions>>
    BY DEF CheckReferences, LockExternal, FindExisting, FindNothing, FindTarget,
           WriteCreated, WriteAcknowledged, WriteUpdated, WriteDeleted, Stage
  <1>4. held' = held \/ \E L : Take(w, L)
    BY DEF CheckReferences, LockExternal, FindExisting, FindNothing, FindTarget,
           WriteCreated, WriteAcknowledged, WriteUpdated, WriteDeleted, Stage
  <1>5. /\ \A v \in Workers \ {w} : held'[v] = held[v]
        /\ held[w] \subseteq held'[w]
    BY <1>4 DEF Take, TInv, TypeOK
  <1>6. \/ \E s \in {"lock", "find", "write"} : work' = [work EXCEPT ![w].pc = s]
        \/ \E t : work' = [work EXCEPT ![w].pc = "write", ![w].target = t]
        \/ \E t, row, command, response : Stage(w, t, row, command, response)
    BY DEF CheckReferences, LockExternal, FindExisting, FindNothing, FindTarget, Go,
           WriteCreated, WriteAcknowledged, WriteUpdated, WriteDeleted
  <1>7. CASE \E s \in {"lock", "find", "write"} : work' = [work EXCEPT ![w].pc = s]
    <2>1. PICK s \in {"lock", "find", "write"} : work' = [work EXCEPT ![w].pc = s]
      BY <1>7
    <2>2. work'[w] = [work[w] EXCEPT !.pc = s] /\ \E x : work' = [work EXCEPT ![w] = x]
      BY <2>1 DEF TInv, TypeOK
    <2>. QED  BY <1>1, <1>2, <1>3, <1>5, <2>2 DEF Work
  <1>8. CASE \E t : work' = [work EXCEPT ![w].pc = "write", ![w].target = t]
    <2>1. PICK t : work' = [work EXCEPT ![w].pc = "write", ![w].target = t]
      BY <1>8
    <2>2. work'[w] = [work[w] EXCEPT !.pc = "write", !.target = t]
          /\ \E x : work' = [work EXCEPT ![w] = x]
      BY <2>1 DEF TInv, TypeOK
    <2>. QED  BY <1>1, <1>2, <1>3, <1>5, <2>2 DEF Work
  <1>9. CASE \E t, row, command, response : Stage(w, t, row, command, response)
    <2>1. PICK t, row, command, response : Stage(w, t, row, command, response)
      BY <1>9
    <2>. DEFINE record == Completed(w, t, command, response)
    <2>2. Keyed(w) => record.status = "completed" /\ record.completedAt = now
                      /\ record.expiresAt = now + Retention
      BY ConstantsAssumption DEF Completed, Keyed
    <2>. HIDE DEF record
    <2>3. /\ work'[w] = [work[w] EXCEPT !.pc = "commit", !.target = t, !.row = row,
                            !.record = record, !.response = response]
          /\ \E x : work' = [work EXCEPT ![w] = x]
      BY <2>1 DEF Stage, TInv, TypeOK, record
    <2>. QED  BY <1>1, <1>2, <1>3, <1>5, <2>2, <2>3 DEF Work
  <1>. QED  BY <1>6, <1>7, <1>8, <1>9

(* Going idle, or back to the claim, promises nothing about the key.       *)
LEMMA KeyGivenUp ==
    ASSUME TInv, KInv, NEW w \in Workers, NEW x, work' = [work EXCEPT ![w] = x],
           work'[w].pc \in {"idle", "claim"} \/ ~Keyed(w)',
           \A v \in Workers \ {w} : held'[v] = held[v],
           UNCHANGED <<records, now, completions>>
    PROVE  KInv'
  <1>1. KeyOK(w)'
    BY DEF KeyOK, Claimant, PastClaim
  <1>. QED  BY <1>1, KeyWorkerMoves

(* A refusal or a rollback spends no key.                                  *)
LEMMA KeyRefuse ==
    ASSUME TInv, KInv, NEW w \in Workers, Refuse(w)
    PROVE  KInv'
  <1>1. /\ work' = [work EXCEPT ![w] = Idle]
        /\ work'[w].pc = "idle"
        /\ \A v \in Workers \ {w} : held'[v] = held[v]
        /\ UNCHANGED <<records, now, completions>>
    BY IdleNotWork DEF Refuse, EndTransaction, TInv, TypeOK
  <1>. QED  BY <1>1, KeyGivenUp

(* A claim finds the key undecided, or a result to replay.                 *)
LEMMA KeyClaim ==
    ASSUME TInv, KInv, NEW w \in Workers, ClaimKey(w) \/ ClaimReplay(w)
    PROVE  KInv'
  <1>. DEFINE i == work[w].principal.integration
              k == work[w].request.key
  <1>1. work[w] \in Work /\ i \in Integrations /\ k \in Keys /\ now \in Nat
    <2>1. work[w].pc = "claim" /\ WorkOK(w) /\ now \in Nat
      BY ConstantsAssumption
      DEF ClaimKey, ClaimReplay, LockKey, At, TInv, TypeOK, WorkInv
    <2>. QED  BY <2>1, WorkTyped DEF TInv, WorkOK, Keyed
  <1>2. /\ held' = [held EXCEPT ![w] = @ \cup {KeyLock(i, k)}]
        /\ UNCHANGED <<records, now, completions>>
        /\ \A v \in Workers \ {w} : held'[v] = held[v]
        /\ KeyLock(i, k) \in held'[w]
    BY DEF ClaimKey, ClaimReplay, Take, TInv, TypeOK
  <1>3. CASE ClaimReplay(w)
    <2>1. /\ work'[w] = [work[w] EXCEPT !.pc = "replay", !.record = Rec(w)]
          /\ \E x : work' = [work EXCEPT ![w] = x]
      BY <1>3 DEF ClaimReplay, TInv, TypeOK
    <2>2. work'[w].pc = "replay" /\ work'[w].principal = work[w].principal
          /\ work'[w].request = work[w].request
      BY <1>1, <2>1 DEF Work
    <2>3. KeyOK(w)'
      BY <1>2, <2>2 DEF KeyOK, PastClaim, Claimant, KeyLock
    <2>. QED  BY <1>2, <2>1, <2>3, KeyWorkerMoves
  <1>4. CASE ClaimKey(w)
    <2>1. PICK s \in {"references", "find"} :
            /\ work'[w] = [work[w] EXCEPT !.pc = s, !.claimedAt = now]
            /\ \E x : work' = [work EXCEPT ![w] = x]
      BY <1>4 DEF ClaimKey, AfterClaim, TInv, TypeOK
    <2>2. work'[w].pc = s /\ work'[w].principal = work[w].principal
          /\ work'[w].request = work[w].request /\ work'[w].claimedAt = now
      BY <1>1, <2>1 DEF Work
    <2>3. ASSUME NEW c \in completions, Mine(c, w)
          PROVE  c.completedAt + Retention <= now
      <3>1. Rec(w) = records[c.integration][c.key]
        BY <2>3 DEF Rec, Mine
      <3>2. Claimable(Rec(w), work[w].request, now) /\ Retained(c)
        BY <1>4 DEF ClaimKey, KInv, ResultsRetained
      <3>3. c.completedAt \in Nat /\ Retention \in Nat
        BY ConstantsAssumption DEF TInv, TypeOK, Completion
      <3>. QED  BY <1>1, <3>1, <3>2, <3>3
                DEF Claimable, Decides, LeaseLapsed, Retained
    <2>4. KeyOK(w)'
      BY <1>1, <1>2, <2>2, <2>3 DEF KeyOK, PastClaim, Claimant, KeyLock, Mine
    <2>. QED  BY <1>2, <2>1, <2>4, KeyWorkerMoves
  <1>. QED  BY <1>3, <1>4

(* The steps from the claim to the commit keep the key invariant.          *)
LEMMA KeyAdvance ==
    ASSUME TInv, KInv, NEW w \in Workers, ~Refuse(w),
           \/ CheckReferences(w) \/ LockExternal(w)
           \/ FindExisting(w) \/ FindNothing(w) \/ FindTarget(w)
           \/ WriteCreated(w) \/ WriteAcknowledged(w)
           \/ WriteUpdated(w) \/ WriteDeleted(w)
    PROVE  KInv'
  <1>1. KeyOK(w) /\ now \in Nat
    BY ConstantsAssumption DEF KInv, ClaimsOK, TInv, TypeOK
  <1>2. Keyed(w)' <=> Keyed(w)
    BY Advance DEF Keyed
  <1>3. PastClaim(w)' => PastClaim(w) /\ Claimant(w)
    BY <1>2, Advance DEF PastClaim, Claimant
  <1>4. KeyOK(w)'
    BY <1>1, <1>2, <1>3, Advance DEF KeyOK, PastClaim, Claimant, Mine, KeyLock
  <1>. QED  BY <1>4, Advance, KeyWorkerMoves

(* A replay stages no new result.                                          *)
LEMMA KeyReplay ==
    ASSUME TInv, KInv, NEW w \in Workers, Replay(w), ~Refuse(w)
    PROVE  KInv'
  <1>1. work[w] \in Work /\ work[w].pc = "replay" /\ KeyOK(w)
    BY WorkTyped DEF Replay, At, KInv, ClaimsOK, TInv
  <1>2. /\ work' = [work EXCEPT ![w].pc = "commit",
                      ![w].target = work[w].record.targetTransactionId,
                      ![w].response = work[w].record.response, ![w].replayed = TRUE]
        /\ \E L : Take(w, L)
        /\ UNCHANGED <<records, now, completions>>
    BY DEF Replay
  <1>3. /\ work'[w] = [work[w] EXCEPT !.pc = "commit",
                         !.target = work[w].record.targetTransactionId,
                         !.response = work[w].record.response, !.replayed = TRUE]
        /\ \E x : work' = [work EXCEPT ![w] = x]
        /\ \A v \in Workers \ {w} : held'[v] = held[v]
        /\ held[w] \subseteq held'[w]
    BY <1>2 DEF Take, TInv, TypeOK
  <1>4. work'[w].principal = work[w].principal /\ work'[w].request = work[w].request
        /\ work'[w].pc = "commit" /\ work'[w].replayed
    BY <1>1, <1>3 DEF Work
  <1>5. KeyOK(w)'
    BY <1>1, <1>3, <1>4 DEF KeyOK, PastClaim, Claimant, Keyed, KeyLock
  <1>. QED  BY <1>2, <1>3, <1>5, KeyWorkerMoves

(* The retry after P2002 starts over without a claim.                      *)
LEMMA KeyDuplicate ==
    ASSUME TInv, KInv, NEW w \in Workers, WriteDuplicate(w), ~Refuse(w)
    PROVE  KInv'
  <1>1. work[w] \in Work /\ work[w].request \in Requests
    BY WorkTyped DEF WriteDuplicate, At, TInv
  <1>2. /\ work'[w] = [work[w] EXCEPT !.pc = FirstStep(work[w].request), !.retried = TRUE]
        /\ \E x : work' = [work EXCEPT ![w] = x]
        /\ \A v \in Workers \ {w} : held'[v] = held[v]
        /\ UNCHANGED <<records, now, completions>>
    BY DEF WriteDuplicate, TInv, TypeOK
  <1>3. work'[w].pc = FirstStep(work[w].request) /\ work'[w].request = work[w].request
    BY <1>1, <1>2 DEF Work
  <1>4. work'[w].pc \in {"idle", "claim"} \/ ~Keyed(w)'
    BY <1>3, ConstantsAssumption DEF FirstStep, Keyed
  <1>. QED  BY <1>2, <1>4, KeyGivenUp

(* A request that begins has claimed nothing.                              *)
LEMMA KeyBegin ==
    ASSUME TInv, KInv, NEW w \in Workers, NEW p \in Principals,
           NEW r \in ClientRequests, Begin(w, p, r)
    PROVE  KInv'
  <1>1. /\ \E x : work' = [work EXCEPT ![w] = x]
        /\ work'[w].pc = FirstStep(r)
        /\ work'[w].request = r
        /\ \A v \in Workers \ {w} : held'[v] = held[v]
        /\ UNCHANGED <<records, now, completions>>
    BY DEF Begin, TInv, TypeOK
  <1>2. work'[w].pc \in {"idle", "claim"} \/ ~Keyed(w)'
    BY <1>1, ConstantsAssumption DEF FirstStep, Keyed
  <1>. QED  BY <1>1, <1>2, KeyGivenUp

(* The commit: nobody else is past a claim of this key, and every earlier  *)
(* result of the key had expired when this worker claimed it.              *)
LEMMA KeyCommit ==
    ASSUME TInv, KInv, LocksExclusive, NEW w \in Workers, Commit(w)
    PROVE  KInv'
  <1>. DEFINE i == work[w].principal.integration
              k == work[w].request.key
              keyed == k # NoKey /\ ~work[w].replayed
  <1>1. /\ work[w] \in Work /\ i \in Integrations /\ work[w].request \in Requests
        /\ work[w].pc = "commit" /\ KeyOK(w) /\ WorkOK(w)
    <2>1. work[w].pc = "commit" /\ KeyOK(w) /\ WorkOK(w)
      BY DEF Commit, At, KInv, ClaimsOK, TInv, WorkInv
    <2>. QED  BY <2>1, WorkTyped DEF TInv
  <1>2. /\ \E x : work' = [work EXCEPT ![w] = x]
        /\ work'[w].pc = "idle"
        /\ \A v \in Workers \ {w} : held'[v] = held[v] /\ work'[v] = work[v]
        /\ now' = now
    BY IdleNotWork DEF Commit, EndTransaction, TInv, TypeOK
  <1>3. CASE ~keyed
    <2>1. UNCHANGED <<records, completions>>
      BY <1>3 DEF Commit
    <2>. QED  BY <1>2, <2>1, KeyGivenUp
  <1>4. CASE keyed
    <2>1. k \in Keys /\ Keyed(w) /\ Claimant(w) /\ work[w].record \in Record
      BY <1>1, <1>4, RequestFacts DEF Keyed, Claimant, PastClaim, WorkOK
    <2>2. PICK new :
            /\ completions' = completions \cup {new}
            /\ new.integration = i /\ new.key = k
            /\ new.claimedAt = work[w].claimedAt
            /\ new.completedAt = work[w].record.completedAt
      <3>. DEFINE version(rs) == rs[work[w].target].version
                  c(rs) == [integration |-> i, key |-> k,
                            requestFingerprint |-> Fingerprint(work[w].request),
                            claimedAt |-> work[w].claimedAt,
                            completedAt |-> work[w].record.completedAt,
                            response |-> work[w].response,
                            target |-> work[w].target, version |-> version(rs)]
      <3>1. completions' = completions \cup {c(rows')}
        BY <1>4 DEF Commit
      <3>2. /\ c(rows').integration = i /\ c(rows').key = k
            /\ c(rows').claimedAt = work[w].claimedAt
            /\ c(rows').completedAt = work[w].record.completedAt
        OBVIOUS
      <3>. HIDE DEF c
      <3>. QED  BY <3>1, <3>2
    <2>3. records' = [records EXCEPT ![i][k] = work[w].record]
      BY <1>4 DEF Commit
    <2>4. /\ records'[i][k] = work[w].record
          /\ \A j \in Integrations, l \in Keys :
               <<j, l>> # <<i, k>> => records'[j][l] = records[j][l]
      BY <1>1, <2>1, <2>3 DEF TInv, TypeOK
    <2>5. /\ work[w].claimedAt \in Nat /\ now \in Nat /\ Retention \in Nat
          /\ \A c \in completions : /\ c.completedAt \in Nat
                                    /\ c.integration \in Integrations
                                    /\ c.key \in Keys
      BY <1>1, ConstantsAssumption DEF Work, TInv, TypeOK, Completion
    <2>6. \A c \in completions :
            Mine(c, w) => c.completedAt + Retention <= work[w].claimedAt
      BY <1>1, <2>1 DEF KeyOK
    <2>7. ExactlyOncePerKey'
      <3>. SUFFICES ASSUME NEW c \in completions', NEW d \in completions',
                           c # d, c.integration = d.integration, c.key = d.key
                    PROVE  \/ c.completedAt + Retention <= d.claimedAt
                           \/ d.completedAt + Retention <= c.claimedAt
        BY DEF ExactlyOncePerKey
      <3>1. CASE c \in completions /\ d \in completions
        BY <3>1 DEF KInv, ExactlyOncePerKey
      <3>2. CASE c = new \/ d = new
        BY <2>2, <2>6, <3>2 DEF Mine
      <3>. QED  BY <2>2, <3>1, <3>2
    <2>8. ResultsRetained'
      <3>. SUFFICES ASSUME NEW c \in completions' PROVE Retained(c)'
        BY DEF ResultsRetained
      <3>1. CASE c = new
        <4>1. /\ work[w].record.status = "completed"
              /\ work[w].record.expiresAt = work[w].record.completedAt + Retention
          BY <1>1, <2>1 DEF KeyOK
        <4>. QED  BY <2>1, <2>2, <2>4, <3>1, <4>1, AbsenceAssumption DEF Retained
      <3>2. CASE c \in completions /\ Mine(c, w)
        <4>1. c.completedAt + Retention <= work[w].claimedAt /\ work[w].claimedAt <= now
          BY <1>1, <2>1, <2>6, <3>2 DEF KeyOK
        <4>. QED  BY <1>2, <2>5, <3>2, <4>1 DEF Retained
      <3>3. CASE c \in completions /\ ~Mine(c, w)
        <4>1. Retained(c) /\ records'[c.integration][c.key] = records[c.integration][c.key]
          BY <2>4, <2>5, <3>3 DEF KInv, ResultsRetained, Mine
        <4>. QED  BY <1>2, <4>1 DEF Retained
      <3>. QED  BY <2>2, <3>1, <3>2, <3>3
    <2>9. ASSUME NEW v \in Workers PROVE KeyOK(v)'
      <3>1. CASE v = w
        BY <1>2, <3>1 DEF KeyOK, Claimant, PastClaim
      <3>2. CASE v # w
        <4>1. KeyOK(v) /\ work'[v] = work[v] /\ held'[v] = held[v]
          BY <1>2, <3>2 DEF KInv, ClaimsOK
        <4>2. Claimant(v) => ~Mine(new, v)
          <5>. SUFFICES ASSUME Claimant(v), Mine(new, v) PROVE FALSE
            OBVIOUS
          <5>1. work[v].principal.integration = i /\ work[v].request.key = k
            BY <2>2 DEF Mine
          <5>2. KeyLock(i, k) \in held[v] /\ KeyLock(i, k) \in held[w]
            BY <1>1, <2>1, <4>1, <5>1 DEF KeyOK, Claimant
          <5>. QED  BY <1>1, <2>1, <3>2, <5>2 DEF LocksExclusive
        <4>. QED  BY <1>2, <2>2, <4>1, <4>2
                  DEF KeyOK, PastClaim, Claimant, Mine, Keyed, KeyLock
      <3>. QED  BY <3>1, <3>2
    <2>. QED  BY <2>7, <2>8, <2>9 DEF KInv, ClaimsOK
  <1>. QED  BY <1>3, <1>4

(* Cleanup removes only results whose retention is over.                   *)
LEMMA KeyEnvironment ==
    ASSUME TInv, KInv, Environment
    PROVE  KInv'
  <1>1. /\ UNCHANGED <<work, held, completions>>
        /\ \/ UNCHANGED <<records, now>>
           \/ CleanupExpiredIdempotency /\ UNCHANGED now
           \/ Tick /\ UNCHANGED records
    BY DEF Environment, MemberEdit, MemberDelete, ArchiveReference, RestoreCategory,
           InsertOutside, CleanupExpiredIdempotency, Tick
  <1>2. /\ now \in Nat /\ now' \in Nat /\ now <= now' /\ Retention \in Nat
        /\ \A c \in completions : /\ c.completedAt \in Nat
                                  /\ c.integration \in Integrations
                                  /\ c.key \in Keys
    BY <1>1, ConstantsAssumption DEF Tick, TInv, TypeOK, Completion
  <1>3. ExactlyOncePerKey'
    BY <1>1 DEF KInv, ExactlyOncePerKey
  <1>4. ASSUME NEW c \in completions PROVE Retained(c)'
    <2>1. Retained(c)
      BY DEF KInv, ResultsRetained
    <2>2. CASE UNCHANGED records
      BY <1>2, <2>1, <2>2 DEF Retained
    <2>3. CASE CleanupExpiredIdempotency /\ UNCHANGED now
      <3>. DEFINE record == records[c.integration][c.key]
      <3>1. records'[c.integration][c.key] =
              IF Expendable(record) THEN NoRecord ELSE record
        BY <1>2, <2>3 DEF CleanupExpiredIdempotency
      <3>2. CASE Expendable(record)
        BY <1>2, <2>1, <2>3, <3>2 DEF Expendable, Retained
      <3>3. CASE ~Expendable(record)
        BY <2>1, <2>3, <3>1, <3>3 DEF Retained
      <3>. QED  BY <3>2, <3>3
    <2>. QED  BY <1>1, <2>2, <2>3
  <1>5. ASSUME NEW w \in Workers PROVE KeyOK(w)'
    <2>1. KeyOK(w) /\ (work[w].pc # "idle" => work[w].claimedAt \in Nat)
      BY WorkTyped DEF KInv, ClaimsOK, TInv, Work
    <2>2. Claimant(w) /\ work[w].pc = "commit" => work[w].record.completedAt \in Nat
      BY DEF Claimant, PastClaim, TInv, WorkInv, WorkOK, Record
    <2>. QED  BY <1>1, <1>2, <2>1, <2>2
              DEF KeyOK, PastClaim, Claimant, Mine, Keyed, KeyLock
  <1>. QED  BY <1>1, <1>3, <1>4, <1>5 DEF KInv, ClaimsOK, ResultsRetained

(* The key invariant holds in every reachable state.                       *)
LEMMA InvariantKeys == Spec => []KInv
  <1>1. Init => KInv
    BY IdleNotWork
    DEF Init, KInv, ClaimsOK, KeyOK, PastClaim, Claimant, ResultsRetained,
        ExactlyOncePerKey
  <1>2. TInv /\ LocksExclusive /\ KInv /\ [Next]_vars => KInv'
    <2>. SUFFICES ASSUME TInv, LocksExclusive, KInv, [Next]_vars PROVE KInv'
      OBVIOUS
    <2>1. ASSUME NEW w \in Workers, NEW p \in Principals, NEW r \in ClientRequests,
                 Begin(w, p, r)
          PROVE  KInv'
      BY <2>1, KeyBegin
    <2>2. ASSUME NEW w \in Workers, Step(w) \/ Abort(w)
          PROVE  KInv'
      <3>1. CASE Refuse(w)
        BY <3>1, KeyRefuse
      <3>2. CASE ~Refuse(w)
        BY <2>2, <3>2, KeyClaim, KeyAdvance, KeyReplay, KeyDuplicate, KeyCommit
        DEF Step, Abort, ClaimConflict, ClaimInProgress
      <3>. QED  BY <3>1, <3>2
    <2>3. CASE Environment
      BY <2>3, KeyEnvironment
    <2>4. CASE UNCHANGED vars
      BY <2>4 DEF vars, KInv, ClaimsOK, KeyOK, PastClaim, Claimant, Mine, Keyed,
                  KeyLock, ResultsRetained, Retained, ExactlyOncePerKey
    <2>. QED  BY <2>1, <2>2, <2>3, <2>4 DEF Next
  <1>. QED  BY <1>1, <1>2, InvariantTyped, LocksAreExclusive, PTL DEF Spec

(* Within the retention of a result its key never yields a second one, for *)
(* every number of workers, keys and requests and every retention period.  *)
THEOREM OncePerKey == Spec => []ExactlyOncePerKey
  <1>1. KInv => ExactlyOncePerKey
    BY DEF KInv
  <1>. QED  BY <1>1, InvariantKeys, PTL
===============================================================================
