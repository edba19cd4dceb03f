------------------------------ MODULE EmailOutbox ------------------------------
(***************************************************************************)
(* EmailOutboxService: messages written by the transactions of the auth    *)
(* service and delivered by every backend instance through a provider that *)
(* answers a repeated Idempotency-Key without mailing again for a while.   *)
(* A job is one deliver() in flight: the row as the claim returned it and  *)
(* how far it got.  Instances crash, requests time out, updates fail.      *)
(***************************************************************************)
EXTENDS Integers, FiniteSets

CONSTANTS
    Messages,
    Instances,     \* backend processes sharing the database
    BatchSize,     \* LIMIT of the claim
    MaxAttempts,   \* MAX_ATTEMPTS
    MaxAge,        \* MAX_AGE_MS, in ticks
    Stale,         \* age at which a claim may be taken over
    BaseDelay, MaxDelay,   \* first and largest retry delay
    Window,        \* how long the provider remembers an Idempotency-Key
    Patience,      \* ticks between a claim and its request, at most
    SettleBy,      \* ticks between a claim and its final update, at most
    LastEnqueue,   \* bound: no message is enqueued later
    MaxNow,        \* bound of the clock
    MaxFaults,     \* bound on crashes, lost answers, refusals, failed updates
    LastFault,     \* bound: they happen until then
    NoTime

(* A claimed row is mailed at once and the request gives up after 10 s; 23 *)
(* hours and that are less than the 24 hours the provider remembers a key. *)
ASSUME OutboxAssumption ==
    /\ {BatchSize, MaxAttempts, MaxAge, Stale, BaseDelay, MaxDelay, Window} \subseteq Nat \ {0}
    /\ {Patience, SettleBy, LastEnqueue, MaxNow, MaxFaults, LastFault} \subseteq Nat
    /\ MaxAge + Patience < Window
    /\ NoTime \notin Int

VARIABLES
    outbox,      \* [Messages -> row], the table email_outbox
    jobs,        \* deliveries in flight
    rememberedAt,\* provider: when it accepted the key last, or NoTime
    mailed,      \* provider: how many mails it sent for the message
    now,
    faults

vars == <<outbox, jobs, rememberedAt, mailed, now, faults>>

Job ==
    [instance : Instances, message : Messages,
     attempts : 0 .. MaxAttempts - 1, createdAt : Nat, readable : BOOLEAN,
     claimedAt : Nat, current : BOOLEAN, step : {"send", "sent", "failed"}]

(* A row has a claim time exactly while it is processing.                  *)
OutboxRow ==
    {row \in [status : {"absent", "pending", "processing", "sent", "failed"},
              attempts : 0 .. MaxAttempts, createdAt : Nat, availableAt : Nat,
              lockedAt : Nat \cup {NoTime}, readable : BOOLEAN] :
       row.status = "processing" <=> row.lockedAt # NoTime}

TypeOK ==
    /\ outbox \in [Messages -> OutboxRow]
    /\ jobs \in SUBSET Job
    /\ rememberedAt \in [Messages -> Nat \cup {NoTime}]
    /\ mailed \in [Messages -> Nat]
    /\ now \in 0 .. MaxNow
    /\ faults \in 0 .. MaxFaults

(* "readable" is FALSE once the encrypted payload was cleared.             *)
Init ==
    /\ outbox = [m \in Messages |->
         [status |-> "absent", attempts |-> 0, createdAt |-> 0, availableAt |-> 0,
          lockedAt |-> NoTime, readable |-> TRUE]]
    /\ jobs = {}
    /\ rememberedAt = [m \in Messages |-> NoTime]
    /\ mailed = [m \in Messages |-> 0]
    /\ now = 0
    /\ faults = 0

Fault == faults < MaxFaults /\ now <= LastFault /\ faults' = faults + 1

-------------------------------------------------------------------------------
(* The transaction of a registration or a reset request commits.           *)
Enqueue(m) ==
    /\ outbox[m].status = "absent"
    /\ now <= LastEnqueue
    /\ outbox' = [outbox EXCEPT ![m] =
         [@ EXCEPT !.status = "pending", !.createdAt = now, !.availableAt = now]]
    /\ UNCHANGED <<jobs, rememberedAt, mailed, now, faults>>

(* Mutants: rows of any age are claimed; a crashed claim stays claimed.    *)
MayClaim_AnyAge(m) ==
    /\ outbox[m].attempts < MaxAttempts
    /\ outbox[m].availableAt <= now
    /\ \/ outbox[m].status = "pending"
       \/ outbox[m].status = "processing" /\ outbox[m].lockedAt + Stale < now

MayClaim_NeverStale(m) ==
    /\ outbox[m].createdAt + MaxAge >= now
    /\ outbox[m].attempts < MaxAttempts
    /\ outbox[m].availableAt <= now
    /\ outbox[m].status = "pending"

(* The predicate of claimBatch.                                            *)
MayClaim(m) ==
    /\ outbox[m].createdAt + MaxAge >= now
    /\ outbox[m].attempts < MaxAttempts
    /\ outbox[m].availableAt <= now
    /\ \/ outbox[m].status = "pending"
       \/ outbox[m].status = "processing" /\ outbox[m].lockedAt + Stale < now

(* processBatch is busy while Promise.all waits for a delivery.  A job     *)
(* whose final update failed rejects it, and the others go on unawaited.   *)
Busy(i) == \E j \in jobs : j.instance = i /\ j.current

ClaimBatch(i) ==
    LET open == {m \in Messages : MayClaim(m)} IN
    /\ ~Busy(i)
    /\ \E batch \in SUBSET open :
         /\ batch # {}
         /\ Cardinality(batch) <= BatchSize
         /\ Cardinality(batch) = BatchSize \/ batch = open
         /\ \A m \in batch, n \in open \ batch :
              outbox[m].createdAt <= outbox[n].createdAt
         /\ outbox' = [m \in Messages |->
              IF m \in batch
              THEN [outbox[m] EXCEPT !.status = "processing", !.lockedAt = now]
              ELSE outbox[m]]
         /\ jobs' = jobs \cup
              {[instance |-> i, message |-> m, attempts |-> outbox[m].attempts,
                createdAt |-> outbox[m].createdAt, readable |-> outbox[m].readable,
                claimedAt |-> now, current |-> TRUE, step |-> "send"] : m \in batch}
    /\ UNCHANGED <<rememberedAt, mailed, now, faults>>

-------------------------------------------------------------------------------
MoveTo(j, step) == jobs' = (jobs \ {j}) \cup {[j EXCEPT !.step = step]}

(* The provider takes the request: it mails unless it knows the key.       *)
Accept(m) ==
    IF rememberedAt[m] # NoTime /\ now < rememberedAt[m] + Window
    THEN UNCHANGED <<rememberedAt, mailed>>
    ELSE /\ rememberedAt' = [rememberedAt EXCEPT ![m] = now]
         /\ mailed' = [mailed EXCEPT ![m] = @ + 1]

(* A cleared payload does not decrypt: the attempt fails before the mail.  *)
SendUnreadable(j) ==
    /\ j.step = "send"
    /\ ~j.readable
    /\ MoveTo(j, "failed")
    /\ UNCHANGED <<outbox, rememberedAt, mailed, now, faults>>

SendAnswered(j) ==
    /\ j.step = "send"
    /\ j.readable
    /\ Accept(j.message)
    /\ MoveTo(j, "sent")
    /\ UNCHANGED <<outbox, now, faults>>

(* Timed out or cut off after the provider took the request.               *)
SendUnanswered(j) ==
    /\ j.step = "send"
    /\ j.readable
    /\ Fault
    /\ Accept(j.message)
    /\ MoveTo(j, "failed")
    /\ UNCHANGED <<outbox, now>>

SendRefused(j) ==
    /\ j.step = "send"
    /\ j.readable
    /\ Fault
    /\ MoveTo(j, "failed")
    /\ UNCHANGED <<outbox, rememberedAt, mailed, now>>

(* Mutant: the row is settled whether or not the provider answered.        *)
MarkSent_Anyway(j) ==
    /\ j.step \in {"sent", "failed"}
    /\ outbox' = [outbox EXCEPT ![j.message] =
         [@ EXCEPT !.status = "sent", !.lockedAt = NoTime, !.readable = FALSE]]
    /\ jobs' = jobs \ {j}
    /\ UNCHANGED <<rememberedAt, mailed, now, faults>>

(* The update goes by the id alone, so a worker whose claim was taken over *)
(* still writes its outcome.                                               *)
MarkSent(j) ==
    /\ j.step = "sent"
    /\ outbox' = [outbox EXCEPT ![j.message] =
         [@ EXCEPT !.status = "sent", !.lockedAt = NoTime, !.readable = FALSE]]
    /\ jobs' = jobs \ {j}
    /\ UNCHANGED <<rememberedAt, mailed, now, faults>>

(* The update of a delivered message fails inside the try block.           *)
MarkSentFails(j) ==
    /\ j.step = "sent"
    /\ Fault
    /\ MoveTo(j, "failed")
    /\ UNCHANGED <<outbox, rememberedAt, mailed, now>>

(* 5 s doubling to 15 min; MaxDelay caps it after one doubling here.       *)
RetryDelay(attempts) == IF attempts <= 1 THEN BaseDelay ELSE MaxDelay

(* Mutant: the claim time is left on the row that is put back.             *)
MarkFailed_KeepsClaim(j) ==
    LET attempts == j.attempts + 1
        expired == attempts >= MaxAttempts \/ j.createdAt + MaxAge < now
    IN  /\ j.step = "failed"
        /\ outbox' = [outbox EXCEPT ![j.message] =
             [@ EXCEPT !.status = IF expired THEN "failed" ELSE "pending",
                       !.attempts = attempts,
                       !.availableAt = now + RetryDelay(attempts)]]
        /\ jobs' = jobs \ {j}
        /\ UNCHANGED <<rememberedAt, mailed, now, faults>>

(* The catch block: back to pending, or failed for good.                   *)
MarkFailed(j) ==
    LET attempts == j.attempts + 1
        expired == attempts >= MaxAttempts \/ j.createdAt + MaxAge < now
    IN  /\ j.step = "failed"
        /\ outbox' = [outbox EXCEPT ![j.message] =
             [@ EXCEPT !.status = IF expired THEN "failed" ELSE "pending",
                       !.attempts = attempts, !.lockedAt = NoTime,
                       !.availableAt = now + RetryDelay(attempts)]]
        /\ jobs' = jobs \ {j}
        /\ UNCHANGED <<rememberedAt, mailed, now, faults>>

(* deliver() rejects: processBatch stops waiting for its other deliveries. *)
MarkFailedFails(j) ==
    /\ j.step = "failed"
    /\ Fault
    /\ jobs' = {k \in jobs : k.instance # j.instance}
               \cup {[k EXCEPT !.current = FALSE] :
                       k \in {l \in jobs \ {j} : l.instance = j.instance}}
    /\ UNCHANGED <<outbox, rememberedAt, mailed, now>>

Crash(i) ==
    /\ \E j \in jobs : j.instance = i
    /\ Fault
    /\ jobs' = {j \in jobs : j.instance # i}
    /\ UNCHANGED <<outbox, rememberedAt, mailed, now>>

(* The clock; a delivery holds it back when it has used up its time.       *)
Tick ==
    /\ now < MaxNow
    /\ \A j \in jobs :
         now < j.claimedAt + IF j.step = "send" THEN Patience ELSE SettleBy
    /\ now' = now + 1
    /\ UNCHANGED <<outbox, jobs, rememberedAt, mailed, faults>>

Deliver(j) ==
    \/ SendUnreadable(j) \/ SendAnswered(j) \/ SendUnanswered(j) \/ SendRefused(j)
    \/ MarkSent(j) \/ MarkSentFails(j) \/ MarkFailed(j) \/ MarkFailedFails(j)

Next ==
    \/ \E m \in Messages : Enqueue(m)
    \/ \E i \in Instances : ClaimBatch(i) \/ Crash(i)
    \/ \E j \in jobs : Deliver(j)
    \/ Tick

Spec == Init /\ [][Next]_vars

(* Every instance polls every 5 s, a delivery ends within its time-out,    *)
(* and time passes.  Nothing makes a fault happen.                         *)
FairSpec ==
    /\ Spec
    /\ \A i \in Instances : WF_vars(ClaimBatch(i))
    /\ WF_vars(\E j \in jobs : Deliver(j))
    /\ WF_vars(Tick)

-------------------------------------------------------------------------------
(* However often a claim is taken over, answered late or retried after a   *)
(* crash, one message is mailed once: retries end before the provider      *)
(* forgets the key.                                                        *)
MailedAtMostOnce == \A m \in Messages : mailed[m] <= 1

(* A row that says "sent", and a payload that was cleared, are never a     *)
(* promise: the provider had taken the message, even where a worker with a *)
(* lost claim turned the row back to pending or failed since.              *)
ClearedOnlyIfMailed ==
    \A m \in Messages :
        outbox[m].status = "sent" \/ ~outbox[m].readable => mailed[m] > 0

(* With fewer faults than attempts, every message is mailed: a crash after *)
(* the claim, a lost answer or a failed update never strands it.           *)
EveryMessageMailed ==
    \A m \in Messages : outbox[m].status # "absent" ~> mailed[m] > 0
===============================================================================
