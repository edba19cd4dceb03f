--------------------------- MODULE EmailOutboxProofs ---------------------------
(***************************************************************************)
(* Proofs about EmailOutbox for every number of messages and backend       *)
(* instances, every retry schedule and any number of faults.               *)
(***************************************************************************)
EXTENDS EmailOutbox, TLAPS

(* A claim keeps the age at which it was made, and a request not yet made  *)
(* is not older than its patience: that is what bounds the last request.   *)
JobsYoung ==
    \A j \in jobs :
        /\ outbox[j.message].status # "absent"
        /\ j.createdAt = outbox[j.message].createdAt
        /\ j.claimedAt <= j.createdAt + MaxAge
        /\ j.step = "send" => now <= j.claimedAt + Patience
        /\ j.step = "sent" => mailed[j.message] > 0

KeysRemembered ==
    \A m \in Messages :
        IF rememberedAt[m] = NoTime
        THEN mailed[m] = 0
        ELSE /\ mailed[m] = 1
             /\ outbox[m].status # "absent"
             /\ outbox[m].createdAt <= rememberedAt[m]

CreatedInPast ==
    \A m \in Messages : outbox[m].createdAt <= now

OInv == TypeOK /\ JobsYoung /\ KeysRemembered /\ CreatedInPast /\ ClearedOnlyIfMailed

(* What the assumptions on the constants give the proofs below.            *)
LEMMA OutboxFacts ==
    /\ MaxAttempts \in Nat /\ MaxAttempts > 0
    /\ MaxAge \in Nat /\ Window \in Nat /\ Patience \in Nat /\ SettleBy \in Nat
    /\ BaseDelay \in Nat /\ MaxDelay \in Nat
    /\ MaxNow \in Nat /\ MaxFaults \in Nat
    /\ MaxAge + Patience < Window
    /\ NoTime \notin Nat
  BY OutboxAssumption

(* The empty table satisfies the invariant.                                *)
LEMMA OInvInit == Init => OInv
  BY OutboxFacts
  DEF Init, OInv, TypeOK, OutboxRow, JobsYoung, KeysRemembered, CreatedInPast,
      ClearedOnlyIfMailed

(* Rows that keep what the invariant speaks of.                            *)
LEMMA OInvEnqueue ==
    ASSUME OInv, NEW m \in Messages, Enqueue(m)
    PROVE  OInv'
  <1>1. outbox' = [outbox EXCEPT ![m] = [outbox[m] EXCEPT
             !.status = "pending", !.createdAt = now, !.availableAt = now]]
        /\ UNCHANGED <<jobs, rememberedAt, mailed, now, faults>>
        /\ outbox[m].status = "absent"
    BY DEF Enqueue
  <1>2. now \in Nat
    BY OutboxFacts DEF OInv, TypeOK
  <1>3. TypeOK'
    <2>. DEFINE row == [outbox[m] EXCEPT
                   !.status = "pending", !.createdAt = now, !.availableAt = now]
    <2>1. outbox \in [Messages -> OutboxRow]
      BY DEF OInv, TypeOK
    <2>2. row \in OutboxRow
      BY <1>1, <1>2, <2>1 DEF OutboxRow
    <2>3. outbox' = [outbox EXCEPT ![m] = row]
      BY <1>1
    <2>. HIDE DEF row
    <2>4. outbox' \in [Messages -> OutboxRow]
      BY <2>1, <2>2, <2>3
    <2>. QED  BY <1>1, <2>4 DEF OInv, TypeOK
  <1>4. \A n \in Messages : n # m => outbox'[n] = outbox[n]
    BY <1>1 DEF OInv, TypeOK
  <1>5. outbox'[m].status = "pending" /\ outbox'[m].createdAt = now
        /\ outbox'[m].readable = outbox[m].readable
    BY <1>1 DEF OInv, TypeOK, OutboxRow
  <1>6. \A j \in jobs : j.message \in Messages /\ j.message # m
    BY <1>1 DEF OInv, TypeOK, Job, JobsYoung
  <1>7. JobsYoung'
    BY <1>1, <1>4, <1>6 DEF OInv, JobsYoung
  <1>8. KeysRemembered' /\ CreatedInPast' /\ ClearedOnlyIfMailed'
    BY <1>1, <1>2, <1>4, <1>5
    DEF OInv, KeysRemembered, CreatedInPast, ClearedOnlyIfMailed
  <1>. QED  BY <1>3, <1>7, <1>8 DEF OInv

(* A claim gives each job the age its row had: young enough to be mailed.  *)
LEMMA OInvClaim ==
    ASSUME OInv, NEW i \in Instances, ClaimBatch(i)
    PROVE  OInv'
  <1>1. PICK batch \in SUBSET Messages :
          /\ \A m \in batch : MayClaim(m)
          /\ outbox' = [m \in Messages |->
               IF m \in batch
               THEN [outbox[m] EXCEPT !.status = "processing", !.lockedAt = now]
               ELSE outbox[m]]
          /\ jobs' = jobs \cup
               {[instance |-> i, message |-> m, attempts |-> outbox[m].attempts,
                 createdAt |-> outbox[m].createdAt, readable |-> outbox[m].readable,
                 claimedAt |-> now, current |-> TRUE, step |-> "send"] : m \in batch}
          /\ UNCHANGED <<rememberedAt, mailed, now, faults>>
    BY DEF ClaimBatch
  <1>2. now \in Nat
    BY OutboxFacts DEF OInv, TypeOK
  <1>3. \A m \in batch : /\ outbox[m] \in OutboxRow
                         /\ outbox[m].attempts \in 0 .. MaxAttempts - 1
                         /\ now <= outbox[m].createdAt + MaxAge
                         /\ outbox[m].status # "absent"
    <2>1. \A m \in batch : outbox[m] \in OutboxRow
      BY DEF OInv, TypeOK
    <2>2. \A m \in batch : /\ outbox[m].attempts \in 0 .. MaxAttempts
                           /\ outbox[m].createdAt \in Nat
      BY <2>1 DEF OutboxRow
    <2>3. \A m \in batch : /\ outbox[m].attempts < MaxAttempts
                           /\ outbox[m].createdAt + MaxAge >= now
                           /\ outbox[m].status # "absent"
      BY <1>1 DEF MayClaim
    <2>. QED  BY <1>2, <2>1, <2>2, <2>3, OutboxFacts
  <1>4. \A m \in Messages :
          /\ outbox'[m] \in OutboxRow
          /\ outbox'[m].createdAt = outbox[m].createdAt
          /\ outbox'[m].readable = outbox[m].readable
          /\ outbox[m].status # "absent" => outbox'[m].status # "absent"
          /\ outbox'[m].status = "sent" => outbox[m].status = "sent"
    <2>. SUFFICES ASSUME NEW m \in Messages
                  PROVE  /\ outbox'[m] \in OutboxRow
                         /\ outbox'[m].createdAt = outbox[m].createdAt
                         /\ outbox'[m].readable = outbox[m].readable
                         /\ outbox[m].status # "absent" => outbox'[m].status # "absent"
                         /\ outbox'[m].status = "sent" => outbox[m].status = "sent"
      OBVIOUS
    <2>. DEFINE row == [outbox[m] EXCEPT !.status = "processing", !.lockedAt = now]
    <2>1. outbox[m] \in OutboxRow
      BY DEF OInv, TypeOK
    <2>2. now # NoTime
      BY <1>2, OutboxFacts
    <2>3. /\ row \in OutboxRow /\ row.createdAt = outbox[m].createdAt
          /\ row.readable = outbox[m].readable /\ row.status = "processing"
      BY <1>2, <2>1, <2>2 DEF OutboxRow
    <2>4. outbox'[m] = row \/ outbox'[m] = outbox[m]
      BY <1>1
    <2>. HIDE DEF row
    <2>. QED  BY <2>1, <2>3, <2>4
  <1>5. ASSUME NEW m \in batch
        PROVE  [instance |-> i, message |-> m, attempts |-> outbox[m].attempts,
                createdAt |-> outbox[m].createdAt, readable |-> outbox[m].readable,
                claimedAt |-> now, current |-> TRUE, step |-> "send"] \in Job
    BY <1>2, <1>3 DEF Job, OutboxRow
  <1>6. TypeOK'
    BY <1>1, <1>4, <1>5 DEF OInv, TypeOK
  <1>7. JobsYoung'
    <2>. SUFFICES ASSUME NEW j \in jobs'
                  PROVE  /\ outbox'[j.message].status # "absent"
                         /\ j.createdAt = outbox'[j.message].createdAt
                         /\ j.claimedAt <= j.createdAt + MaxAge
                         /\ j.step = "send" => now <= j.claimedAt + Patience
                         /\ j.step = "sent" => mailed[j.message] > 0
      BY <1>1 DEF JobsYoung
    <2>1. CASE j \in jobs
      BY <1>4, <2>1 DEF OInv, TypeOK, Job, JobsYoung
    <2>2. CASE j \notin jobs
      <3>1. PICK m \in batch :
              j = [instance |-> i, message |-> m, attempts |-> outbox[m].attempts,
                   createdAt |-> outbox[m].createdAt, readable |-> outbox[m].readable,
                   claimedAt |-> now, current |-> TRUE, step |-> "send"]
        BY <1>1, <2>2, Zenon
      <3>. QED  BY <1>2, <1>3, <1>4, <3>1, OutboxFacts
    <2>. QED  BY <2>1, <2>2
  <1>8. KeysRemembered' /\ CreatedInPast' /\ ClearedOnlyIfMailed'
    BY <1>1, <1>4 DEF OInv, KeysRemembered, CreatedInPast, ClearedOnlyIfMailed
  <1>. QED  BY <1>6, <1>7, <1>8 DEF OInv

(* A job moves on without touching a row or the provider.                  *)
LEMMA OInvJobs ==
    ASSUME OInv, UNCHANGED <<outbox, rememberedAt, mailed, now>>,
           faults' \in 0 .. MaxFaults,
           \A k \in jobs' : \E l \in jobs :
               /\ k \in Job /\ k.message = l.message
               /\ k.createdAt = l.createdAt /\ k.claimedAt = l.claimedAt
               /\ k.step = l.step \/ k.step = "failed"
    PROVE  OInv'
  <1>1. TypeOK'
    BY DEF OInv, TypeOK
  <1>2. JobsYoung'
    BY DEF OInv, JobsYoung
  <1>. QED  BY <1>1, <1>2 DEF OInv, KeysRemembered, CreatedInPast, ClearedOnlyIfMailed

(* A fault is counted within its bound.                                    *)
LEMMA FaultTyped == ASSUME OInv, Fault PROVE faults' \in 0 .. MaxFaults
  BY OutboxFacts DEF Fault, OInv, TypeOK

(* The provider takes a request: not later than MaxAge + Patience after    *)
(* the message was created, so within the window of an earlier one.        *)
LEMMA OInvAccept ==
    ASSUME OInv, NEW j \in jobs, j.step = "send", Accept(j.message),
           NEW step \in {"sent", "failed"}, MoveTo(j, step),
           faults' \in 0 .. MaxFaults, UNCHANGED <<outbox, now>>
    PROVE  OInv'
  <1>. DEFINE m == j.message
              k == [j EXCEPT !.step = step]
  <1>1. j \in Job /\ m \in Messages /\ now \in Nat
    BY OutboxFacts DEF OInv, TypeOK, Job
  <1>2. /\ k \in Job /\ k.message = m /\ k.createdAt = j.createdAt
        /\ k.claimedAt = j.claimedAt /\ k.step = step
    BY <1>1 DEF Job
  <1>3. outbox[m].createdAt \in Nat
    BY <1>1 DEF OInv, TypeOK, OutboxRow
  <1>4. /\ outbox[m].status # "absent"
        /\ now <= outbox[m].createdAt + MaxAge + Patience
    BY <1>1, <1>3, OutboxFacts DEF OInv, JobsYoung, Job
  <1>5. CASE rememberedAt[m] # NoTime
    <2>1. rememberedAt[m] \in Nat /\ outbox[m].createdAt <= rememberedAt[m]
          /\ mailed[m] = 1
      BY <1>1, <1>5 DEF OInv, TypeOK, KeysRemembered
    <2>2. now < rememberedAt[m] + Window
      BY <1>1, <1>3, <1>4, <2>1, OutboxFacts
    <2>3. UNCHANGED <<rememberedAt, mailed>>
      BY <1>5, <2>2 DEF Accept
    <2>4. JobsYoung'
      <3>1. \A l \in jobs' : l \in jobs \/ l = k
        BY DEF MoveTo
      <3>2. k.createdAt = outbox[m].createdAt /\ k.claimedAt <= k.createdAt + MaxAge
            /\ k.step # "send" /\ mailed[k.message] > 0
        BY <1>2, <2>1 DEF OInv, JobsYoung
      <3>. HIDE DEF k
      <3>. QED  BY <1>2, <1>4, <2>3, <3>1, <3>2 DEF OInv, JobsYoung
    <2>5. TypeOK'
      BY <1>2, <2>3 DEF MoveTo, OInv, TypeOK
    <2>. QED  BY <2>3, <2>4, <2>5
              DEF OInv, KeysRemembered, CreatedInPast, ClearedOnlyIfMailed
  <1>6. CASE rememberedAt[m] = NoTime
    <2>1. /\ rememberedAt' = [rememberedAt EXCEPT ![m] = now]
          /\ mailed' = [mailed EXCEPT ![m] = @ + 1]
      BY <1>6 DEF Accept
    <2>2. mailed[m] = 0
      BY <1>1, <1>6 DEF OInv, KeysRemembered
    <2>3. /\ rememberedAt'[m] = now /\ mailed'[m] = 1
          /\ \A n \in Messages : n # m =>
               rememberedAt'[n] = rememberedAt[n] /\ mailed'[n] = mailed[n]
      BY <1>1, <2>1, <2>2 DEF OInv, TypeOK
    <2>4. TypeOK'
      BY <1>1, <1>2, <2>1, <2>2 DEF MoveTo, OInv, TypeOK
    <2>5. \A n \in Messages : mailed[n] > 0 => mailed'[n] > 0
      BY <2>2, <2>3 DEF OInv, TypeOK
    <2>. HIDE DEF k, m
    <2>6. JobsYoung'
      <3>. SUFFICES ASSUME NEW l \in jobs'
                    PROVE  /\ outbox[l.message].status # "absent"
                           /\ l.createdAt = outbox[l.message].createdAt
                           /\ l.claimedAt <= l.createdAt + MaxAge
                           /\ l.step = "send" => now <= l.claimedAt + Patience
                           /\ l.step = "sent" => mailed'[l.message] > 0
        BY DEF JobsYoung
      <3>1. CASE l \in jobs
        BY <2>5, <3>1 DEF OInv, JobsYoung, TypeOK, Job
      <3>2. CASE l = k
        <4>1. mailed'[m] > 0
          BY <2>3
        <4>2. j.createdAt = outbox[m].createdAt /\ j.claimedAt <= j.createdAt + MaxAge
          BY DEF OInv, JobsYoung, m
        <4>. QED  BY <1>2, <1>4, <3>2, <4>1, <4>2
      <3>. QED  BY <3>1, <3>2 DEF MoveTo, k
    <2>7. KeysRemembered'
      BY <1>1, <1>4, <2>3, OutboxFacts DEF OInv, KeysRemembered, CreatedInPast
    <2>8. ClearedOnlyIfMailed'
      BY <2>5 DEF OInv, ClearedOnlyIfMailed
    <2>. QED  BY <2>4, <2>6, <2>7, <2>8 DEF OInv, CreatedInPast
  <1>. QED  BY <1>5, <1>6

(* A row is settled, by the worker that holds its claim or by one that     *)
(* lost it long ago.                                                       *)
LEMMA OInvSettle ==
    ASSUME OInv, NEW j \in jobs, MarkSent(j) \/ MarkFailed(j)
    PROVE  OInv'
  <1>. DEFINE m == j.message
  <1>1. j \in Job /\ m \in Messages /\ now \in Nat /\ outbox[m] \in OutboxRow
    BY OutboxFacts DEF OInv, TypeOK, Job
  <1>2. jobs' = jobs \ {j} /\ UNCHANGED <<rememberedAt, mailed, now, faults>>
    BY DEF MarkSent, MarkFailed
  <1>3. \A n \in Messages : n # m => outbox'[n] = outbox[n]
    BY DEF MarkSent, MarkFailed, OInv, TypeOK
  <1>4. /\ outbox' \in [Messages -> OutboxRow]
        /\ outbox'[m].createdAt = outbox[m].createdAt
        /\ outbox'[m].status # "absent"
        /\ outbox'[m].status = "sent" \/ ~outbox'[m].readable =>
             j.step = "sent" \/ ~outbox[m].readable
    <2>1. CASE MarkSent(j)
      <3>. DEFINE row == [outbox[m] EXCEPT !.status = "sent", !.lockedAt = NoTime,
                                           !.readable = FALSE]
      <3>1. row \in OutboxRow /\ row.createdAt = outbox[m].createdAt
            /\ row.status = "sent"
        BY <1>1 DEF OutboxRow
      <3>2. outbox' = [outbox EXCEPT ![m] = row] /\ j.step = "sent"
        BY <2>1 DEF MarkSent
      <3>. HIDE DEF row
      <3>. QED  BY <1>1, <3>1, <3>2 DEF OInv, TypeOK
    <2>2. CASE MarkFailed(j)
      <3>1. j.attempts + 1 \in 0 .. MaxAttempts /\ RetryDelay(j.attempts + 1) \in Nat
        BY <1>1, OutboxFacts DEF Job, RetryDelay
      <3>2. now + RetryDelay(j.attempts + 1) \in Nat
        BY <1>1, <3>1
      <3>3. PICK s \in {"failed", "pending"} :
              outbox' = [outbox EXCEPT ![m] = [outbox[m] EXCEPT !.status = s,
                              !.attempts = j.attempts + 1, !.lockedAt = NoTime,
                              !.availableAt = now + RetryDelay(j.attempts + 1)]]
        BY <2>2 DEF MarkFailed
      <3>. DEFINE row == [outbox[m] EXCEPT !.status = s,
                              !.attempts = j.attempts + 1, !.lockedAt = NoTime,
                              !.availableAt = now + RetryDelay(j.attempts + 1)]
      <3>4. row \in OutboxRow /\ row.createdAt = outbox[m].createdAt
            /\ row.status = s /\ row.readable = outbox[m].readable
        BY <1>1, <3>1, <3>2 DEF OutboxRow
      <3>5. outbox' = [outbox EXCEPT ![m] = row]
        BY <3>3
      <3>. HIDE DEF row
      <3>. QED  BY <1>1, <3>4, <3>5 DEF OInv, TypeOK
    <2>. QED  BY <2>1, <2>2
  <1>5. j.step = "sent" => mailed[m] > 0
    BY DEF OInv, JobsYoung
  <1>. HIDE DEF m
  <1>6. TypeOK'
    BY <1>2, <1>4 DEF OInv, TypeOK
  <1>7. JobsYoung'
    BY <1>2, <1>3, <1>4 DEF OInv, JobsYoung, TypeOK, Job
  <1>8. KeysRemembered' /\ CreatedInPast'
    BY <1>2, <1>3, <1>4 DEF OInv, KeysRemembered, CreatedInPast
  <1>9. ClearedOnlyIfMailed'
    BY <1>1, <1>2, <1>3, <1>4, <1>5 DEF OInv, ClearedOnlyIfMailed
  <1>. QED  BY <1>6, <1>7, <1>8, <1>9 DEF OInv

(* The invariant is inductive.                                             *)
LEMMA OInvNext == OInv /\ [Next]_vars => OInv'
  <1>. SUFFICES ASSUME OInv, [Next]_vars PROVE OInv'
    OBVIOUS
  <1>1. ASSUME NEW m \in Messages, Enqueue(m) PROVE OInv'
    BY <1>1, OInvEnqueue
  <1>2. ASSUME NEW i \in Instances, ClaimBatch(i) PROVE OInv'
    BY <1>2, OInvClaim
  <1>3. ASSUME NEW i \in Instances, Crash(i) PROVE OInv'
    <2>1. \A k \in jobs' : k \in jobs /\ k \in Job
      BY <1>3 DEF Crash, OInv, TypeOK
    <2>. QED  BY <1>3, <2>1, FaultTyped, OInvJobs DEF Crash
  <1>4. ASSUME NEW j \in jobs, Deliver(j) PROVE OInv'
    <2>1. j \in Job /\ [j EXCEPT !.step = "failed"] \in Job
          /\ [j EXCEPT !.step = "failed"].message = j.message
          /\ [j EXCEPT !.step = "failed"].createdAt = j.createdAt
          /\ [j EXCEPT !.step = "failed"].claimedAt = j.claimedAt
          /\ [j EXCEPT !.step = "failed"].step = "failed"
      BY DEF OInv, TypeOK, Job
    <2>2. ASSUME NEW l \in jobs
          PROVE  /\ l \in Job /\ [l EXCEPT !.current = FALSE] \in Job
                 /\ [l EXCEPT !.current = FALSE].message = l.message
                 /\ [l EXCEPT !.current = FALSE].createdAt = l.createdAt
                 /\ [l EXCEPT !.current = FALSE].claimedAt = l.claimedAt
                 /\ [l EXCEPT !.current = FALSE].step = l.step
      BY DEF OInv, TypeOK, Job
    <2>3. faults \in 0 .. MaxFaults
      BY DEF OInv, TypeOK
    <2>4. CASE SendUnreadable(j) \/ SendRefused(j) \/ MarkSentFails(j)
      <3>1. /\ MoveTo(j, "failed")
            /\ faults' \in 0 .. MaxFaults
            /\ UNCHANGED <<outbox, rememberedAt, mailed, now>>
        BY <2>3, <2>4, FaultTyped DEF SendUnreadable, SendRefused, MarkSentFails
      <3>. QED  BY <2>1, <2>2, <3>1, OInvJobs DEF MoveTo
    <2>5. CASE SendAnswered(j) \/ SendUnanswered(j)
      BY <2>3, <2>5, FaultTyped, OInvAccept DEF SendAnswered, SendUnanswered
    <2>6. CASE MarkSent(j) \/ MarkFailed(j)
      BY <2>6, OInvSettle
    <2>7. CASE MarkFailedFails(j)
      <3>1. \A k \in jobs' : \E l \in jobs : k = l \/ k = [l EXCEPT !.current = FALSE]
        BY <2>7 DEF MarkFailedFails
      <3>2. /\ UNCHANGED <<outbox, rememberedAt, mailed, now>>
            /\ faults' \in 0 .. MaxFaults
        BY <2>7, FaultTyped DEF MarkFailedFails
      <3>3. ASSUME NEW k \in jobs'
            PROVE  \E l \in jobs :
                     /\ k \in Job /\ k.message = l.message
                     /\ k.createdAt = l.createdAt /\ k.claimedAt = l.claimedAt
                     /\ k.step = l.step \/ k.step = "failed"
        <4>1. PICK l \in jobs : k = l \/ k = [l EXCEPT !.current = FALSE]
          BY <3>1
        <4>. QED  BY <2>2, <4>1
      <3>. QED  BY <3>2, <3>3, OInvJobs
    <2>. QED  BY <1>4, <2>4, <2>5, <2>6, <2>7 DEF Deliver
  <1>5. CASE Tick
    <2>1. now \in Nat /\ now' = now + 1 /\ now' \in 0 .. MaxNow
      BY <1>5, OutboxFacts DEF Tick, OInv, TypeOK
    <2>2. UNCHANGED <<outbox, jobs, rememberedAt, mailed, faults>>
      BY <1>5 DEF Tick
    <2>3. \A j \in jobs : j.step = "send" => now' <= j.claimedAt + Patience
      BY <1>5, <2>1, OutboxFacts DEF Tick, OInv, TypeOK, Job
    <2>4. CreatedInPast'
      BY <2>1, <2>2 DEF OInv, CreatedInPast, TypeOK, OutboxRow
    <2>. QED  BY <2>1, <2>2, <2>3, <2>4
              DEF OInv, TypeOK, JobsYoung, KeysRemembered, ClearedOnlyIfMailed
  <1>6. CASE UNCHANGED vars
    BY <1>6 DEF vars, OInv, TypeOK, JobsYoung, KeysRemembered, CreatedInPast,
                ClearedOnlyIfMailed
  <1>. QED  BY <1>1, <1>2, <1>3, <1>4, <1>5, <1>6 DEF Next

(* Every reachable state satisfies it.                                     *)
LEMMA OutboxInvariant == Spec => []OInv
  BY OInvInit, OInvNext, PTL DEF Spec

(* One message is mailed once, however many instances claim it and however *)
(* many crashes, lost answers and failed updates it goes through.          *)
THEOREM NeverMailedTwice == Spec => []MailedAtMostOnce
  <1>1. OInv => MailedAtMostOnce
    BY DEF OInv, KeysRemembered, MailedAtMostOnce
  <1>. QED  BY <1>1, OutboxInvariant, PTL

(* A payload is cleared, and a row says "sent", only after the provider    *)
(* took the message.                                                       *)
THEOREM ClearedAfterMail == Spec => []ClearedOnlyIfMailed
  <1>1. OInv => ClearedOnlyIfMailed
    BY DEF OInv
  <1>. QED  BY <1>1, OutboxInvariant, PTL

(* Rows, claims and deliveries keep their types: attempts stay within the  *)
(* limit, and a row has a claim time exactly while it is processing, also  *)
(* when workers that lost their claim write their outcomes.                *)
THEOREM OutboxTypes == Spec => []TypeOK
  <1>1. OInv => TypeOK
    BY DEF OInv
  <1>. QED  BY <1>1, OutboxInvariant, PTL
===============================================================================
