--------------------------- MODULE RateLimitsProofs ---------------------------
(***************************************************************************)
(* Theorems about RateLimits, for any limits, windows, requests and        *)
(* clocks: the rolling limits of the machine API and of step-ups, the      *)
(* block of a source, the fixed windows of the pages, and what Retry-After *)
(* promises.                                                               *)
(***************************************************************************)
EXTENDS RateLimits, Induction, TLAPS

USE DEF Allowed, Never

(* The constants, as numbers.                                              *)
LEMMA Numbers ==
    /\ {CredentialLimit, MutationLimit, RequestWindow, FailureLimit, FailureWindow, Block,
        UserLimit, StepUpSourceLimit, StepUpWindow, AuthLimit, AuthWindow} \subseteq Nat \ {0}
    /\ MaxDelay \in Nat /\ MaxTime \in Nat \ {0}
    /\ FailureWindow <= Block /\ MaxDelay < AuthWindow
    /\ Times \subseteq Nat /\ IsFiniteSet(Times)
  <1>1. MaxTime \in Nat \ {0}
    BY RateLimitsAssumption
  <1>2. Times \subseteq Nat /\ IsFiniteSet(Times)
    BY <1>1, FS_Interval DEF Times
  <1>. QED  BY <1>1, <1>2, RateLimitsAssumption

LEMMA LimitTyped == \A key \in Keys : Limit(key) \in Nat
  BY Numbers DEF Limit, Keys

-------------------------------------------------------------------------------
(* Instants and how many they are.                                         *)
LEMMA TotalIsSum ==
    ASSUME NEW times \in Instants
    PROVE  Total(times) = SumOf(times, Times)
  <1>. DEFINE some == {t \in Times : times[t] > 0}
  <1>1. Total(times) = SumOf(times, some)
    BY DEF Total, SumOf
  <1>2. some \in SUBSET Times /\ (\A t \in Times : times[t] \in Int)
        /\ \A t \in Times \ some : times[t] = 0
    BY DEF Instants
  <1>. HIDE DEF some
  <1>3. SumOf(times, Times) = SumOf(times, some)
    BY <1>2, Numbers, SumWithoutZeros
  <1>. QED  BY <1>1, <1>3

LEMMA NoneTyped == None \in Instants /\ Total(None) = 0
  <1>1. None \in Instants
    BY DEF None, Instants
  <1>2. SumOf(None, Times) = 0
    BY SumOfZeros, Numbers DEF None
  <1>. QED  BY <1>1, <1>2, TotalIsSum

LEMMA InstantsAreNumbers ==
    ASSUME NEW f \in Instants
    PROVE  /\ f \in [Times -> Int]
           /\ \A t \in Times : f[t] \in Nat
  BY DEF Instants

LEMMA TotalGrows ==
    ASSUME NEW f \in Instants, NEW g \in Instants, \A t \in Times : f[t] <= g[t]
    PROVE  /\ Total(f) \in Nat /\ Total(g) \in Nat
           /\ Total(f) <= Total(g)
  <1>1. None \in [Times -> Int] /\ f \in [Times -> Int] /\ g \in [Times -> Int]
    BY NoneTyped, InstantsAreNumbers
  <1>2. \A t \in Times : None[t] <= f[t]
    BY InstantsAreNumbers DEF None
  <1>3. /\ SumOf(None, Times) <= SumOf(f, Times)
        /\ SumOf(f, Times) <= SumOf(g, Times)
        /\ SumOf(f, Times) \in Int /\ SumOf(g, Times) \in Int
    BY <1>1, <1>2, SumGrows, Numbers
  <1>4. SumOf(None, Times) = 0
    BY NoneTyped, TotalIsSum
  <1>. QED  BY <1>3, <1>4, TotalIsSum

LEMMA TotalTyped ==
    ASSUME NEW f \in Instants
    PROVE  Total(f) \in Nat
  <1>1. \A t \in Times : f[t] <= f[t]
    BY InstantsAreNumbers
  <1>. QED  BY <1>1, TotalGrows

(* One more instant.                                                       *)
LEMMA OneMore ==
    ASSUME NEW f \in Instants, NEW now \in Times
    PROVE  /\ And(f, now) \in Instants
           /\ Total(And(f, now)) <= Total(f) + 1
           /\ \A t \in Times : And(f, now)[t] = IF t = now THEN f[t] + 1 ELSE f[t]
  <1>. DEFINE g == And(f, now)
  <1>1. g \in Instants /\ \A t \in Times : g[t] = IF t = now THEN f[t] + 1 ELSE f[t]
    BY DEF And, Instants
  <1>. HIDE DEF g
  <1>2. f \in [Times -> Int] /\ g \in [Times -> Int] /\ f[now] \in Int
    BY <1>1, InstantsAreNumbers
  <1>3. g[now] <= f[now] + 1 /\ \A t \in Times : t # now => g[t] <= f[t]
    BY <1>1, <1>2
  <1>4. SumOf(g, Times) <= SumOf(f, Times) + 1
    <2>1. IsFiniteSet(Times) /\ 1 \in Int
      BY Numbers
    <2>. QED  BY <1>2, <1>3, <2>1, SumStep
  <1>5. SumOf(g, Times) = Total(g) /\ SumOf(f, Times) = Total(f)
    BY <1>1, TotalIsSum
  <1>6. Total(g) <= Total(f) + 1
    BY <1>4, <1>5
  <1>. QED  BY <1>1, <1>6 DEF g

(* Fewer of them.                                                          *)
LEMMA OneGone ==
    ASSUME NEW f \in Instants, NEW g \in Instants, NEW z \in Times,
           \A t \in Times : g[t] <= f[t], g[z] = 0, f[z] > 0
    PROVE  Total(g) < Total(f)
  <1>1. f \in [Times -> Int] /\ g \in [Times -> Int] /\ f[z] \in Nat
    BY InstantsAreNumbers
  <1>2. g[z] <= f[z] + (-1)
    BY <1>1
  <1>3. SumOf(g, Times) <= SumOf(f, Times) + (-1)
    <2>1. IsFiniteSet(Times) /\ -1 \in Int
      BY Numbers
    <2>2. \A t \in Times : t # z => g[t] <= f[t]
      OBVIOUS
    <2>. QED  BY <1>1, <1>2, <2>1, <2>2, SumStep
  <1>4. SumOf(g, Times) = Total(g) /\ SumOf(f, Times) = Total(f)
        /\ Total(g) \in Nat /\ Total(f) \in Nat
    BY TotalIsSum, TotalTyped
  <1>. QED  BY <1>3, <1>4

(* Some of them, and the first.                                            *)
LEMMA First ==
    ASSUME NEW f \in Instants, Total(f) > 0
    PROVE  LET m == Min({t \in Times : f[t] > 0}) IN m \in Times /\ f[m] > 0
  <1>. DEFINE S == {t \in Times : f[t] > 0}
  <1>1. S # {}
    <2>1. SUFFICES ASSUME S = {} PROVE FALSE
      OBVIOUS
    <2>2. \A t \in Times : f[t] <= None[t]
      BY <2>1, InstantsAreNumbers DEF None
    <2>3. Total(f) <= 0 /\ Total(f) \in Nat
      BY <2>2, NoneTyped, TotalGrows
    <2>. QED  BY <2>3
  <1>2. S \subseteq Nat
    BY Numbers
  <1>. HIDE DEF S
  <1>3. PICK m \in S : \A n \in S : m <= n
    BY <1>1, <1>2, LeastNatural
  <1>4. Min(S) \in S
    BY <1>3 DEF Min
  <1>. QED  BY <1>4 DEF S

(* What is left of them in a window.                                       *)
LEMMA Rolling ==
    ASSUME NEW f \in Instants, NEW now \in Int, NEW w \in Int
    PROVE  /\ RollingTimes(f, now, w) \in Instants
           /\ Total(RollingTimes(f, now, w)) \in Nat
           /\ Total(RollingTimes(f, now, w)) <= Total(f)
           /\ \A t \in Times :
                RollingTimes(f, now, w)[t] = IF t > now - w THEN f[t] ELSE 0
  <1>. DEFINE g == RollingTimes(f, now, w)
  <1>1. g \in Instants /\ \A t \in Times : g[t] = IF t > now - w THEN f[t] ELSE 0
    BY DEF RollingTimes, Instants
  <1>. HIDE DEF g
  <1>2. \A t \in Times : g[t] <= f[t]
    BY <1>1, InstantsAreNumbers
  <1>3. Total(g) \in Nat /\ Total(g) <= Total(f)
    BY <1>1, <1>2, TotalGrows
  <1>. QED  BY <1>1, <1>3 DEF g

-------------------------------------------------------------------------------
(* The decisions on a row.                                                 *)
Window(key) ==
    CASE key = "credential" -> RequestWindow
      [] key = "source" -> FailureWindow
      [] key \in {"user", "stepUpSource"} -> StepUpWindow

LEMMA WindowTyped == \A key \in Keys : Window(key) \in Nat \ {0}
  BY Numbers DEF Window, Keys

(* A row as the limits leave it: no more instants than the limit, none in  *)
(* the future, none that its window still needs after the row expires, and *)
(* every mutation is one of the requests.                                  *)
Proper(row, key, now) ==
    /\ row \in Row
    /\ Total(row.requests) <= Limit(key)
    /\ Total(row.mutations) <= MutationLimit
    /\ \A t \in Times :
         /\ row.requests[t] > 0 => t <= now /\ t + Window(key) <= row.expires
         /\ row.mutations[t] <= row.requests[t]

(* What is in the window now is kept.                                      *)
Keeps(old, new, now, window) == \A t \in Times : t > now - window => old[t] <= new[t]

LEMMA ProperFacts ==
    ASSUME NEW key \in Keys, NEW now, NEW row, Proper(row, key, now)
    PROVE  /\ row.requests \in Instants /\ row.mutations \in Instants
           /\ row.blocked \in Nat /\ row.expires \in Nat
  BY DEF Proper, Row

(* The end of a full window.                                               *)
LEMMA Expiry ==
    ASSUME NEW f \in Instants, NEW now \in Nat, NEW limit \in Nat \ {0}, NEW w \in Nat \ {0}
    PROVE  LET past == RollingTimes(f, now, w) IN
           /\ Total(past) < limit => ExpiresFirst(past, limit, w) = {}
           /\ ~(Total(past) < limit) =>
                \E m \in Times : /\ ExpiresFirst(past, limit, w) = {m + w}
                                 /\ past[m] > 0
                                 /\ m + w > now
  <1>. DEFINE past == RollingTimes(f, now, w)
  <1>1. past \in Instants /\ Total(past) \in Nat
        /\ \A t \in Times : past[t] = IF t > now - w THEN f[t] ELSE 0
    BY Rolling
  <1>. HIDE DEF past
  <1>2. ASSUME ~(Total(past) < limit)
        PROVE  \E m \in Times : /\ ExpiresFirst(past, limit, w) = {m + w}
                                /\ past[m] > 0
                                /\ m + w > now
    <2>. DEFINE m == Min({t \in Times : past[t] > 0})
    <2>1. Total(past) > 0
      BY <1>1, <1>2
    <2>2. m \in Times /\ past[m] > 0
      BY <1>1, <2>1, First
    <2>3. ExpiresFirst(past, limit, w) = {m + w}
      BY <1>2 DEF ExpiresFirst
    <2>. HIDE DEF m
    <2>4. m > now - w /\ m \in Nat
      BY <1>1, <2>2, Numbers
    <2>5. m + w > now
      BY <2>4
    <2>. QED  BY <2>2, <2>3, <2>5
  <1>3. Total(past) < limit => ExpiresFirst(past, limit, w) = {}
    BY DEF ExpiresFirst
  <1>. QED  BY <1>2, <1>3 DEF past

(* Once one of the instants has left the window there is room.             *)
LEMMA RoomAgain ==
    ASSUME NEW f \in Instants, NEW m \in Times, f[m] > 0, NEW limit \in Nat, Total(f) <= limit,
           NEW w \in Nat \ {0}, NEW until \in Nat, until >= m + w
    PROVE  ExpiresFirst(RollingTimes(f, until, w), limit, w) = {}
  <1>. DEFINE left == RollingTimes(f, until, w)
  <1>1. left \in Instants /\ Total(left) \in Nat
        /\ \A t \in Times : left[t] = IF t > until - w THEN f[t] ELSE 0
    BY Rolling
  <1>. HIDE DEF left
  <1>2. \A t \in Times : left[t] <= f[t]
    BY <1>1, InstantsAreNumbers
  <1>3. left[m] = 0
    <2>1. m \in Nat
      BY Numbers
    <2>2. ~(m > until - w)
      BY <2>1
    <2>. QED  BY <1>1, <2>2
  <1>4. Total(left) < Total(f)
    BY <1>1, <1>2, <1>3, OneGone
  <1>5. Total(left) < limit
    BY <1>1, <1>4, TotalTyped
  <1>. QED  BY <1>5 DEF left, ExpiresFirst

(* What is left of the requests of a row, without and with one more now.  *)
LEMMA RollProper ==
    ASSUME NEW key \in Keys, NEW now \in Times, NEW row, Proper(row, key, now)
    PROVE  LET past == RollingTimes(row.requests, now, Window(key)) IN
           /\ past \in Instants /\ Total(past) \in Nat /\ Total(past) <= Limit(key)
           /\ \A t \in Times : past[t] = IF t > now - Window(key) THEN row.requests[t] ELSE 0
           /\ \A t \in Times : past[t] > 0 => t <= now
           /\ past[now] = row.requests[now]
           /\ Keeps(row.requests, past, now, Window(key))
           /\ And(past, now) \in Instants
           /\ Total(And(past, now)) <= Total(past) + 1
           /\ Total(And(past, now)) \in Nat
           /\ \A t \in Times : And(past, now)[t] > 0 => t <= now
           /\ And(past, now)[now] = row.requests[now] + 1
           /\ Keeps(row.requests, And(past, now), now, Window(key))
           /\ \A t \in Times : past[t] <= And(past, now)[t]
  <1>. DEFINE past == RollingTimes(row.requests, now, Window(key))
              more == And(past, now)
  <1>1. now \in Nat /\ Window(key) \in Nat \ {0} /\ Limit(key) \in Nat
    BY Numbers, WindowTyped, LimitTyped
  <1>2. row.requests \in Instants /\ Total(row.requests) \in Nat
    BY ProperFacts, TotalTyped
  <1>3. /\ past \in Instants /\ Total(past) \in Nat /\ Total(past) <= Total(row.requests)
        /\ \A t \in Times : past[t] = IF t > now - Window(key) THEN row.requests[t] ELSE 0
    BY <1>1, <1>2, Rolling
  <1>. HIDE DEF past
  <1>4. /\ more \in Instants /\ Total(more) <= Total(past) + 1
        /\ \A t \in Times : more[t] = IF t = now THEN past[t] + 1 ELSE past[t]
    BY <1>3, OneMore
  <1>. HIDE DEF more
  <1>5. Total(more) \in Nat
    BY <1>4, TotalTyped
  <1>6. Total(past) <= Limit(key)
    BY <1>1, <1>2, <1>3 DEF Proper
  <1>7. \A t \in Times : row.requests[t] > 0 => t <= now
    BY DEF Proper
  <1>8. \A t \in Times : past[t] > 0 => t <= now
    BY <1>1, <1>3, <1>7
  <1>9. \A t \in Times : past[t] \in Nat /\ row.requests[t] \in Nat
    BY <1>2, <1>3, InstantsAreNumbers
  <1>10. past[now] = row.requests[now]
    BY <1>1, <1>3
  <1>11. \A t \in Times : more[t] > 0 => t <= now
    BY <1>1, <1>4, <1>8
  <1>12. \A t \in Times : past[t] <= more[t]
    BY <1>4, <1>9
  <1>13. Keeps(row.requests, past, now, Window(key))
    BY <1>3, <1>9 DEF Keeps
  <1>14. Keeps(row.requests, more, now, Window(key))
    BY <1>3, <1>9, <1>12 DEF Keeps
  <1>15. more[now] = row.requests[now] + 1
    BY <1>4, <1>10
  <1>. QED  BY <1>3, <1>4, <1>5, <1>6, <1>8, <1>10, <1>11, <1>12, <1>13, <1>14, <1>15
            DEF past, more

(* consumeManagementStepUp.                                                *)
LEMMA StepUpDecision ==
    ASSUME NEW key \in {"user", "stepUpSource"}, NEW now \in Times, NEW row,
           Proper(row, key, now)
    PROVE  LET d == ConsumeStepUp(row, now, Limit(key)) IN
           /\ Proper(d.row, key, now)
           /\ Keeps(row.requests, d.row.requests, now, Window(key))
           /\ d.until = Allowed => d.row.requests[now] >= row.requests[now] + 1
           /\ d.until \in Nat
           /\ d.until # Allowed =>
                /\ d.until > now
                /\ ConsumeStepUp(d.row, d.until, Limit(key)).until = Allowed
  <1>. DEFINE past == RollingTimes(row.requests, now, Window(key))
              untils == ExpiresFirst(past, Limit(key), StepUpWindow)
              d == ConsumeStepUp(row, now, Limit(key))
  <1>0. key \in Keys /\ Window(key) = StepUpWindow /\ StepUpWindow \in Nat \ {0}
        /\ Limit(key) \in Nat \ {0} /\ MutationLimit \in Nat /\ now \in Nat
    BY Numbers DEF Keys, Window, Limit
  <1>1. /\ past \in Instants /\ Total(past) \in Nat /\ Total(past) <= Limit(key)
        /\ \A t \in Times : past[t] > 0 => t <= now
        /\ \A t \in Times : past[t] = IF t > now - Window(key) THEN row.requests[t] ELSE 0
        /\ Keeps(row.requests, past, now, Window(key))
        /\ And(past, now) \in Instants
        /\ Total(And(past, now)) <= Total(past) + 1
        /\ Total(And(past, now)) \in Nat
        /\ \A t \in Times : And(past, now)[t] > 0 => t <= now
        /\ And(past, now)[now] = row.requests[now] + 1
        /\ Keeps(row.requests, And(past, now), now, Window(key))
    BY <1>0, RollProper
  <1>2. /\ Total(past) < Limit(key) => untils = {}
        /\ ~(Total(past) < Limit(key)) =>
             \E m \in Times : untils = {m + StepUpWindow} /\ past[m] > 0
                              /\ m + StepUpWindow > now
    BY <1>0, Expiry, ProperFacts
  <1>3. /\ d.until = RetryAt(untils)
        /\ d.row = [requests |-> IF untils = {} THEN And(past, now) ELSE past,
                    mutations |-> None, blocked |-> Never, expires |-> now + StepUpWindow]
    BY <1>0 DEF ConsumeStepUp
  <1>4. None \in Instants /\ Total(None) = 0
    BY NoneTyped
  <1>. HIDE DEF past, untils, d
  <1>5. CASE Total(past) < Limit(key)
    <2>1. d.until = Allowed /\ d.row.requests = And(past, now)
      BY <1>2, <1>3, <1>5 DEF RetryAt
    <2>2. Proper(d.row, key, now)
      <3>1. d.row \in Row
        BY <1>0, <1>1, <1>3, <1>4, <2>1 DEF Row
      <3>2. Total(d.row.requests) <= Limit(key) /\ Total(d.row.mutations) <= MutationLimit
        BY <1>0, <1>1, <1>3, <1>4, <1>5, <2>1
      <3>3. ASSUME NEW t \in Times, d.row.requests[t] > 0
            PROVE  t <= now /\ t + Window(key) <= d.row.expires
        BY <1>0, <1>1, <1>3, <2>1, <3>3, Numbers
      <3>4. \A t \in Times : d.row.mutations[t] <= d.row.requests[t]
        <4>1. \A t \in Times : None[t] = 0 /\ d.row.requests[t] \in Nat
          BY <1>1, <2>1, InstantsAreNumbers DEF None
        <4>. QED  BY <1>3, <4>1
      <3>. QED  BY <3>1, <3>2, <3>3, <3>4 DEF Proper
    <2>3. d.row.requests[now] >= row.requests[now] + 1
      <3>1. row.requests[now] \in Nat
        BY <1>0, ProperFacts, InstantsAreNumbers
      <3>. QED  BY <1>1, <2>1, <3>1
    <2>. QED  BY <1>1, <2>1, <2>2, <2>3 DEF d
  <1>6. CASE ~(Total(past) < Limit(key))
    <2>1. PICK m \in Times : untils = {m + StepUpWindow} /\ past[m] > 0
                             /\ m + StepUpWindow > now
      BY <1>2, <1>6
    <2>2. m \in Nat /\ m + StepUpWindow \in Int
      BY <1>0, Numbers
    <2>3. d.until = m + StepUpWindow
      <3>1. Max({m + StepUpWindow, m + StepUpWindow}) = m + StepUpWindow
        BY <2>2, MaxOfTwo
      <3>2. {m + StepUpWindow, m + StepUpWindow} = untils
        BY <2>1
      <3>3. Max(untils) = m + StepUpWindow
        BY <3>1, <3>2
      <3>. QED  BY <1>3, <2>1, <3>3 DEF RetryAt
    <2>4. d.row.requests = past
      BY <1>3, <2>1
    <2>5. Proper(d.row, key, now)
      <3>1. d.row \in Row
        BY <1>0, <1>1, <1>3, <1>4, <2>4 DEF Row
      <3>2. Total(d.row.requests) <= Limit(key) /\ Total(d.row.mutations) <= MutationLimit
        BY <1>0, <1>1, <1>3, <1>4, <2>4
      <3>3. ASSUME NEW t \in Times, d.row.requests[t] > 0
            PROVE  t <= now /\ t + Window(key) <= d.row.expires
        BY <1>0, <1>1, <1>3, <2>4, <3>3, Numbers
      <3>4. \A t \in Times : d.row.mutations[t] <= d.row.requests[t]
        <4>1. \A t \in Times : None[t] = 0 /\ d.row.requests[t] \in Nat
          BY <1>1, <2>4, InstantsAreNumbers DEF None
        <4>. QED  BY <1>3, <4>1
      <3>. QED  BY <3>1, <3>2, <3>3, <3>4 DEF Proper
    <2>6. d.until \in Nat /\ d.until > now /\ d.until # Allowed
      BY <1>0, <2>1, <2>2, <2>3
    <2>7. ConsumeStepUp(d.row, d.until, Limit(key)).until = Allowed
      <3>1. ExpiresFirst(RollingTimes(past, d.until, StepUpWindow), Limit(key), StepUpWindow)
              = {}
        BY <1>0, <1>1, <2>1, <2>2, <2>3, <2>6, RoomAgain
      <3>. QED  BY <2>4, <3>1 DEF ConsumeStepUp, RetryAt
    <2>. QED  BY <1>1, <2>4, <2>5, <2>6, <2>7 DEF d
  <1>. QED  BY <1>5, <1>6

(* consumeFailedAuthentication.                                            *)
LEMMA FailureDecision ==
    ASSUME NEW now \in Times, NEW row, Proper(row, "source", now)
    PROVE  LET d == ConsumeFailure(row, now) IN
           /\ Proper(d.row, "source", now)
           /\ Keeps(row.requests, d.row.requests, now, FailureWindow)
           /\ d.until = Allowed => d.row.requests[now] >= row.requests[now] + 1
           /\ d.until \in Nat
           /\ d.until # Allowed => d.until > now /\ d.row.blocked = d.until
           /\ row.blocked > now => d.row = row
           /\ ~(row.blocked > now) => d.row.blocked \in {Never, now + Block}
  <1>. DEFINE past == RollingTimes(row.requests, now, FailureWindow)
              block == Total(past) + 1 >= FailureLimit
              d == ConsumeFailure(row, now)
  <1>0. "source" \in Keys /\ Window("source") = FailureWindow
        /\ Limit("source") = FailureLimit - 1
    BY DEF Keys, Window, Limit
  <1>1. FailureWindow \in Nat \ {0} /\ FailureLimit \in Nat \ {0} /\ Block \in Nat \ {0}
        /\ MutationLimit \in Nat /\ now \in Nat /\ FailureWindow <= Block
    BY Numbers
  <1>2. /\ past \in Instants /\ Total(past) \in Nat /\ Total(past) <= FailureLimit - 1
        /\ \A t \in Times : past[t] > 0 => t <= now
        /\ Keeps(row.requests, past, now, FailureWindow)
        /\ And(past, now) \in Instants
        /\ Total(And(past, now)) <= Total(past) + 1
        /\ Total(And(past, now)) \in Nat
        /\ \A t \in Times : And(past, now)[t] > 0 => t <= now
        /\ And(past, now)[now] = row.requests[now] + 1
        /\ Keeps(row.requests, And(past, now), now, FailureWindow)
    BY <1>0, RollProper
  <1>3. /\ row.requests \in Instants /\ row.blocked \in Nat
        /\ \A t \in Times : row.requests[t] \in Nat
    BY <1>0, ProperFacts, InstantsAreNumbers
  <1>4. None \in Instants /\ Total(None) = 0
    BY NoneTyped
  <1>5. CASE row.blocked > now
    <2>1. d.until = row.blocked /\ d.row = row
      BY <1>5 DEF ConsumeFailure, StillBlocked
    <2>2. Keeps(row.requests, row.requests, now, FailureWindow)
      BY <1>3 DEF Keeps
    <2>. QED  BY <1>1, <1>3, <1>5, <2>1, <2>2
  <1>6. CASE ~(row.blocked > now)
    <2>1. /\ d.until = IF block THEN now + Block ELSE 0
          /\ d.row = [requests |-> IF block THEN past ELSE And(past, now),
                      mutations |-> None, blocked |-> d.until,
                      expires |-> IF block THEN d.until ELSE now + FailureWindow]
      BY <1>6 DEF ConsumeFailure, StillBlocked
    <2>. HIDE DEF d, past
    <2>2. d.until \in Nat /\ (d.until # 0 => block /\ d.until > now)
      BY <1>1, <2>1
    <2>3. d.row \in Row
      BY <1>1, <1>2, <1>4, <2>1, <2>2 DEF Row
    <2>4. Total(d.row.requests) <= FailureLimit - 1
      BY <1>1, <1>2, <2>1
    <2>5. ASSUME NEW t \in Times, d.row.requests[t] > 0
          PROVE  t <= now /\ t + FailureWindow <= d.row.expires
      <3>1. t \in Nat /\ t <= now
        BY <1>2, <2>1, <2>5, Numbers
      <3>2. now + FailureWindow <= d.row.expires
        BY <1>1, <2>1
      <3>3. d.row.expires \in Nat
        BY <2>3 DEF Row
      <3>. QED  BY <1>1, <3>1, <3>2, <3>3
    <2>6. \A t \in Times : d.row.mutations[t] <= d.row.requests[t]
      <3>1. d.row.requests \in Instants /\ d.row.mutations = None
        BY <1>2, <2>1
      <3>2. \A t \in Times : None[t] = 0 /\ d.row.requests[t] \in Nat
        BY <3>1, InstantsAreNumbers DEF None
      <3>. QED  BY <3>1, <3>2
    <2>7. Total(d.row.mutations) <= MutationLimit
      BY <1>1, <1>4, <2>1
    <2>8. Proper(d.row, "source", now)
      BY <1>0, <2>3, <2>4, <2>5, <2>6, <2>7 DEF Proper
    <2>9. Keeps(row.requests, d.row.requests, now, FailureWindow)
      BY <1>2, <2>1
    <2>10. d.until = 0 => d.row.requests[now] >= row.requests[now] + 1
      BY <1>1, <1>2, <1>3, <2>1
    <2>11. d.row.blocked = d.until /\ d.until \in {0, now + Block}
      BY <2>1
    <2>. QED  BY <1>6, <2>2, <2>8, <2>9, <2>10, <2>11 DEF d
  <1>. QED  BY <1>5, <1>6

(* A row with room for a request, and for a mutation, admits both.         *)
LEMMA CredentialAdmits ==
    ASSUME NEW row, NEW now, NEW mutation \in BOOLEAN,
           ExpiresFirst(RollingTimes(row.requests, now, RequestWindow),
                        CredentialLimit, RequestWindow) = {},
           mutation => ExpiresFirst(RollingTimes(row.mutations, now, RequestWindow),
                                    MutationLimit, RequestWindow) = {}
    PROVE  ConsumeCredential(row, now, mutation).until = Allowed
  BY DEF ConsumeCredential, RetryAt

(* The time to retry is one of those at which a window has room again, and *)
(* the last of them.                                                       *)
LEMMA LastOfTwo ==
    ASSUME NEW a \in Int, NEW b \in Int
    PROVE  /\ RetryAt({a}) = a
           /\ RetryAt({a, b}) = IF a >= b THEN a ELSE b
  <1>1. Max({a, a}) = a /\ Max({a, b}) = IF a >= b THEN a ELSE b
    BY MaxOfTwo
  <1>2. {a, a} = {a} /\ {a} # {} /\ {a, b} # {}
    OBVIOUS
  <1>. QED  BY <1>1, <1>2 DEF RetryAt

(* consumeCredential.                                                      *)
LEMMA CredentialDecision ==
    ASSUME NEW now \in Times, NEW row, Proper(row, "credential", now), NEW mutation \in BOOLEAN
    PROVE  LET d == ConsumeCredential(row, now, mutation) IN
           /\ Proper(d.row, "credential", now)
           /\ Keeps(row.requests, d.row.requests, now, RequestWindow)
           /\ Keeps(row.mutations, d.row.mutations, now, RequestWindow)
           /\ d.until = Allowed => d.row.requests[now] >= row.requests[now] + 1
           /\ d.until = Allowed /\ mutation => d.row.mutations[now] >= row.mutations[now] + 1
           /\ d.until \in Nat
           /\ d.until # Allowed =>
                /\ d.until > now
                /\ ConsumeCredential(d.row, d.until, mutation).until = Allowed
  <1>. DEFINE past == RollingTimes(row.requests, now, RequestWindow)
              mutations == RollingTimes(row.mutations, now, RequestWindow)
              full == ~(Total(past) < CredentialLimit)
              mfull == mutation /\ ~(Total(mutations) < MutationLimit)
              a == ExpiresFirst(past, CredentialLimit, RequestWindow)
              b == ExpiresFirst(mutations, MutationLimit, RequestWindow)
              untils == a \cup IF mutation THEN b ELSE {}
              d == ConsumeCredential(row, now, mutation)
  <1>0. "credential" \in Keys /\ Window("credential") = RequestWindow
        /\ Limit("credential") = CredentialLimit
    BY DEF Keys, Window, Limit
  <1>1. RequestWindow \in Nat \ {0} /\ CredentialLimit \in Nat \ {0}
        /\ MutationLimit \in Nat \ {0} /\ now \in Nat
    BY Numbers
  <1>2. /\ past \in Instants /\ Total(past) \in Nat /\ Total(past) <= CredentialLimit
        /\ \A t \in Times : past[t] = IF t > now - RequestWindow THEN row.requests[t] ELSE 0
        /\ \A t \in Times : past[t] > 0 => t <= now
        /\ Keeps(row.requests, past, now, RequestWindow)
        /\ And(past, now) \in Instants
        /\ Total(And(past, now)) <= Total(past) + 1
        /\ Total(And(past, now)) \in Nat
        /\ \A t \in Times : And(past, now)[t] > 0 => t <= now
        /\ And(past, now)[now] = row.requests[now] + 1
        /\ Keeps(row.requests, And(past, now), now, RequestWindow)
        /\ \A t \in Times : past[t] <= And(past, now)[t]
    BY <1>0, RollProper
  <1>3. /\ row.requests \in Instants /\ row.mutations \in Instants
        /\ Total(row.mutations) <= MutationLimit /\ Total(row.mutations) \in Nat
        /\ \A t \in Times : row.mutations[t] <= row.requests[t]
    BY <1>0, ProperFacts, TotalTyped DEF Proper
  <1>4. /\ mutations \in Instants /\ Total(mutations) \in Nat
        /\ Total(mutations) <= Total(row.mutations)
        /\ \A t \in Times :
             mutations[t] = IF t > now - RequestWindow THEN row.mutations[t] ELSE 0
    BY <1>1, <1>3, Rolling
  <1>5. /\ And(mutations, now) \in Instants
        /\ Total(And(mutations, now)) <= Total(mutations) + 1
        /\ \A t \in Times :
             And(mutations, now)[t] = IF t = now THEN mutations[t] + 1 ELSE mutations[t]
    BY <1>4, OneMore
  <1>6. \A t \in Times : /\ past[t] \in Nat /\ mutations[t] \in Nat
                         /\ row.requests[t] \in Nat /\ row.mutations[t] \in Nat
                         /\ And(past, now)[t] = IF t = now THEN past[t] + 1 ELSE past[t]
    BY <1>2, <1>3, <1>4, InstantsAreNumbers, OneMore
  <1>7. \A t \in Times : mutations[t] <= past[t] /\ mutations[t] <= And(past, now)[t]
                         /\ And(mutations, now)[t] <= And(past, now)[t]
    BY <1>2, <1>3, <1>4, <1>5, <1>6
  <1>8. /\ ~full => a = {}
        /\ full => \E m \in Times : /\ a = {m + RequestWindow} /\ past[m] > 0
                                    /\ m + RequestWindow > now
    BY <1>1, <1>3, Expiry
  <1>9. /\ ~(Total(mutations) < MutationLimit) =>
             \E m \in Times : /\ b = {m + RequestWindow} /\ mutations[m] > 0
                              /\ m + RequestWindow > now
        /\ Total(mutations) < MutationLimit => b = {}
    BY <1>1, <1>3, Expiry
  <1>10. /\ d.until = RetryAt(untils)
         /\ d.row = [requests |-> IF Total(past) < CredentialLimit THEN And(past, now) ELSE past,
                     mutations |-> IF mutation /\ untils = {} THEN And(mutations, now)
                                   ELSE mutations,
                     blocked |-> Never, expires |-> now + RequestWindow]
    BY DEF ConsumeCredential
  <1>. HIDE DEF past, mutations, a, b, d
  <1>11. untils = {} <=> ~full /\ ~mfull
    BY <1>8, <1>9
  <1>. HIDE DEF untils
  <1>12. Proper(d.row, "credential", now)
    <2>1. d.row.requests \in Instants /\ Total(d.row.requests) <= CredentialLimit
      BY <1>1, <1>2, <1>10
    <2>2. d.row.mutations \in Instants /\ Total(d.row.mutations) <= MutationLimit
      <3>1. CASE mutation /\ untils = {}
        <4>1. Total(mutations) < MutationLimit
          BY <1>11, <3>1
        <4>2. Total(And(mutations, now)) \in Nat
          BY <1>5, TotalTyped
        <4>. QED  BY <1>1, <1>4, <1>5, <1>10, <3>1, <4>1, <4>2
      <3>2. CASE ~(mutation /\ untils = {})
        BY <1>1, <1>3, <1>4, <1>10, <3>2
      <3>. QED  BY <3>1, <3>2
    <2>3. d.row \in Row
      BY <1>1, <1>10, <2>1, <2>2 DEF Row
    <2>4. ASSUME NEW t \in Times, d.row.requests[t] > 0
          PROVE  t <= now /\ t + RequestWindow <= d.row.expires
      <3>1. t <= now
        BY <1>2, <1>10, <2>4
      <3>2. d.row.expires = now + RequestWindow
        BY <1>10
      <3>3. t \in Nat
        BY Numbers
      <3>. QED  BY <1>1, <3>1, <3>2, <3>3
    <2>5. \A t \in Times : d.row.mutations[t] <= d.row.requests[t]
      BY <1>7, <1>10, <1>11
    <2>. QED  BY <1>0, <2>1, <2>2, <2>3, <2>4, <2>5 DEF Proper
  <1>13. Keeps(row.requests, d.row.requests, now, RequestWindow)
    BY <1>2, <1>10
  <1>14. Keeps(row.mutations, d.row.mutations, now, RequestWindow)
    <2>1. \A t \in Times : t > now - RequestWindow =>
            row.mutations[t] <= mutations[t] /\ row.mutations[t] <= And(mutations, now)[t]
      BY <1>4, <1>5, <1>6
    <2>. QED  BY <1>10, <2>1 DEF Keeps
  <1>15. CASE ~full /\ ~mfull
    <2>1. d.until = Allowed /\ d.row.requests = And(past, now)
          /\ (mutation => d.row.mutations = And(mutations, now))
      BY <1>10, <1>11, <1>15 DEF RetryAt
    <2>2. d.row.requests[now] >= row.requests[now] + 1
      BY <1>2, <1>6, <2>1
    <2>3. mutation => d.row.mutations[now] >= row.mutations[now] + 1
      <3>1. mutations[now] = row.mutations[now]
        BY <1>1, <1>4
      <3>2. And(mutations, now)[now] = row.mutations[now] + 1
        BY <1>5, <3>1
      <3>. QED  BY <1>6, <2>1, <3>2
    <2>. QED  BY <1>12, <1>13, <1>14, <2>1, <2>2, <2>3 DEF d
  <1>16. ASSUME full \/ mfull
         PROVE  /\ d.until \in Nat /\ d.until > now
                /\ \E m \in Times : d.row.requests[m] > 0 /\ d.until >= m + RequestWindow
                /\ \/ ~mutation
                   \/ Total(mutations) < MutationLimit
                   \/ \E m \in Times : mutations[m] > 0 /\ d.until >= m + RequestWindow
    <2>1. \A m \in Times : m + RequestWindow \in Nat
      BY <1>1, Numbers
    <2>2. CASE full /\ ~mfull
      <3>1. PICK m \in Times : a = {m + RequestWindow} /\ past[m] > 0 /\ m + RequestWindow > now
        BY <1>8, <2>2
      <3>2. untils = {m + RequestWindow}
        BY <1>9, <2>2, <3>1 DEF untils
      <3>3. d.until = m + RequestWindow
        BY <1>10, <2>1, <3>2, LastOfTwo
      <3>4. d.row.requests = past
        BY <1>10, <2>2
      <3>. QED  BY <2>1, <2>2, <3>1, <3>3, <3>4
    <2>3. CASE ~full /\ mfull
      <3>1. PICK m \in Times : /\ b = {m + RequestWindow} /\ mutations[m] > 0
                               /\ m + RequestWindow > now
        BY <1>9, <2>3
      <3>2. untils = {m + RequestWindow}
        BY <1>8, <2>3, <3>1 DEF untils
      <3>3. d.until = m + RequestWindow
        BY <1>10, <2>1, <3>2, LastOfTwo
      <3>4. d.row.requests = And(past, now)
        BY <1>10, <2>3
      <3>5. And(past, now)[m] > 0
        BY <1>6, <1>7, <3>1
      <3>. QED  BY <2>1, <2>3, <3>1, <3>3, <3>4, <3>5
    <2>4. CASE full /\ mfull
      <3>1. PICK m \in Times : a = {m + RequestWindow} /\ past[m] > 0 /\ m + RequestWindow > now
        BY <1>8, <2>4
      <3>2. PICK n \in Times : /\ b = {n + RequestWindow} /\ mutations[n] > 0
                               /\ n + RequestWindow > now
        BY <1>9, <2>4
      <3>3. untils = {m + RequestWindow, n + RequestWindow}
        BY <2>4, <3>1, <3>2 DEF untils
      <3>4. d.until = IF m + RequestWindow >= n + RequestWindow THEN m + RequestWindow
                      ELSE n + RequestWindow
        <4>. DEFINE x == m + RequestWindow
                    y == n + RequestWindow
        <4>1. x \in Int /\ y \in Int
          BY <2>1
        <4>. HIDE DEF x, y
        <4>2. RetryAt({x, y}) = IF x >= y THEN x ELSE y
          BY <4>1, LastOfTwo
        <4>. QED  BY <1>10, <3>3, <4>2 DEF x, y
      <3>5. d.row.requests = past
        BY <1>10, <2>4
      <3>. QED  BY <2>1, <3>1, <3>2, <3>4, <3>5
    <2>. QED  BY <1>16, <2>2, <2>3, <2>4
  <1>17. CASE full \/ mfull
    <2>1. /\ d.until \in Nat /\ d.until > now
          /\ \E m \in Times : d.row.requests[m] > 0 /\ d.until >= m + RequestWindow
          /\ \/ ~mutation
             \/ Total(mutations) < MutationLimit
             \/ \E m \in Times : mutations[m] > 0 /\ d.until >= m + RequestWindow
      BY <1>16, <1>17
    <2>2. d.row.mutations = mutations
      BY <1>10, <1>11, <1>17
    <2>3. d.row.requests \in Instants /\ Total(d.row.requests) <= CredentialLimit
      BY <1>0, <1>12, ProperFacts DEF Proper
    <2>4. ExpiresFirst(RollingTimes(d.row.requests, d.until, RequestWindow),
                       CredentialLimit, RequestWindow) = {}
      BY <1>1, <2>1, <2>3, RoomAgain
    <2>5. mutation => ExpiresFirst(RollingTimes(d.row.mutations, d.until, RequestWindow),
                                   MutationLimit, RequestWindow) = {}
      <3>1. CASE Total(mutations) < MutationLimit
        <4>1. Total(RollingTimes(mutations, d.until, RequestWindow)) <= Total(mutations)
              /\ Total(RollingTimes(mutations, d.until, RequestWindow)) \in Nat
          BY <1>1, <1>4, <2>1, Rolling
        <4>2. Total(RollingTimes(mutations, d.until, RequestWindow)) < MutationLimit
          BY <1>1, <1>4, <3>1, <4>1
        <4>. QED  BY <2>2, <4>2 DEF ExpiresFirst
      <3>2. CASE \E m \in Times : mutations[m] > 0 /\ d.until >= m + RequestWindow
        <4>1. Total(mutations) <= MutationLimit
          BY <1>1, <1>3, <1>4
        <4>. QED  BY <1>1, <1>4, <2>1, <2>2, <3>2, <4>1, RoomAgain
      <3>. QED  BY <2>1, <3>1, <3>2
    <2>6. ConsumeCredential(d.row, d.until, mutation).until = Allowed
      BY <2>4, <2>5, CredentialAdmits
    <2>7. d.until # Allowed
      BY <1>1, <2>1
    <2>. QED  BY <1>12, <1>13, <1>14, <2>1, <2>6, <2>7 DEF d
  <1>. QED  BY <1>15, <1>17

-------------------------------------------------------------------------------
(* The rolling windows.  What was let through in a window is still in the  *)
(* row that counts it, and the row holds no more than the limit.           *)
RollingKinds == Kinds \ {"page"}

KeyOf(kind) ==
    CASE kind \in {"request", "mutation"} -> "credential"
      [] kind = "failure" -> "source"
      [] kind = "user" -> "user"
      [] kind = "stepUp" -> "stepUpSource"

LimitOf(kind) == IF kind = "mutation" THEN MutationLimit ELSE Limit(KeyOf(kind))

CountedIn(kind, row) == IF kind = "mutation" THEN row.mutations ELSE row.requests

Rows == \A key \in Keys : Proper(RowOf(key), key, clock)

Counted(kind) == CountedIn(kind, RowOf(KeyOf(kind)))

Covered ==
    \A kind \in RollingKinds :
      Keeps(served[kind], Counted(kind), clock, Window(KeyOf(kind)))

NoFuture == \A kind \in Kinds, t \in Times : t > clock => served[kind][t] = 0

Masked(times, t, window) ==
    Total([s \in Times |-> IF t - window < s /\ s <= t THEN times[s] ELSE 0])

Within ==
    \A kind \in RollingKinds, t \in Times :
      Masked(served[kind], t, Window(KeyOf(kind))) <= LimitOf(kind)

Rolls == Rows /\ Covered /\ NoFuture /\ Within

LEMMA KeysOfKinds ==
    /\ \A kind \in RollingKinds : KeyOf(kind) \in Keys /\ LimitOf(kind) \in Nat /\ kind \in Kinds
    /\ RollingKinds = {"request", "mutation", "failure", "user", "stepUp"}
  <1>1. RollingKinds = {"request", "mutation", "failure", "user", "stepUp"}
    BY DEF RollingKinds, Kinds
  <1>2. \A kind \in RollingKinds : KeyOf(kind) \in Keys /\ kind \in Kinds
    BY <1>1 DEF KeyOf, Keys, Kinds
  <1>. QED  BY <1>1, <1>2, LimitTyped, Numbers DEF LimitOf

LEMMA MaskTyped ==
    ASSUME NEW g \in Instants, NEW t \in Int, NEW w \in Int
    PROVE  /\ [s \in Times |-> IF t - w < s /\ s <= t THEN g[s] ELSE 0] \in Instants
           /\ Masked(g, t, w) \in Nat
  <1>1. [s \in Times |-> IF t - w < s /\ s <= t THEN g[s] ELSE 0] \in Instants
    BY DEF Instants
  <1>. QED  BY <1>1, TotalTyped DEF Masked

LEMMA MaskedTyped ==
    ASSUME NEW g \in Instants, NEW t \in Int, NEW w \in Int
    PROVE  Masked(g, t, w) \in Nat
  BY MaskTyped

(* A window that reaches the present, and one that ended before.           *)
LEMMA MaskedBelow ==
    ASSUME NEW g \in Instants, NEW f \in Instants, NEW t \in Int, NEW now \in Int, NEW w \in Int,
           t >= now, \A s \in Times : s > now => g[s] = 0, Keeps(g, f, now, w)
    PROVE  Masked(g, t, w) <= Total(f)
  <1>. DEFINE h == [s \in Times |-> IF t - w < s /\ s <= t THEN g[s] ELSE 0]
  <1>1. h \in Instants /\ \A s \in Times : h[s] = IF t - w < s /\ s <= t THEN g[s] ELSE 0
    BY MaskTyped
  <1>2. ASSUME NEW s \in Times PROVE h[s] <= f[s]
    <2>1. s \in Int /\ f[s] \in Nat /\ g[s] \in Nat
      BY Numbers, InstantsAreNumbers
    <2>2. s > now - w => g[s] <= f[s]
      BY DEF Keeps
    <2>3. CASE t - w < s /\ s <= t
      BY <1>1, <2>1, <2>2, <2>3
    <2>4. CASE ~(t - w < s /\ s <= t)
      BY <1>1, <2>1, <2>4
    <2>. QED  BY <2>3, <2>4
  <1>3. Total(h) <= Total(f)
    <2>. HIDE DEF h
    <2>. QED  BY <1>1, <1>2, TotalGrows
  <1>. QED  BY <1>3 DEF Masked

LEMMA MaskedSame ==
    ASSUME NEW g, NEW h, NEW t, NEW w, \A s \in Times : s <= t => g[s] = h[s]
    PROVE  Masked(g, t, w) = Masked(h, t, w)
  <1>1. [s \in Times |-> IF t - w < s /\ s <= t THEN g[s] ELSE 0]
          = [s \in Times |-> IF t - w < s /\ s <= t THEN h[s] ELSE 0]
    OBVIOUS
  <1>. QED  BY <1>1 DEF Masked

(* What a proper row counts.                                               *)
LEMMA CountedFacts ==
    ASSUME NEW kind \in RollingKinds, NEW now, NEW row, Proper(row, KeyOf(kind), now)
    PROVE  CountedIn(kind, row) \in Instants /\ Total(CountedIn(kind, row)) <= LimitOf(kind)
  BY KeysOfKinds, ProperFacts DEF Proper, CountedIn, LimitOf

RowsCount ==
    \A kind \in RollingKinds :
      Counted(kind) \in Instants /\ Total(Counted(kind)) <= LimitOf(kind)

LEMMA RowsCounted == (Rows => RowsCount) /\ (Rows' => RowsCount')
  <1>1. Rows => RowsCount
    <2>. SUFFICES ASSUME Rows, NEW kind \in RollingKinds
                  PROVE  Counted(kind) \in Instants /\ Total(Counted(kind)) <= LimitOf(kind)
      BY DEF RowsCount
    <2>1. Proper(RowOf(KeyOf(kind)), KeyOf(kind), clock)
      BY KeysOfKinds DEF Rows
    <2>. QED  BY <2>1, CountedFacts DEF Counted
  <1>. QED  BY <1>1, PTL

(* The limits hold after a step because the rows and the past do.          *)
LEMMA WithinStays ==
    ASSUME served \in [Kinds -> Instants], served' \in [Kinds -> Instants],
           clock \in Nat, Within, Rows', Covered', NoFuture',
           clock' = clock \/ (clock' = clock + 1 /\ served' = served),
           \A kind \in Kinds, s \in Times : s < clock => served'[kind][s] = served[kind][s]
    PROVE  Within'
  <1>1. RowsCount'
    BY RowsCounted
  <1>. SUFFICES ASSUME NEW kind \in RollingKinds, NEW t \in Times
                PROVE  Masked(served'[kind], t, Window(KeyOf(kind))) <= LimitOf(kind)
    BY DEF Within
  <1>. DEFINE w == Window(KeyOf(kind))
              f == Counted(kind)'
  <1>2. kind \in Kinds /\ KeyOf(kind) \in Keys /\ LimitOf(kind) \in Nat /\ w \in Nat /\ t \in Nat
    BY KeysOfKinds, WindowTyped, Numbers
  <1>3. served[kind] \in Instants /\ served'[kind] \in Instants /\ clock' \in Nat
    BY <1>2
  <1>4. CASE t >= clock'
    <2>1. \A s \in Times : s > clock' => served'[kind][s] = 0
      BY <1>2 DEF NoFuture
    <2>2. Keeps(served'[kind], f, clock', w)
      BY DEF Covered
    <2>3. f \in Instants /\ Total(f) <= LimitOf(kind)
      BY <1>1 DEF RowsCount
    <2>. HIDE DEF f, w
    <2>4. Masked(served'[kind], t, w) <= Total(f)
      BY <1>2, <1>3, <1>4, <2>1, <2>2, <2>3, MaskedBelow
    <2>5. Total(f) \in Nat
      BY <2>3, TotalTyped
    <2>6. Masked(served'[kind], t, w) \in Nat
      <3>1. t \in Int /\ w \in Int /\ served'[kind] \in Instants
        BY <1>2, <1>3
      <3>. QED  BY <3>1, MaskedTyped
    <2>. QED  BY <1>2, <2>3, <2>4, <2>5, <2>6 DEF w
  <1>5. CASE ~(t >= clock')
    <2>1. \A s \in Times : s <= t => served'[kind][s] = served[kind][s]
      BY <1>2, <1>3, <1>5, Numbers
    <2>2. Masked(served'[kind], t, w) = Masked(served[kind], t, w)
      BY <2>1, MaskedSame
    <2>. QED  BY <2>2 DEF Within
  <1>. QED  BY <1>4, <1>5

(* A request that is counted is counted in its row as well.                *)
LEMMA KeepsOneMore ==
    ASSUME NEW now \in Times, NEW w \in Nat \ {0}, NEW g \in Instants, NEW h \in Instants,
           NEW old \in Instants, NEW new \in Instants,
           Keeps(g, old, now, w), Keeps(old, new, now, w),
           \A t \in Times : t # now => h[t] = g[t],
           \/ h[now] = g[now]
           \/ h[now] = g[now] + 1 /\ new[now] >= old[now] + 1
    PROVE  Keeps(h, new, now, w)
  <1>. SUFFICES ASSUME NEW t \in Times, t > now - w
                PROVE  h[t] <= new[t]
    BY DEF Keeps
  <1>1. g[t] <= old[t] /\ old[t] <= new[t]
    BY DEF Keeps
  <1>2. g[t] \in Nat /\ h[t] \in Nat /\ old[t] \in Nat /\ new[t] \in Nat
    BY InstantsAreNumbers
  <1>3. CASE t # now
    BY <1>1, <1>2, <1>3
  <1>4. CASE t = now
    BY <1>1, <1>2, <1>4
  <1>. QED  BY <1>3, <1>4

(* A decision is written to its row, and what it let through is counted.   *)
LEMMA RowStep ==
    ASSUME TypeOK, Rolls, NEW key \in Keys, NEW r, Proper(r, key, clock),
           rows' = [rows EXCEPT ![key] = r], clock' = clock,
           served' \in [Kinds -> Instants],
           \A kind \in Kinds, t \in Times : t # clock => served'[kind][t] = served[kind][t],
           \A kind \in RollingKinds : KeyOf(kind) # key => served'[kind] = served[kind],
           \A kind \in RollingKinds : KeyOf(kind) = key =>
             /\ Keeps(Counted(kind), CountedIn(kind, r), clock, Window(key))
             /\ \/ served'[kind][clock] = served[kind][clock]
                \/ /\ served'[kind][clock] = served[kind][clock] + 1
                   /\ CountedIn(kind, r)[clock] >= Counted(kind)[clock] + 1
    PROVE  Rolls'
  <1>. USE DEF Rolls
  <1>1. clock \in Times /\ clock \in Nat /\ served \in [Kinds -> Instants]
        /\ DOMAIN rows = Keys
    BY Numbers DEF TypeOK
  <1>2. r \in Row /\ r # NoRow
    BY AbsenceAssumption DEF Proper
  <1>3. RowOf(key)' = r /\ \A k \in Keys \ {key} : RowOf(k)' = RowOf(k)
    BY <1>1, <1>2 DEF RowOf
  <1>4. Rows'
    <2>. SUFFICES ASSUME NEW k \in Keys
                  PROVE  Proper(RowOf(k)', k, clock')
      BY DEF Rows
    <2>1. CASE k = key
      BY <1>3, <2>1
    <2>2. CASE k # key
      BY <1>3, <2>2 DEF Rows
    <2>. QED  BY <2>1, <2>2
  <1>5. Covered'
    <2>. SUFFICES ASSUME NEW kind \in RollingKinds
                  PROVE  Keeps(served'[kind], Counted(kind)', clock', Window(KeyOf(kind)))
      BY DEF Covered
    <2>1. kind \in Kinds /\ KeyOf(kind) \in Keys /\ Window(KeyOf(kind)) \in Nat \ {0}
      BY KeysOfKinds, WindowTyped
    <2>2. Keeps(served[kind], Counted(kind), clock, Window(KeyOf(kind)))
      BY DEF Covered
    <2>3. CASE KeyOf(kind) # key
      <3>1. Counted(kind)' = Counted(kind)
        BY <1>3, <2>1, <2>3 DEF Counted, CountedIn
      <3>. QED  BY <2>2, <2>3, <3>1
    <2>4. CASE KeyOf(kind) = key
      <3>1. Counted(kind)' = CountedIn(kind, r)
        BY <1>3, <2>4 DEF Counted, CountedIn
      <3>2. CountedIn(kind, r) \in Instants
        BY <2>4, CountedFacts
      <3>3. Counted(kind) \in Instants
        BY RowsCounted DEF RowsCount
      <3>4. served[kind] \in Instants /\ served'[kind] \in Instants
        BY <1>1, <2>1
      <3>5. \A t \in Times : t # clock => served'[kind][t] = served[kind][t]
        BY <2>1
      <3>6. Keeps(served'[kind], CountedIn(kind, r), clock, Window(key))
        BY <1>1, <2>1, <2>2, <2>4, <3>2, <3>3, <3>4, <3>5, KeepsOneMore
      <3>. QED  BY <2>4, <3>1, <3>6
    <2>. QED  BY <2>3, <2>4
  <1>6. NoFuture'
    <2>1. \A t \in Times : t > clock => t # clock
      BY <1>1, Numbers
    <2>. QED  BY <1>1, <2>1 DEF NoFuture
  <1>7. \A kind \in Kinds, s \in Times : s < clock => served'[kind][s] = served[kind][s]
    <2>1. \A s \in Times : s < clock => s # clock
      BY <1>1, Numbers
    <2>. QED  BY <1>1, <2>1
  <1>8. Within'
    BY <1>1, <1>4, <1>5, <1>6, <1>7, WithinStays
  <1>. QED  BY <1>4, <1>5, <1>6, <1>8

(* The cleanup takes a row whose instants no window needs.                 *)
LEMMA CleanupRolls ==
    ASSUME TypeOK, Rolls, CleanupExpired
    PROVE  Rolls'
  <1>. USE DEF Rolls
  <1>1. clock \in Times /\ clock \in Nat /\ served \in [Kinds -> Instants]
        /\ clock' = clock /\ served' = served
    BY Numbers DEF TypeOK, CleanupExpired
  <1>2. \A k \in Keys : \/ RowOf(k)' = RowOf(k)
                        \/ /\ rows[k] # NoRow /\ rows[k].expires <= clock
                           /\ RowOf(k)' = [requests |-> None, mutations |-> None,
                                           blocked |-> Never, expires |-> clock]
    BY <1>1 DEF CleanupExpired, RowOf
  <1>3. ASSUME NEW k \in Keys, rows[k] # NoRow, rows[k].expires <= clock
        PROVE  \A t \in Times : t > clock - Window(k) =>
                 RowOf(k).requests[t] = 0 /\ RowOf(k).mutations[t] = 0
    <2>1. Proper(RowOf(k), k, clock) /\ RowOf(k) = rows[k]
      BY <1>3 DEF Rows, RowOf
    <2>2. RowOf(k).requests \in Instants /\ RowOf(k).mutations \in Instants
          /\ RowOf(k).expires \in Nat /\ Window(k) \in Nat
      BY <2>1, ProperFacts, WindowTyped
    <2>. SUFFICES ASSUME NEW t \in Times, t > clock - Window(k)
                  PROVE  RowOf(k).requests[t] = 0 /\ RowOf(k).mutations[t] = 0
      OBVIOUS
    <2>3. RowOf(k).requests[t] \in Nat /\ RowOf(k).mutations[t] \in Nat /\ t \in Nat
      BY <2>2, InstantsAreNumbers, Numbers
    <2>4. ~(t + Window(k) <= RowOf(k).expires)
      BY <1>1, <1>3, <2>1, <2>2, <2>3
    <2>5. ~(RowOf(k).requests[t] > 0) /\ RowOf(k).mutations[t] <= RowOf(k).requests[t]
      BY <2>1, <2>4 DEF Proper
    <2>. QED  BY <2>3, <2>5
  <1>4. \A k \in Keys : Proper([requests |-> None, mutations |-> None,
                                blocked |-> Never, expires |-> clock], k, clock)
    <2>1. \A t \in Times : None[t] = 0
      BY DEF None
    <2>2. Total(None) = 0 /\ None \in Instants
      BY NoneTyped
    <2>. QED  BY <1>1, <2>1, <2>2, LimitTyped, Numbers DEF Proper, Row
  <1>5. Rows'
    <2>. SUFFICES ASSUME NEW k \in Keys
                  PROVE  Proper(RowOf(k)', k, clock)
      BY <1>1 DEF Rows
    <2>. QED  BY <1>2, <1>4 DEF Rows
  <1>6. Covered'
    <2>. SUFFICES ASSUME NEW kind \in RollingKinds
                  PROVE  Keeps(served[kind], Counted(kind)', clock, Window(KeyOf(kind)))
      BY <1>1 DEF Covered
    <2>. DEFINE k == KeyOf(kind)
    <2>1. k \in Keys
      BY KeysOfKinds
    <2>2. Keeps(served[kind], Counted(kind), clock, Window(k))
      BY DEF Covered
    <2>3. CASE RowOf(k)' = RowOf(k)
      <3>1. Counted(kind)' = Counted(kind)
        BY <2>3 DEF Counted, CountedIn
      <3>. QED  BY <2>2, <3>1
    <2>4. CASE /\ rows[k] # NoRow /\ rows[k].expires <= clock
               /\ RowOf(k)' = [requests |-> None, mutations |-> None,
                               blocked |-> Never, expires |-> clock]
      <3>1. \A t \in Times : t > clock - Window(k) =>
              RowOf(k).requests[t] = 0 /\ RowOf(k).mutations[t] = 0
        BY <1>3, <2>1, <2>4
      <3>2. \A t \in Times : t > clock - Window(k) => Counted(kind)[t] = 0
        BY <3>1 DEF Counted, CountedIn
      <3>3. Counted(kind)' = None
        BY <2>4 DEF Counted, CountedIn
      <3>4. \A t \in Times : None[t] = 0
        BY DEF None
      <3>. QED  BY <2>2, <3>2, <3>3, <3>4 DEF Keeps
    <2>. QED  BY <1>2, <2>1, <2>3, <2>4
  <1>7. NoFuture'
    BY <1>1 DEF NoFuture
  <1>8. Within'
    BY <1>1, <1>5, <1>6, <1>7, WithinStays
  <1>. QED  BY <1>5, <1>6, <1>7, <1>8

(* Time passes, or something happens elsewhere.                            *)
LEMMA OtherRolls ==
    ASSUME TypeOK, Rolls, rows' = rows, served' \in [Kinds -> Instants],
           \A kind \in RollingKinds : served'[kind] = served[kind],
           \A t \in Times : t # clock => served'["page"][t] = served["page"][t],
           clock' = clock \/ (clock' = clock + 1 /\ clock' \in Times /\ served' = served)
    PROVE  Rolls'
  <1>. USE DEF Rolls
  <1>1. clock \in Times /\ clock \in Nat /\ clock' \in Nat /\ served \in [Kinds -> Instants]
        /\ clock <= clock'
    BY Numbers DEF TypeOK
  <1>2. \A k \in Keys : \/ RowOf(k)' = RowOf(k)
                        \/ /\ RowOf(k).requests = None /\ RowOf(k).mutations = None
                           /\ RowOf(k)' = [requests |-> None, mutations |-> None,
                                           blocked |-> Never, expires |-> clock']
    BY DEF RowOf
  <1>3. ASSUME NEW k \in Keys
        PROVE  Proper(RowOf(k)', k, clock')
    <2>1. Proper(RowOf(k), k, clock)
      BY DEF Rows
    <2>2. CASE RowOf(k)' = RowOf(k)
      BY <1>1, <2>1, <2>2, Numbers DEF Proper
    <2>3. CASE RowOf(k)' = [requests |-> None, mutations |-> None,
                            blocked |-> Never, expires |-> clock']
      <3>1. \A t \in Times : None[t] = 0
        BY DEF None
      <3>2. Total(None) = 0 /\ None \in Instants
        BY NoneTyped
      <3>. QED  BY <1>1, <2>3, <3>1, <3>2, LimitTyped, Numbers DEF Proper, Row
    <2>. QED  BY <1>2, <2>2, <2>3
  <1>4. Rows'
    BY <1>3 DEF Rows
  <1>5. Covered'
    <2>. SUFFICES ASSUME NEW kind \in RollingKinds
                  PROVE  Keeps(served[kind], Counted(kind)', clock', Window(KeyOf(kind)))
      BY DEF Covered
    <2>1. KeyOf(kind) \in Keys /\ Window(KeyOf(kind)) \in Nat
      BY KeysOfKinds, WindowTyped
    <2>2. Keeps(served[kind], Counted(kind), clock, Window(KeyOf(kind)))
      BY DEF Covered
    <2>3. Counted(kind)' = Counted(kind)
      BY <1>2, <2>1 DEF Counted, CountedIn
    <2>4. \A t \in Times : t > clock' - Window(KeyOf(kind)) => t > clock - Window(KeyOf(kind))
      BY <1>1, <2>1, Numbers
    <2>. QED  BY <2>2, <2>3, <2>4 DEF Keeps
  <1>6. \A kind \in Kinds, t \in Times : t # clock => served'[kind][t] = served[kind][t]
    BY DEF RollingKinds
  <1>7. NoFuture'
    <2>1. \A t \in Times : t > clock' => t > clock /\ t # clock
      BY <1>1, Numbers
    <2>. QED  BY <1>6, <2>1 DEF NoFuture
  <1>8. \A kind \in Kinds, t \in Times : t < clock => served'[kind][t] = served[kind][t]
    <2>1. \A t \in Times : t < clock => t # clock
      BY <1>1, Numbers
    <2>. QED  BY <1>6, <2>1
  <1>9. Within'
    BY <1>1, <1>4, <1>5, <1>7, <1>8, WithinStays
  <1>. QED  BY <1>4, <1>5, <1>7, <1>9

-------------------------------------------------------------------------------
(* Blocks.  While one lasts it is the one in the row of the source.        *)
Blocked ==
    /\ BlockHolds
    /\ \A w \in Workers : work[w].pc = "authenticate" => work[w].asked <= clock
    /\ \A b \in blocks : /\ b.from <= clock
                         /\ b.until > clock => RowOf("source").blocked = b.until

(* What a request that is open knows.                                      *)
LEMMA WorkTyped ==
    ASSUME TypeOK, NEW w \in Workers
    PROVE  /\ work[w].pc = "authenticate" => work[w].asked \in Times
           /\ work[w].pc = "credential" => work[w].mutation \in BOOLEAN
           /\ work[w].pc = "page" => work[w].now \in Times /\ work[w].keys \in SUBSET PageKeys
  <1>1. work[w] \in Request \cup {Idle}
    BY DEF TypeOK
  <1>2. CASE work[w] = Idle
    BY <1>2 DEF Idle
  <1>3. CASE work[w] \in [pc : {"authenticate"}, asked : Times]
    BY <1>3
  <1>4. CASE work[w] \in [pc : {"credential"}, mutation : BOOLEAN, found : BOOLEAN]
    BY <1>4
  <1>5. CASE work[w] \in [pc : {"source", "user", "stepUpSource"}, found : BOOLEAN]
    BY <1>5
  <1>6. CASE work[w] \in [pc : {"page"}, now : Times, keys : SUBSET PageKeys]
    BY <1>6
  <1>7. CASE work[w] \in [pc : {"limited"}, keys : SUBSET (Keys \cup PageKeys),
                          mutation : BOOLEAN, until : Nat]
    BY <1>7
  <1>. QED  BY <1>1, <1>2, <1>3, <1>4, <1>5, <1>6, <1>7 DEF Request

(* A request that asks while nothing blocks it, and all others, leave it   *)
(* so, unless they write the row of the source.                            *)
LEMMA BlockStep ==
    ASSUME TypeOK, Blocked, blocks' = blocks, clock' \in Nat, clock <= clock',
           RowOf("source")'.blocked = RowOf("source").blocked
             \/ RowOf("source").blocked <= clock,
           \A w \in Workers : work'[w].pc = "authenticate" =>
             \/ work'[w] = work[w]
             \/ work'[w].asked = clock /\ RowOf("source").blocked <= clock
    PROVE  Blocked'
  <1>1. clock \in Nat /\ \A b \in blocks : b.from \in Nat /\ b.until \in Nat
    BY Numbers DEF TypeOK
  <1>2. ASSUME NEW b \in blocks
        PROVE  b.from <= clock' /\ (b.until > clock' => RowOf("source")'.blocked = b.until)
    BY <1>1, <1>2 DEF Blocked
  <1>3. ASSUME NEW w \in Workers, NEW b \in blocks, work'[w].pc = "authenticate"
        PROVE  ~(b.from < work'[w].asked /\ work'[w].asked < b.until)
    <2>1. CASE work'[w] = work[w]
      BY <1>3, <2>1 DEF Blocked, BlockHolds
    <2>2. CASE work'[w].asked = clock /\ RowOf("source").blocked <= clock
      BY <1>1, <2>2 DEF Blocked
    <2>. QED  BY <1>3, <2>1, <2>2
  <1>4. ASSUME NEW w \in Workers, work'[w].pc = "authenticate"
        PROVE  work'[w].asked <= clock'
    <2>1. CASE work'[w] = work[w]
      <3>1. work[w].asked <= clock
        BY <1>4, <2>1 DEF Blocked
      <3>2. work[w].asked \in Nat
        BY <1>4, <2>1, Numbers, WorkTyped
      <3>. QED  BY <1>1, <2>1, <3>1, <3>2
    <2>2. CASE work'[w].asked = clock
      BY <1>1, <2>2
    <2>. QED  BY <1>4, <2>1, <2>2
  <1>. QED  BY <1>2, <1>3, <1>4 DEF Blocked, BlockHolds

(* A failure that begins a block finds no other.                           *)
LEMMA BlockBegins ==
    ASSUME TypeOK, Blocked, NEW row, RowOf("source").blocked \in Nat, clock' = clock,
           RowOf("source")' = row,
           RowOf("source").blocked > clock => row = RowOf("source"),
           ~(RowOf("source").blocked > clock) => row.blocked \in {Never, clock + Block},
           blocks' = IF row.blocked \in {RowOf("source").blocked, Never} THEN blocks
                     ELSE blocks \cup {[from |-> clock, until |-> clock + Block]},
           \A w \in Workers : work'[w].pc = "authenticate" => work'[w] = work[w]
    PROVE  Blocked' /\ blocks' \subseteq [from : Times, until : Nat]
  <1>1. clock \in Nat /\ clock \in Times /\ Block \in Nat \ {0}
        /\ \A b \in blocks : b.from \in Nat /\ b.until \in Nat
    BY Numbers DEF TypeOK
  <1>2. blocks \subseteq [from : Times, until : Nat]
    BY DEF TypeOK
  <1>3. CASE row.blocked \in {RowOf("source").blocked, Never}
    <2>1. blocks' = blocks
      BY <1>3
    <2>2. RowOf("source")'.blocked = RowOf("source").blocked
            \/ RowOf("source").blocked <= clock
      BY <1>1, <1>3
    <2>3. Blocked'
      BY <1>1, <2>1, <2>2, BlockStep
    <2>. QED  BY <1>2, <2>1, <2>3
  <1>4. CASE row.blocked \notin {RowOf("source").blocked, Never}
    <2>. DEFINE new == [from |-> clock, until |-> clock + Block]
    <2>1. blocks' = blocks \cup {new} /\ row.blocked = clock + Block
          /\ ~(RowOf("source").blocked > clock)
      BY <1>4
    <2>2. \A b \in blocks : b.until <= clock /\ b.from <= clock
      BY <1>1, <2>1 DEF Blocked
    <2>3. new.from = clock /\ new.until = clock + Block /\ new \in [from : Times, until : Nat]
      BY <1>1
    <2>. HIDE DEF new
    <2>4. \A b, c \in blocks' : b = c \/ b.until <= c.from \/ c.until <= b.from
      BY <2>1, <2>2, <2>3 DEF Blocked, BlockHolds
    <2>5. ASSUME NEW w \in Workers, work'[w].pc = "authenticate"
          PROVE  /\ work'[w].asked <= clock
                 /\ \A b \in blocks' : ~(b.from < work'[w].asked /\ work'[w].asked < b.until)
      <3>1. work'[w] = work[w] /\ work[w].asked <= clock
        BY <2>5 DEF Blocked
      <3>2. work[w].asked \in Nat
        BY <2>5, <3>1, Numbers, WorkTyped
      <3>3. \A b \in blocks : ~(b.from < work[w].asked /\ work[w].asked < b.until)
        BY <2>5, <3>1 DEF Blocked, BlockHolds
      <3>4. ~(new.from < work[w].asked)
        BY <1>1, <2>3, <3>1, <3>2
      <3>. QED  BY <2>1, <3>1, <3>3, <3>4
    <2>6. \A b \in blocks' : b.from <= clock /\ (b.until > clock => row.blocked = b.until)
      <3>1. new.from <= clock /\ row.blocked = new.until
        BY <1>1, <2>1, <2>3
      <3>2. \A b \in blocks : b.from <= clock /\ ~(b.until > clock)
        BY <1>1, <2>2
      <3>. QED  BY <2>1, <3>1, <3>2
    <2>7. Blocked'
      BY <2>4, <2>5, <2>6 DEF Blocked, BlockHolds
    <2>. QED  BY <1>2, <2>1, <2>3, <2>7
  <1>. QED  BY <1>3, <1>4

-------------------------------------------------------------------------------
(* The pages.  Whatever window a row is in, what was let through is what   *)
(* was let through before the window began and what its row counts; each   *)
(* is no more than the limit.                                              *)
Span == AuthWindow - MaxDelay

Spent(row, g, now) ==
    IF row = NoRow THEN Masked(g, now, Span) <= AuthLimit
    ELSE \E began \in Times, old \in Instants, new \in Instants :
           /\ began <= now /\ began + Span <= row.expires
           /\ \A t \in Times : /\ g[t] <= old[t] + new[t]
                               /\ t > began => old[t] = 0
           /\ Masked(old, began, Span) <= AuthLimit
           /\ Total(new) <= AuthLimit /\ Total(new) <= row.count

Paged ==
    /\ \A w \in Workers : work[w].pc = "page" =>
         work[w].now <= clock /\ clock <= work[w].now + MaxDelay /\ "ip" \in work[w].keys
    /\ \A key \in PageKeys : pages[key] # NoRow =>
         pages[key].expires <= clock + AuthWindow /\ pages[key].blocked <= clock + AuthWindow
    /\ Spent(pages["ip"], served["page"], clock)
    /\ PagesWithinTwo

LEMMA SpanTyped == Span \in Nat \ {0} /\ AuthLimit \in Nat \ {0} /\ AuthWindow \in Nat
  <1>1. AuthWindow \in Nat /\ MaxDelay \in Nat /\ MaxDelay < AuthWindow
    BY Numbers
  <1>. QED  BY <1>1, Numbers DEF Span

(* Later, a window sees no more.                                           *)
LEMMA MaskedLater ==
    ASSUME NEW g \in Instants, NEW t \in Int, NEW now \in Int, NEW w \in Int,
           t >= now, \A s \in Times : s > now => g[s] = 0
    PROVE  Masked(g, t, w) <= Masked(g, now, w)
  <1>. DEFINE f == [s \in Times |-> IF now - w < s /\ s <= now THEN g[s] ELSE 0]
  <1>1. f \in Instants
    BY MaskTyped
  <1>2. ASSUME NEW s \in Times, s > now - w
        PROVE  g[s] <= f[s]
    <2>1. s \in Int /\ g[s] \in Nat /\ f[s] = IF now - w < s /\ s <= now THEN g[s] ELSE 0
      BY Numbers, InstantsAreNumbers
    <2>2. CASE s <= now
      BY <1>2, <2>1, <2>2
    <2>3. CASE ~(s <= now)
      BY <1>2, <2>1, <2>3
    <2>. QED  BY <2>2, <2>3
  <1>3. Masked(g, now, w) = Total(f)
    BY DEF Masked
  <1>4. Keeps(g, f, now, w)
    BY <1>2 DEF Keeps
  <1>. HIDE DEF f
  <1>. QED  BY <1>1, <1>3, <1>4, MaskedBelow

LEMMA TotalOfTwo ==
    ASSUME NEW a \in Instants, NEW f \in Instants, NEW g \in Instants,
           \A t \in Times : g[t] <= a[t] + f[t]
    PROVE  Total(g) <= Total(a) + Total(f)
  <1>1. IsFiniteSet(Times) /\ a \in [Times -> Int] /\ f \in [Times -> Int] /\ g \in [Times -> Int]
    BY Numbers, InstantsAreNumbers
  <1>2. SumOf(g, Times) <= SumOf(a, Times) + SumOf(f, Times)
    BY <1>1, SumOfTwo
  <1>. QED  BY <1>2, TotalIsSum

(* When the window of a row is over, what it counted is all there was in   *)
(* the time that matters.                                                  *)
LEMMA SpentEnded ==
    ASSUME NEW row \in PageRow \cup {NoRow}, NEW g \in Instants, NEW now \in Nat,
           \A s \in Times : s > now => g[s] = 0,
           Spent(row, g, now), row = NoRow \/ row.expires <= now
    PROVE  Masked(g, now, Span) <= AuthLimit
  <1>1. CASE row = NoRow
    BY <1>1 DEF Spent
  <1>2. CASE row # NoRow
    <2>1. PICK began \in Times, old \in Instants, new \in Instants :
            /\ began + Span <= row.expires
            /\ \A t \in Times : /\ g[t] <= old[t] + new[t]
                                /\ t > began => old[t] = 0
            /\ Total(new) <= AuthLimit
      BY <1>2 DEF Spent
    <2>2. row.expires \in Nat /\ row.expires <= now
      BY <1>2 DEF PageRow
    <2>3. Span \in Nat /\ began \in Nat /\ AuthLimit \in Nat
      BY SpanTyped, Numbers
    <2>4. ASSUME NEW s \in Times, s > now - Span
          PROVE  g[s] <= new[s]
      <3>1. s \in Nat /\ g[s] \in Nat /\ old[s] \in Nat /\ new[s] \in Nat
        BY Numbers, InstantsAreNumbers
      <3>2. s > began
        BY <2>1, <2>2, <2>3, <2>4, <3>1
      <3>. QED  BY <2>1, <3>1, <3>2
    <2>5. Keeps(g, new, now, Span)
      BY <2>4 DEF Keeps
    <2>6. Masked(g, now, Span) <= Total(new)
      <3>1. now \in Int /\ Span \in Int /\ now >= now
        BY <2>3
      <3>. QED  BY <2>5, <3>1, MaskedBelow
    <2>7. Masked(g, now, Span) \in Nat /\ Total(new) \in Nat
      <3>1. now \in Int /\ Span \in Int
        BY <2>3
      <3>. QED  BY <3>1, MaskedTyped, TotalTyped
    <2>. QED  BY <2>1, <2>3, <2>6, <2>7
  <1>. QED  BY <1>1, <1>2

(* A window that reaches the present sees two limits' worth at most.       *)
LEMMA SpentBound ==
    ASSUME NEW row, NEW g \in Instants, NEW now \in Nat,
           \A s \in Times : s > now => g[s] = 0,
           Spent(row, g, now), NEW t \in Nat, t >= now
    PROVE  Masked(g, t, Span) <= 2 * AuthLimit
  <1>1. Span \in Nat /\ AuthLimit \in Nat /\ t \in Int /\ now \in Int /\ Span \in Int
    BY SpanTyped
  <1>2. Masked(g, t, Span) \in Nat /\ Masked(g, now, Span) \in Nat
    BY <1>1, MaskedTyped
  <1>3. CASE row = NoRow
    <2>1. Masked(g, now, Span) <= AuthLimit
      BY <1>3 DEF Spent
    <2>2. Masked(g, t, Span) <= Masked(g, now, Span)
      BY <1>1, MaskedLater
    <2>. QED  BY <1>1, <1>2, <2>1, <2>2
  <1>4. CASE row # NoRow
    <2>1. PICK began \in Times, old \in Instants, new \in Instants :
            /\ began <= now
            /\ \A s \in Times : /\ g[s] <= old[s] + new[s]
                                /\ s > began => old[s] = 0
            /\ Masked(old, began, Span) <= AuthLimit
            /\ Total(new) <= AuthLimit
      BY <1>4 DEF Spent
    <2>. DEFINE h == [s \in Times |-> IF t - Span < s /\ s <= t THEN g[s] ELSE 0]
                a == [s \in Times |-> IF began - Span < s /\ s <= began THEN old[s] ELSE 0]
    <2>2. began \in Nat /\ began \in Int
      BY Numbers
    <2>3. h \in Instants /\ a \in Instants
      BY <1>1, <2>2, MaskTyped
    <2>4. Masked(g, t, Span) = Total(h) /\ Masked(old, began, Span) = Total(a)
      BY DEF Masked
    <2>5. ASSUME NEW s \in Times
          PROVE  h[s] <= a[s] + new[s]
      <3>1. s \in Nat /\ g[s] \in Nat /\ old[s] \in Nat /\ new[s] \in Nat
        BY Numbers, InstantsAreNumbers
      <3>2. /\ h[s] = IF t - Span < s /\ s <= t THEN g[s] ELSE 0
            /\ a[s] = IF began - Span < s /\ s <= began THEN old[s] ELSE 0
        OBVIOUS
      <3>. HIDE DEF h, a
      <3>3. g[s] <= old[s] + new[s] /\ (s > began => old[s] = 0)
        BY <2>1
      <3>4. CASE t - Span < s /\ s <= began
        BY <1>1, <2>1, <2>2, <3>1, <3>2, <3>3, <3>4
      <3>5. CASE t - Span < s /\ s > began
        BY <1>1, <2>1, <2>2, <3>1, <3>2, <3>3, <3>5
      <3>6. CASE ~(t - Span < s)
        BY <1>1, <2>1, <2>2, <3>1, <3>2, <3>3, <3>6
      <3>. QED  BY <1>1, <2>2, <3>1, <3>4, <3>5, <3>6
    <2>. HIDE DEF h, a
    <2>6. Total(h) <= Total(a) + Total(new)
      BY <2>3, <2>5, TotalOfTwo
    <2>7. Total(h) \in Nat /\ Total(a) \in Nat /\ Total(new) \in Nat
      BY <2>3, TotalTyped
    <2>. QED  BY <1>1, <2>1, <2>4, <2>6, <2>7
  <1>. QED  BY <1>3, <1>4

(* Time passes.                                                            *)
LEMMA SpentLater ==
    ASSUME NEW row, NEW g \in Instants, NEW now \in Nat, NEW later \in Nat, later >= now,
           \A s \in Times : s > now => g[s] = 0, Spent(row, g, now)
    PROVE  Spent(row, g, later)
  <1>1. Span \in Nat /\ AuthLimit \in Nat /\ later \in Int /\ now \in Int /\ Span \in Int
    BY SpanTyped
  <1>2. CASE row = NoRow
    <2>1. Masked(g, now, Span) <= AuthLimit
      BY <1>2 DEF Spent
    <2>2. Masked(g, later, Span) <= Masked(g, now, Span)
      BY <1>1, MaskedLater
    <2>3. Masked(g, later, Span) \in Nat /\ Masked(g, now, Span) \in Nat
      BY <1>1, MaskedTyped
    <2>4. Masked(g, later, Span) <= AuthLimit
      BY <1>1, <2>1, <2>2, <2>3
    <2>. QED  BY <1>2, <2>4 DEF Spent
  <1>3. CASE row # NoRow
    <2>1. PICK began \in Times, old \in Instants, new \in Instants :
           /\ began <= now /\ began + Span <= row.expires
           /\ \A t \in Times : /\ g[t] <= old[t] + new[t]
                               /\ t > began => old[t] = 0
           /\ Masked(old, began, Span) <= AuthLimit
           /\ Total(new) <= AuthLimit /\ Total(new) <= row.count
      BY <1>3 DEF Spent
    <2>2. began <= later
      BY <1>1, <2>1, Numbers
    <2>. QED  BY <1>3, <2>1, <2>2 DEF Spent
  <1>. QED  BY <1>2, <1>3

(* A request of a page and its row (consumeRateLimit): in a new window,    *)
(* and in the one there is.                                                *)
LEMMA SpentPage ==
    ASSUME NEW row \in PageRow \cup {NoRow}, NEW g \in Instants, NEW h \in Instants,
           NEW now \in Nat, NEW late \in Times, now <= late, late <= now + MaxDelay,
           \A s \in Times : s > late => g[s] = 0,
           Spent(row, g, late),
           \A s \in Times : s # late => h[s] = g[s],
           h[late] = g[late] \/ (h[late] = g[late] + 1 /\ ConsumePage(row, now).blocked <= now)
    PROVE  Spent(ConsumePage(row, now), h, late) /\ ConsumePage(row, now) \in PageRow
  <1>. DEFINE new == ConsumePage(row, now)
  <1>1. Span \in Nat /\ AuthLimit \in Nat \ {0} /\ late \in Nat /\ AuthWindow \in Nat \ {0}
        /\ MaxDelay \in Nat /\ Span = AuthWindow - MaxDelay
    BY SpanTyped, Numbers DEF Span
  <1>2. new \in PageRow
    <2>1. CASE row = NoRow
      BY <1>1, <2>1 DEF ConsumePage, PageRow
    <2>2. CASE row # NoRow
      BY <1>1, <2>2 DEF ConsumePage, PageRow
    <2>. QED  BY <2>1, <2>2
  <1>3. new # NoRow
    BY <1>2, AbsenceAssumption
  <1>4. \A s \in Times : g[s] \in Nat /\ h[s] \in Nat
    BY InstantsAreNumbers
  <1>5. CASE row = NoRow \/ row.expires <= now
    <2>1. new.count = 1 /\ new.expires = now + AuthWindow
      BY <1>5 DEF ConsumePage, WindowOver
    <2>. HIDE DEF new
    <2>2. Masked(g, late, Span) <= AuthLimit
      <3>1. row = NoRow \/ row.expires <= late
        <4>1. CASE row = NoRow
          BY <4>1
        <4>2. CASE row # NoRow
          <5>1. row.expires \in Nat
            BY <4>2 DEF PageRow
          <5>. QED  BY <1>1, <1>5, <4>2, <5>1
        <4>. QED  BY <4>1, <4>2
      <3>. QED  BY <1>1, <3>1, SpentEnded
    <2>. DEFINE one == And(None, late)
    <2>3. one \in Instants /\ Total(one) <= 1
          /\ \A t \in Times : one[t] = IF t = late THEN None[t] + 1 ELSE None[t]
      BY NoneTyped, OneMore
    <2>4. \A t \in Times : one[t] = IF t = late THEN 1 ELSE 0
      BY <2>3 DEF None
    <2>. HIDE DEF one
    <2>5. \A t \in Times : h[t] <= g[t] + one[t]
      BY <1>4, <2>4
    <2>6. \A t \in Times : t > late => g[t] = 0
      OBVIOUS
    <2>7. late + Span <= new.expires
      BY <1>1, <2>1
    <2>8. Total(one) <= AuthLimit /\ Total(one) <= new.count
      BY <1>1, <2>1, <2>3, TotalTyped
    <2>9. late <= late
      BY <1>1
    <2>10. Spent(new, h, late)
      BY <1>3, <2>2, <2>3, <2>5, <2>6, <2>7, <2>8, <2>9 DEF Spent
    <2>. QED  BY <1>2, <2>10 DEF new
  <1>6. CASE row # NoRow /\ ~(row.expires <= now)
    <2>1. row.count \in Nat /\ row.expires \in Nat /\ row.blocked \in Nat
      BY <1>6 DEF PageRow
    <2>2. new.count = row.count + 1 /\ new.expires = row.expires
      BY <1>6 DEF ConsumePage, WindowOver
    <2>3. new.blocked <= now => row.count + 1 <= AuthLimit
      <3>1. new.blocked = IF row.blocked > now THEN row.blocked
                          ELSE IF row.count + 1 > AuthLimit THEN now + AuthWindow ELSE 0
        BY <1>6 DEF ConsumePage, WindowOver, TooMany
      <3>. HIDE DEF new
      <3>. QED  BY <1>1, <2>1, <3>1
    <2>. HIDE DEF new
    <2>4. PICK began \in Times, old \in Instants, f \in Instants :
           /\ began <= late /\ began + Span <= row.expires
           /\ \A t \in Times : /\ g[t] <= old[t] + f[t]
                               /\ t > began => old[t] = 0
           /\ Masked(old, began, Span) <= AuthLimit
           /\ Total(f) <= AuthLimit /\ Total(f) <= row.count
      BY <1>6 DEF Spent
    <2>5. CASE h[late] = g[late]
      <3>1. \A t \in Times : h[t] <= old[t] + f[t]
        BY <2>4, <2>5
      <3>2. Total(f) <= new.count
        BY <2>1, <2>2, <2>4, TotalTyped
      <3>3. Spent(new, h, late)
        BY <1>3, <2>2, <2>4, <3>1, <3>2 DEF Spent
      <3>. QED  BY <1>2, <3>3 DEF new
    <2>6. CASE h[late] = g[late] + 1 /\ new.blocked <= now
      <3>. DEFINE more == And(f, late)
      <3>1. more \in Instants /\ Total(more) <= Total(f) + 1
            /\ \A t \in Times : more[t] = IF t = late THEN f[t] + 1 ELSE f[t]
        BY OneMore
      <3>. HIDE DEF more
      <3>2. ASSUME NEW t \in Times
            PROVE  h[t] <= old[t] + more[t]
        <4>1. old[t] \in Nat /\ f[t] \in Nat /\ g[t] \in Nat /\ h[t] \in Nat
          BY InstantsAreNumbers
        <4>2. g[t] <= old[t] + f[t]
          BY <2>4
        <4>3. CASE t = late
          BY <2>6, <3>1, <4>1, <4>2, <4>3
        <4>4. CASE t # late
          BY <3>1, <4>1, <4>2, <4>4
        <4>. QED  BY <4>3, <4>4
      <3>3. Total(more) <= AuthLimit /\ Total(more) <= new.count
        <4>1. Total(more) \in Nat /\ Total(f) \in Nat
          BY <3>1, TotalTyped
        <4>. QED  BY <1>1, <2>1, <2>2, <2>3, <2>4, <2>6, <3>1, <4>1
      <3>4. Spent(new, h, late)
        BY <1>3, <2>2, <2>4, <3>1, <3>2, <3>3 DEF Spent
      <3>. QED  BY <1>2, <3>4 DEF new
    <2>. QED  BY <2>5, <2>6 DEF new
  <1>. QED  BY <1>5, <1>6

-------------------------------------------------------------------------------
(* The steps.                                                              *)
RInv == TypeOK /\ Rolls /\ Blocked /\ Paged

LEMMA KeyFacts ==
    /\ KeyOf("request") = "credential" /\ KeyOf("mutation") = "credential"
    /\ KeyOf("failure") = "source" /\ KeyOf("user") = "user" /\ KeyOf("stepUp") = "stepUpSource"
    /\ Window("credential") = RequestWindow /\ Window("source") = FailureWindow
    /\ Window("user") = StepUpWindow /\ Window("stepUpSource") = StepUpWindow
    /\ {"credential", "source", "user", "stepUpSource"} \subseteq Keys
    /\ "page" \in Kinds
  BY DEF KeyOf, Window, Keys, Kinds

(* The one who is at work, and the others.                                 *)
LEMMA WorkSet ==
    ASSUME TypeOK, NEW w \in Workers, NEW r \in Request \cup {Idle},
           work' = [work EXCEPT ![w] = r]
    PROVE  /\ work' \in [Workers -> Request \cup {Idle}]
           /\ work'[w] = r
           /\ \A v \in Workers : v # w => work'[v] = work[v]
  BY DEF TypeOK

(* What is let through is counted now.                                     *)
LEMMA Counts ==
    ASSUME TypeOK, NEW kinds \in SUBSET Kinds, Count(kinds)
    PROVE  /\ served' \in [Kinds -> Instants]
           /\ \A kind \in Kinds, t \in Times : t # clock => served'[kind][t] = served[kind][t]
           /\ \A kind \in Kinds \ kinds : served'[kind] = served[kind]
           /\ \A kind \in kinds : served'[kind][clock] = served[kind][clock] + 1
  <1>1. served \in [Kinds -> Instants] /\ clock \in Times
    BY DEF TypeOK
  <1>2. ASSUME NEW kind \in Kinds
        PROVE  /\ served'[kind] = IF kind \in kinds THEN [served[kind] EXCEPT ![clock] = @ + 1]
                                  ELSE served[kind]
               /\ served'[kind] \in Instants
    <2>1. served[kind] \in Instants /\ served[kind][clock] \in Nat
      BY <1>1, InstantsAreNumbers
    <2>2. [served[kind] EXCEPT ![clock] = @ + 1] \in Instants
      BY <1>1, <2>1 DEF Instants
    <2>3. served'[kind] = IF kind \in kinds THEN [served[kind] EXCEPT ![clock] = @ + 1]
                          ELSE served[kind]
      BY DEF Count
    <2>. QED  BY <2>1, <2>2, <2>3
  <1>3. served' \in [Kinds -> Instants]
    <2>1. served' = [kind \in Kinds |-> served'[kind]]
      BY DEF Count
    <2>. QED  BY <1>2, <2>1
  <1>4. \A kind \in kinds : served'[kind][clock] = served[kind][clock] + 1
    BY <1>1, <1>2 DEF Instants
  <1>5. \A kind \in Kinds, t \in Times : t # clock => served'[kind][t] = served[kind][t]
    BY <1>1, <1>2 DEF Instants
  <1>. QED  BY <1>2, <1>3, <1>4, <1>5

(* Rows that are proper are within their limits.                           *)
LEMMA RowsTyped ==
    ASSUME Rows', rows' \in [Keys -> Row \cup {NoRow}]
    PROVE  \A key \in Keys : rows'[key] # NoRow =>
             /\ Total(rows'[key].requests) <= Limit(key)
             /\ Total(rows'[key].mutations) <= MutationLimit
  <1>. SUFFICES ASSUME NEW key \in Keys, rows'[key] # NoRow
                PROVE  /\ Total(rows'[key].requests) <= Limit(key)
                       /\ Total(rows'[key].mutations) <= MutationLimit
    OBVIOUS
  <1>1. Proper(RowOf(key)', key, clock')
    BY DEF Rows
  <1>2. RowOf(key)' = rows'[key]
    BY DEF RowOf
  <1>. QED  BY <1>1, <1>2 DEF Proper

LEMMA PagesAsMasked ==
    /\ PagesWithinTwo <=> \A t \in Times : Masked(served["page"], t, Span) <= 2 * AuthLimit
    /\ PagesWithinTwo' <=> \A t \in Times : Masked(served'["page"], t, Span) <= 2 * AuthLimit
  BY DEF PagesWithinTwo, ServedIn, Masked, Span

(* The past does not change, and the present is bounded by the row.        *)
LEMMA TwoStays ==
    ASSUME served \in [Kinds -> Instants], served' \in [Kinds -> Instants],
           clock \in Nat, PagesWithinTwo, NoFuture',
           Spent(pages["ip"], served["page"], clock)',
           clock' = clock \/ (clock' = clock + 1 /\ served' = served),
           \A t \in Times : t # clock => served'["page"][t] = served["page"][t]
    PROVE  PagesWithinTwo'
  <1>. SUFFICES ASSUME NEW t \in Times
                PROVE  Masked(served'["page"], t, Span) <= 2 * AuthLimit
    BY PagesAsMasked
  <1>1. served'["page"] \in Instants /\ clock' \in Nat /\ t \in Nat
    BY KeyFacts, Numbers
  <1>2. \A s \in Times : s > clock' => served'["page"][s] = 0
    BY KeyFacts DEF NoFuture
  <1>3. CASE t >= clock'
    <2>1. Spent(pages'["ip"], served'["page"], clock')
      OBVIOUS
    <2>. QED  BY <1>1, <1>2, <1>3, <2>1, SpentBound
  <1>4. CASE ~(t >= clock')
    <2>1. \A s \in Times : s <= t => served'["page"][s] = served["page"][s]
      BY <1>1, <1>4, Numbers
    <2>2. Masked(served'["page"], t, Span) = Masked(served["page"], t, Span)
      BY <2>1, MaskedSame
    <2>. QED  BY <2>2, PagesAsMasked
  <1>. QED  BY <1>3, <1>4

(* A step that does not touch the pages.                                   *)
LEMMA PagedStep ==
    ASSUME TypeOK, Paged, pages' = pages, served'["page"] = served["page"], clock' = clock,
           \A w \in Workers : work'[w].pc = "page" =>
             work'[w] = work[w] \/ (work'[w].now = clock /\ "ip" \in work'[w].keys)
    PROVE  Paged'
  <1>1. clock \in Nat /\ MaxDelay \in Nat
    BY Numbers DEF TypeOK
  <1>2. PagesWithinTwo'
    BY PagesAsMasked DEF Paged
  <1>3. ASSUME NEW w \in Workers, work'[w].pc = "page"
        PROVE  /\ work'[w].now <= clock' /\ clock' <= work'[w].now + MaxDelay
               /\ "ip" \in work'[w].keys
    <2>1. CASE work'[w] = work[w]
      BY <1>3, <2>1 DEF Paged
    <2>2. CASE work'[w].now = clock /\ "ip" \in work'[w].keys
      BY <1>1, <2>2
    <2>. QED  BY <1>3, <2>1, <2>2
  <1>. QED  BY <1>2, <1>3 DEF Paged

(* A step of one request that leaves rows, pages and clock alone.          *)
LEMMA Quiet ==
    ASSUME RInv, NEW w \in Workers, NEW r \in Request \cup {Idle},
           work' = [work EXCEPT ![w] = r], requests' \in 0 .. MaxRequests[traffic],
           UNCHANGED <<clock, rows, pages, served, blocks, traffic>>,
           r.pc = "authenticate" => r.asked = clock /\ RowOf("source").blocked <= clock,
           r.pc = "page" => r.now = clock /\ "ip" \in r.keys
    PROVE  RInv'
  <1>. USE DEF RInv
  <1>1. /\ work' \in [Workers -> Request \cup {Idle}]
        /\ work'[w] = r
        /\ \A v \in Workers : v # w => work'[v] = work[v]
    BY WorkSet
  <1>2. clock \in Nat /\ clock' \in Nat /\ clock <= clock' /\ served' \in [Kinds -> Instants]
    BY Numbers DEF TypeOK
  <1>3. TypeOK'
    BY <1>1 DEF TypeOK
  <1>4. Rolls'
    BY <1>2, OtherRolls
  <1>5. RowOf("source")' = RowOf("source")
    BY DEF RowOf
  <1>6. Blocked'
    <2>1. \A v \in Workers : work'[v].pc = "authenticate" =>
            \/ work'[v] = work[v]
            \/ work'[v].asked = clock /\ RowOf("source").blocked <= clock
      BY <1>1
    <2>2. RowOf("source")'.blocked = RowOf("source").blocked
      BY <1>5
    <2>. QED  BY <1>2, <2>1, <2>2, BlockStep
  <1>7. Paged'
    <2>1. \A v \in Workers : work'[v].pc = "page" =>
            work'[v] = work[v] \/ (work'[v].now = clock /\ "ip" \in work'[v].keys)
      BY <1>1
    <2>. QED  BY <2>1, PagedStep
  <1>. QED  BY <1>3, <1>4, <1>6, <1>7

LEMMA OpenQuiet ==
    ASSUME RInv, NEW w \in Workers, NEW family, NEW r \in Request,
           Open(w, family, r), UNCHANGED <<clock, rows, pages, served, blocks, traffic>>,
           r.pc = "authenticate" => r.asked = clock /\ RowOf("source").blocked <= clock,
           r.pc = "page" => r.now = clock /\ "ip" \in r.keys
    PROVE  RInv'
  <1>1. requests' \in 0 .. MaxRequests[traffic]
    <2>1. traffic \in Traffic /\ traffic = family /\ traffic' = traffic
      BY DEF Open, RInv, TypeOK
    <2>2. MaxRequests[traffic] \in Nat
      BY <2>1, RateLimitsAssumption
    <2>. QED  BY <2>1, <2>2 DEF Open, RInv, TypeOK
  <1>2. work' = [work EXCEPT ![w] = r]
    BY DEF Open
  <1>. QED  BY <1>1, <1>2, Quiet

LEMMA AskKeeps == ASSUME RInv, NEW w \in Workers, Ask(w) PROVE RInv'
  <1>. DEFINE r == [pc |-> "authenticate", asked |-> clock]
  <1>1. r \in Request /\ r.pc = "authenticate" /\ r.asked = clock
    BY DEF Request, RInv, TypeOK
  <1>2. /\ Open(w, "machine", r) /\ RowOf("source").blocked <= clock
        /\ UNCHANGED <<clock, rows, pages, served, blocks, traffic>>
    BY DEF Ask
  <1>. HIDE DEF r
  <1>. QED  BY <1>1, <1>2, OpenQuiet

LEMMA BeginStepUpKeeps == ASSUME RInv, NEW w \in Workers, BeginStepUp(w) PROVE RInv'
  <1>. DEFINE r == [pc |-> "user", found |-> Found("user")]
  <1>1. r \in Request /\ r.pc = "user"
    BY DEF Request, Found
  <1>2. Open(w, "management", r) /\ UNCHANGED <<clock, rows, pages, served, blocks, traffic>>
    BY DEF BeginStepUp
  <1>. HIDE DEF r
  <1>. QED  BY <1>1, <1>2, OpenQuiet

LEMMA BeginPageKeeps == ASSUME RInv, NEW w \in Workers, BeginPage(w) PROVE RInv'
  <1>1. PICK keys \in {{"ip"}, PageKeys} :
          Open(w, "page", [pc |-> "page", now |-> clock, keys |-> keys])
    BY DEF BeginPage
  <1>. DEFINE r == [pc |-> "page", now |-> clock, keys |-> keys]
  <1>2. keys \in SUBSET PageKeys /\ "ip" \in keys
    BY DEF PageKeys
  <1>3. r \in Request /\ r.pc = "page" /\ r.now = clock /\ r.keys = keys
    BY <1>2 DEF Request, RInv, TypeOK
  <1>4. Open(w, "page", r) /\ UNCHANGED <<clock, rows, pages, served, blocks, traffic>>
    BY <1>1 DEF BeginPage
  <1>. HIDE DEF r
  <1>. QED  BY <1>2, <1>3, <1>4, OpenQuiet

(* A request goes on, or ends, and nothing else happens.                   *)
LEMMA WorkQuiet ==
    ASSUME RInv, NEW w \in Workers, NEW r \in Request \cup {Idle},
           work' = [work EXCEPT ![w] = r], r.pc \notin {"authenticate", "page"},
           UNCHANGED <<clock, rows, pages, served, blocks, requests, traffic>>
    PROVE  RInv'
  <1>1. requests' \in 0 .. MaxRequests[traffic]
    BY DEF RInv, TypeOK
  <1>. QED  BY <1>1, Quiet

LEMMA AuthenticateKeeps == ASSUME RInv, NEW w \in Workers, Authenticate(w) PROVE RInv'
  <1>1. UNCHANGED <<clock, rows, pages, served, blocks, requests, traffic>>
    BY DEF Authenticate
  <1>2. ASSUME NEW mutation \in BOOLEAN,
               work' = [work EXCEPT ![w] = [pc |-> "credential", mutation |-> mutation,
                                            found |-> Found("credential")]]
        PROVE  RInv'
    <2>. DEFINE r == [pc |-> "credential", mutation |-> mutation, found |-> Found("credential")]
    <2>1. r \in Request /\ r.pc = "credential"
      BY DEF Request, Found
    <2>2. work' = [work EXCEPT ![w] = r]
      BY <1>2
    <2>. HIDE DEF r
    <2>. QED  BY <1>1, <2>1, <2>2, WorkQuiet
  <1>3. CASE work' = [work EXCEPT ![w] = [pc |-> "source", found |-> Found("source")]]
    <2>. DEFINE r == [pc |-> "source", found |-> Found("source")]
    <2>1. r \in Request /\ r.pc = "source"
      BY DEF Request, Found
    <2>2. work' = [work EXCEPT ![w] = r]
      BY <1>3
    <2>. HIDE DEF r
    <2>. QED  BY <1>1, <2>1, <2>2, WorkQuiet
  <1>. QED  BY <1>2, <1>3 DEF Authenticate

LEMMA EndKeeps == ASSUME RInv, NEW w \in Workers, Unavailable(w) \/ Answer429(w) PROVE RInv'
  <1>1. /\ work' = [work EXCEPT ![w] = Idle]
        /\ UNCHANGED <<clock, rows, pages, served, blocks, requests, traffic>>
    BY DEF Unavailable, Answer429
  <1>2. Idle.pc = "idle" /\ Idle \in Request \cup {Idle}
    BY DEF Idle
  <1>. QED  BY <1>1, <1>2, WorkQuiet

(* A decision is written to a row, and one who is sent away is sent away.  *)
LEMMA DecisionKeeps ==
    ASSUME RInv, NEW w \in Workers, NEW r \in Request \cup {Idle},
           work' = [work EXCEPT ![w] = r], r.pc \notin {"authenticate", "page"},
           NEW key \in Keys, NEW row \in Row, rows' = [rows EXCEPT ![key] = row],
           UNCHANGED <<clock, pages, requests, traffic>>, Rolls', Blocked',
           served' \in [Kinds -> Instants], served'["page"] = served["page"],
           blocks' \subseteq [from : Times, until : Nat]
    PROVE  RInv'
  <1>. USE DEF RInv
  <1>1. /\ work' \in [Workers -> Request \cup {Idle}]
        /\ work'[w] = r
        /\ \A v \in Workers : v # w => work'[v] = work[v]
    BY WorkSet
  <1>2. rows' \in [Keys -> Row \cup {NoRow}]
    BY DEF TypeOK
  <1>3. TypeOK'
    BY <1>1, <1>2, RowsTyped DEF TypeOK, Rolls
  <1>4. Paged'
    <2>1. \A v \in Workers : work'[v].pc = "page" =>
            work'[v] = work[v] \/ (work'[v].now = clock /\ "ip" \in work'[v].keys)
      BY <1>1
    <2>. QED  BY <2>1, PagedStep
  <1>. QED  BY <1>3, <1>4

LEMMA LimitedTyped ==
    ASSUME NEW keys \in SUBSET (Keys \cup PageKeys), NEW mutation \in BOOLEAN, NEW until \in Nat
    PROVE  /\ Limited(keys, mutation, until) \in Request
           /\ Limited(keys, mutation, until).pc = "limited"
           /\ Limited(keys, mutation, until).keys = keys
           /\ Limited(keys, mutation, until).mutation = mutation
           /\ Limited(keys, mutation, until).until = until
  BY DEF Limited, Request

(* One at a time is sent away, by the row or the pages it asked.           *)
LEMMA OneSentAway ==
    ASSUME TypeOK, NEW w \in Workers, NEW r \in Request \cup {Idle},
           work' = [work EXCEPT ![w] = r], NEW v \in Workers, NEW keys, SentAway(v, keys)
    PROVE  v = w /\ r.pc = "limited" /\ r.keys \subseteq keys /\ work'[v] = r
  BY WorkSet DEF SentAway

LEMMA CredentialRequestKeeps ==
    ASSUME RInv, NEW w \in Workers, CredentialRequest(w)
    PROVE  RInv' /\ \A v \in Workers : HonestRetry(v) /\ HonestPage(v)
  <1>. DEFINE row == RowOf("credential")
              m == work[w].mutation
              d == ConsumeCredential(row, clock, m)
              r == IF d.until = Allowed THEN Idle ELSE Limited({"credential"}, m, d.until)
  <1>1. clock \in Times /\ clock \in Nat /\ m \in BOOLEAN /\ TypeOK /\ Rolls /\ Blocked
        /\ Proper(row, "credential", clock) /\ served \in [Kinds -> Instants]
        /\ DOMAIN rows = Keys /\ clock' = clock /\ work[w].pc = "credential"
    BY WorkTyped, KeyFacts, Numbers DEF RInv, Rolls, Rows, CredentialRequest, TypeOK
  <1>2. /\ rows' = [rows EXCEPT !["credential"] = d.row]
        /\ UNCHANGED <<clock, pages, blocks, requests, traffic>>
        /\ d.until = Allowed => Count({"request"} \cup IF m THEN {"mutation"} ELSE {})
        /\ d.until # Allowed => served' = served
    BY DEF CredentialRequest
  <1>3. work' = [work EXCEPT ![w] = r]
    BY <1>1 DEF CredentialRequest
  <1>4. /\ Proper(d.row, "credential", clock)
        /\ Keeps(row.requests, d.row.requests, clock, RequestWindow)
        /\ Keeps(row.mutations, d.row.mutations, clock, RequestWindow)
        /\ d.until = Allowed => d.row.requests[clock] >= row.requests[clock] + 1
        /\ d.until = Allowed /\ m => d.row.mutations[clock] >= row.mutations[clock] + 1
        /\ d.until \in Nat
        /\ d.until # Allowed =>
             d.until > clock /\ ConsumeCredential(d.row, d.until, m).until = Allowed
    <2>. HIDE DEF row, m
    <2>. QED  BY <1>1, CredentialDecision DEF d
  <1>5. r \in Request \cup {Idle} /\ r.pc \in {"idle", "limited"}
        /\ (r.pc = "limited" =>
              d.until # Allowed /\ r.keys = {"credential"} /\ r.mutation = m /\ r.until = d.until)
    <2>1. {"credential"} \in SUBSET (Keys \cup PageKeys)
      BY KeyFacts
    <2>. HIDE DEF d, m
    <2>2. Idle.pc = "idle"
      BY DEF Idle
    <2>. QED  BY <1>1, <1>4, <2>1, <2>2, LimitedTyped
  <1>6. d.row \in Row
    BY <1>4 DEF Proper
  <1>. HIDE DEF d, m, r, row
  <1>7. /\ served' \in [Kinds -> Instants] /\ served'["page"] = served["page"]
        /\ \A kind \in Kinds, t \in Times : t # clock => served'[kind][t] = served[kind][t]
        /\ \A kind \in RollingKinds : KeyOf(kind) # "credential" => served'[kind] = served[kind]
        /\ \/ served' = served
           \/ /\ served'["request"][clock] = served["request"][clock] + 1 /\ d.until = Allowed
              /\ IF m THEN served'["mutation"][clock] = served["mutation"][clock] + 1
                 ELSE served'["mutation"] = served["mutation"]
    <2>1. CASE d.until # Allowed
      BY <1>1, <1>2, <2>1
    <2>2. CASE d.until = Allowed
      <3>. DEFINE kinds == {"request"} \cup IF m THEN {"mutation"} ELSE {}
      <3>1. kinds \in SUBSET Kinds /\ "page" \notin kinds /\ "request" \in kinds
            /\ kinds \subseteq {"request", "mutation"} /\ ("mutation" \in kinds <=> m)
            /\ "mutation" \in Kinds
        BY DEF Kinds
      <3>2. Count(kinds)
        BY <1>2, <2>2
      <3>. HIDE DEF kinds
      <3>3. /\ served' \in [Kinds -> Instants]
            /\ \A kind \in Kinds, t \in Times : t # clock => served'[kind][t] = served[kind][t]
            /\ \A kind \in Kinds \ kinds : served'[kind] = served[kind]
            /\ \A kind \in kinds : served'[kind][clock] = served[kind][clock] + 1
        BY <1>1, <3>1, <3>2, Counts
      <3>4. \A kind \in RollingKinds : KeyOf(kind) # "credential" => kind \in Kinds \ kinds
        BY <3>1, KeyFacts, KeysOfKinds
      <3>. QED  BY <2>2, <3>1, <3>3, <3>4, KeyFacts
    <2>. QED  BY <2>1, <2>2
  <1>8. ASSUME NEW kind \in RollingKinds, KeyOf(kind) = "credential"
        PROVE  /\ Keeps(Counted(kind), CountedIn(kind, d.row), clock, Window("credential"))
               /\ \/ served'[kind][clock] = served[kind][clock]
                  \/ /\ served'[kind][clock] = served[kind][clock] + 1
                     /\ CountedIn(kind, d.row)[clock] >= Counted(kind)[clock] + 1
    <2>1. kind \in {"request", "mutation"}
      BY <1>8, KeyFacts, KeysOfKinds
    <2>2. CASE kind = "request"
      <3>1. Counted(kind) = row.requests /\ CountedIn(kind, d.row) = d.row.requests
        BY <1>8, <2>2 DEF Counted, CountedIn, row
      <3>. QED  BY <1>4, <1>7, <2>2, <3>1, KeyFacts
    <2>3. CASE kind = "mutation"
      <3>1. Counted(kind) = row.mutations /\ CountedIn(kind, d.row) = d.row.mutations
        BY <1>8, <2>3 DEF Counted, CountedIn, row
      <3>. QED  BY <1>1, <1>4, <1>7, <2>3, <3>1, KeyFacts
    <2>. QED  BY <2>1, <2>2, <2>3
  <1>9. Rolls'
    <2>1. "credential" \in Keys
      BY KeyFacts
    <2>. QED  BY <1>1, <1>2, <1>4, <1>7, <1>8, <2>1, RowStep
  <1>10. Blocked'
    <2>1. RowOf("source")' = RowOf("source")
      BY <1>1, <1>2, KeyFacts DEF RowOf
    <2>2. RowOf("source")'.blocked = RowOf("source").blocked
      BY <2>1
    <2>3. \A v \in Workers : work'[v].pc = "authenticate" => work'[v] = work[v]
      BY <1>1, <1>3, <1>5, WorkSet
    <2>4. clock' \in Nat /\ clock <= clock' /\ blocks' = blocks
      BY <1>1, <1>2
    <2>. QED  BY <1>1, <2>2, <2>3, <2>4, BlockStep
  <1>11. RInv'
    <2>1. blocks' \subseteq [from : Times, until : Nat] /\ "credential" \in Keys
      BY <1>1, <1>2, KeyFacts DEF TypeOK
    <2>2. r.pc \notin {"authenticate", "page"}
      BY <1>5
    <2>. QED  BY <1>2, <1>3, <1>5, <1>6, <1>7, <1>9, <1>10, <2>1, <2>2, DecisionKeeps
  <1>12. rows'["credential"] = d.row
    BY <1>1, <1>2, KeyFacts
  <1>13. ASSUME NEW v \in Workers
         PROVE  HonestRetry(v) /\ HonestPage(v)
    <2>1. ASSUME SentAway(v, PageKeys) PROVE FALSE
      <3>1. r.pc = "limited" /\ r.keys \subseteq PageKeys
        BY <1>1, <1>3, <1>5, <2>1, OneSentAway
      <3>. QED  BY <1>5, <3>1 DEF PageKeys
    <2>2. ASSUME SentAway(v, Keys)
          PROVE  /\ d.until # Allowed /\ work'[v].keys = {"credential"}
                 /\ work'[v].mutation = m /\ work'[v].until = d.until
      <3>1. TypeOK /\ r \in Request \cup {Idle} /\ SentAway(v, Keys)
        BY <1>1, <1>5, <2>2
      <3>2. r.pc = "limited" /\ work'[v] = r
        BY <1>3, <3>1, OneSentAway
      <3>. QED  BY <1>5, <3>2
    <2>3. HonestRetry(v)
      BY <1>4, <1>12, <2>2 DEF HonestRetry
    <2>. QED  BY <2>1, <2>3 DEF HonestPage
  <1>. QED  BY <1>11, <1>13

LEMMA FailedAuthenticationKeeps ==
    ASSUME RInv, NEW w \in Workers, FailedAuthentication(w)
    PROVE  RInv' /\ \A v \in Workers : HonestRetry(v) /\ HonestPage(v)
  <1>. DEFINE row == RowOf("source")
              d == ConsumeFailure(row, clock)
              r == IF d.until = Allowed THEN Idle ELSE Limited({"source"}, FALSE, d.until)
  <1>1. clock \in Times /\ clock \in Nat /\ TypeOK /\ Rolls /\ Blocked
        /\ Proper(row, "source", clock) /\ served \in [Kinds -> Instants]
        /\ DOMAIN rows = Keys /\ clock' = clock
    BY KeyFacts, Numbers DEF RInv, Rolls, Rows, FailedAuthentication, TypeOK
  <1>2. /\ rows' = [rows EXCEPT !["source"] = d.row]
        /\ blocks' = IF d.row.blocked \in {row.blocked, Never} THEN blocks
                     ELSE blocks \cup {[from |-> clock, until |-> clock + Block]}
        /\ UNCHANGED <<clock, pages, requests, traffic>>
        /\ d.until = Allowed => Count({"failure"})
        /\ d.until # Allowed => served' = served
    BY DEF FailedAuthentication
  <1>3. work' = [work EXCEPT ![w] = r]
    BY <1>1 DEF FailedAuthentication
  <1>4. /\ Proper(d.row, "source", clock)
        /\ Keeps(row.requests, d.row.requests, clock, FailureWindow)
        /\ d.until = Allowed => d.row.requests[clock] >= row.requests[clock] + 1
        /\ d.until \in Nat
        /\ d.until # Allowed => d.until > clock /\ d.row.blocked = d.until
        /\ row.blocked > clock => d.row = row
        /\ ~(row.blocked > clock) => d.row.blocked \in {Never, clock + Block}
    <2>. HIDE DEF row
    <2>. QED  BY <1>1, FailureDecision DEF d
  <1>5. r \in Request \cup {Idle} /\ r.pc \in {"idle", "limited"}
        /\ (r.pc = "limited" =>
              d.until # Allowed /\ r.keys = {"source"} /\ r.until = d.until)
    <2>1. {"source"} \in SUBSET (Keys \cup PageKeys)
      BY KeyFacts
    <2>. HIDE DEF d
    <2>2. Idle.pc = "idle"
      BY DEF Idle
    <2>6. /\ Limited({"source"}, FALSE, d.until) \in Request
          /\ Limited({"source"}, FALSE, d.until).pc = "limited"
          /\ Limited({"source"}, FALSE, d.until).keys = {"source"}
          /\ Limited({"source"}, FALSE, d.until).until = d.until
      <3>. DEFINE key == "source"
      <3>1. FALSE \in BOOLEAN /\ d.until \in Nat /\ {key} \in SUBSET (Keys \cup PageKeys)
        BY <1>4, <2>1
      <3>. HIDE DEF key
      <3>2. /\ Limited({key}, FALSE, d.until) \in Request
            /\ Limited({key}, FALSE, d.until).pc = "limited"
            /\ Limited({key}, FALSE, d.until).keys = {key}
            /\ Limited({key}, FALSE, d.until).until = d.until
        BY <3>1, LimitedTyped
      <3>. QED  BY <3>2 DEF key
    <2>. QED  BY <2>2, <2>6
  <1>6. d.row \in Row
    BY <1>4 DEF Proper
  <1>. HIDE DEF d, r, row
  <1>7. /\ served' \in [Kinds -> Instants] /\ served'["page"] = served["page"]
        /\ \A kind \in Kinds, t \in Times : t # clock => served'[kind][t] = served[kind][t]
        /\ \A kind \in RollingKinds : KeyOf(kind) # "source" => served'[kind] = served[kind]
        /\ \/ served' = served
           \/ served'["failure"][clock] = served["failure"][clock] + 1 /\ d.until = Allowed
    <2>1. CASE d.until # Allowed
      BY <1>1, <1>2, <2>1
    <2>2. CASE d.until = Allowed
      <3>1. {"failure"} \in SUBSET Kinds /\ "page" \in Kinds \ {"failure"}
        BY DEF Kinds
      <3>2. Count({"failure"})
        BY <1>2, <2>2
      <3>3. /\ served' \in [Kinds -> Instants]
            /\ \A kind \in Kinds, t \in Times : t # clock => served'[kind][t] = served[kind][t]
            /\ \A kind \in Kinds \ {"failure"} : served'[kind] = served[kind]
            /\ \A kind \in {"failure"} : served'[kind][clock] = served[kind][clock] + 1
        BY <1>1, <3>1, <3>2, Counts
      <3>4. \A kind \in RollingKinds : KeyOf(kind) # "source" => kind \in Kinds \ {"failure"}
        BY KeyFacts, KeysOfKinds
      <3>. QED  BY <2>2, <3>1, <3>3, <3>4
    <2>. QED  BY <2>1, <2>2
  <1>8. ASSUME NEW kind \in RollingKinds, KeyOf(kind) = "source"
        PROVE  /\ Keeps(Counted(kind), CountedIn(kind, d.row), clock, Window("source"))
               /\ \/ served'[kind][clock] = served[kind][clock]
                  \/ /\ served'[kind][clock] = served[kind][clock] + 1
                     /\ CountedIn(kind, d.row)[clock] >= Counted(kind)[clock] + 1
    <2>1. kind = "failure"
      BY <1>8, KeyFacts, KeysOfKinds
    <2>2. Counted(kind) = row.requests /\ CountedIn(kind, d.row) = d.row.requests
      BY <1>8, <2>1 DEF Counted, CountedIn, row
    <2>. QED  BY <1>4, <1>7, <2>1, <2>2, KeyFacts
  <1>9. Rolls'
    <2>1. "source" \in Keys
      BY KeyFacts
    <2>. QED  BY <1>1, <1>2, <1>4, <1>7, <1>8, <2>1, RowStep
  <1>10. RowOf("source")' = d.row
    <2>1. d.row # NoRow
      BY <1>6, AbsenceAssumption
    <2>. QED  BY <1>1, <1>2, <2>1, KeyFacts DEF RowOf
  <1>11. Blocked' /\ blocks' \subseteq [from : Times, until : Nat]
    <2>1. RowOf("source").blocked \in Nat
      BY <1>1, KeyFacts, ProperFacts DEF row
    <2>2. \A v \in Workers : work'[v].pc = "authenticate" => work'[v] = work[v]
      BY <1>1, <1>3, <1>5, WorkSet
    <2>3. /\ RowOf("source").blocked > clock => d.row = RowOf("source")
          /\ ~(RowOf("source").blocked > clock) => d.row.blocked \in {Never, clock + Block}
          /\ blocks' = IF d.row.blocked \in {RowOf("source").blocked, Never} THEN blocks
                       ELSE blocks \cup {[from |-> clock, until |-> clock + Block]}
      BY <1>2, <1>4 DEF row
    <2>. QED  BY <1>1, <1>10, <2>1, <2>2, <2>3, BlockBegins
  <1>12. RInv'
    <2>1. "source" \in Keys /\ r.pc \notin {"authenticate", "page"}
      BY <1>5, KeyFacts
    <2>. QED  BY <1>2, <1>3, <1>5, <1>6, <1>7, <1>9, <1>11, <2>1, DecisionKeeps
  <1>13. rows'["source"] = d.row
    BY <1>1, <1>2, KeyFacts
  <1>14. ASSUME NEW v \in Workers
         PROVE  HonestRetry(v) /\ HonestPage(v)
    <2>1. ASSUME SentAway(v, PageKeys) PROVE FALSE
      <3>1. r.pc = "limited" /\ r.keys \subseteq PageKeys
        BY <1>1, <1>3, <1>5, <2>1, OneSentAway
      <3>. QED  BY <1>5, <3>1 DEF PageKeys
    <2>2. ASSUME SentAway(v, Keys)
          PROVE  d.until # Allowed /\ work'[v].keys = {"source"} /\ work'[v].until = d.until
      <3>1. TypeOK /\ r \in Request \cup {Idle} /\ SentAway(v, Keys)
        BY <1>1, <1>5, <2>2
      <3>2. r.pc = "limited" /\ work'[v] = r
        BY <1>3, <3>1, OneSentAway
      <3>. QED  BY <1>5, <3>2
    <2>3. HonestRetry(v)
      <3>1. d.until # Allowed => d.row.blocked <= d.until
        BY <1>4
      <3>. QED  BY <1>4, <1>13, <2>2, <3>1 DEF HonestRetry
    <2>. QED  BY <2>1, <2>3 DEF HonestPage
  <1>. QED  BY <1>12, <1>14

LEMMA StepUpKeeps ==
    ASSUME RInv, NEW w \in Workers, StepUp(w)
    PROVE  RInv' /\ \A v \in Workers : HonestRetry(v) /\ HonestPage(v)
  <1>. DEFINE key == work[w].pc
              kind == IF key = "user" THEN "user" ELSE "stepUp"
              row == RowOf(key)
              d == ConsumeStepUp(row, clock, Limit(key))
              r == IF d.until # Allowed THEN Limited({key}, FALSE, d.until)
                   ELSE IF key = "user"
                   THEN [pc |-> "stepUpSource", found |-> Found("stepUpSource")]
                   ELSE Idle
  <1>1. key \in {"user", "stepUpSource"}
    BY DEF StepUp
  <1>2. clock \in Times /\ clock \in Nat /\ TypeOK /\ Rolls /\ Blocked /\ key \in Keys
        /\ Proper(row, key, clock) /\ served \in [Kinds -> Instants]
        /\ DOMAIN rows = Keys /\ clock' = clock
    BY <1>1, KeyFacts, Numbers DEF RInv, Rolls, Rows, StepUp, TypeOK
  <1>3. /\ rows' = [rows EXCEPT ![key] = d.row]
        /\ UNCHANGED <<clock, pages, blocks, requests, traffic>>
        /\ d.until = Allowed => Count({kind})
        /\ d.until # Allowed => served' = served
    BY DEF StepUp
  <1>4. work' = [work EXCEPT ![w] = r]
    BY DEF StepUp
  <1>5. /\ Proper(d.row, key, clock)
        /\ Keeps(row.requests, d.row.requests, clock, Window(key))
        /\ d.until = Allowed => d.row.requests[clock] >= row.requests[clock] + 1
        /\ d.until \in Nat
        /\ d.until # Allowed =>
             d.until > clock /\ ConsumeStepUp(d.row, d.until, Limit(key)).until = Allowed
    <2>. HIDE DEF row, key
    <2>. QED  BY <1>1, <1>2, StepUpDecision DEF d
  <1>6. r \in Request \cup {Idle} /\ r.pc \in {"idle", "limited", "stepUpSource"}
        /\ (r.pc = "limited" =>
              d.until # Allowed /\ r.keys = {key} /\ r.until = d.until)
    <2>1. {key} \in SUBSET (Keys \cup PageKeys)
      BY <1>2
    <2>2. [pc |-> "stepUpSource", found |-> Found("stepUpSource")] \in Request
      BY DEF Request, Found
    <2>. HIDE DEF d, key
    <2>3. Idle.pc = "idle"
      BY DEF Idle
    <2>6. /\ Limited({key}, FALSE, d.until) \in Request
          /\ Limited({key}, FALSE, d.until).pc = "limited"
          /\ Limited({key}, FALSE, d.until).keys = {key}
          /\ Limited({key}, FALSE, d.until).until = d.until
      <3>1. FALSE \in BOOLEAN /\ d.until \in Nat
        BY <1>5
      <3>. QED  BY <2>1, <3>1, LimitedTyped
    <2>4. CASE d.until # Allowed
      BY <2>4, <2>6
    <2>5. CASE d.until = Allowed
      BY <2>2, <2>3, <2>5
    <2>. QED  BY <2>4, <2>5
  <1>7. d.row \in Row
    BY <1>5 DEF Proper
  <1>8. kind \in Kinds /\ kind # "page" /\ KeyOf(kind) = key
        /\ \A k \in RollingKinds : KeyOf(k) = key => k = kind
    BY <1>1, KeyFacts, KeysOfKinds DEF Kinds
  <1>. HIDE DEF d, r, row, key, kind
  <1>9. /\ served' \in [Kinds -> Instants] /\ served'["page"] = served["page"]
        /\ \A k \in Kinds, t \in Times : t # clock => served'[k][t] = served[k][t]
        /\ \A k \in RollingKinds : KeyOf(k) # key => served'[k] = served[k]
        /\ \/ served' = served
           \/ served'[kind][clock] = served[kind][clock] + 1 /\ d.until = Allowed
    <2>1. CASE d.until # Allowed
      BY <1>2, <1>3, <2>1
    <2>2. CASE d.until = Allowed
      <3>1. {kind} \in SUBSET Kinds /\ "page" \in Kinds \ {kind}
        BY <1>8, KeyFacts
      <3>2. Count({kind})
        BY <1>3, <2>2
      <3>3. /\ served' \in [Kinds -> Instants]
            /\ \A k \in Kinds, t \in Times : t # clock => served'[k][t] = served[k][t]
            /\ \A k \in Kinds \ {kind} : served'[k] = served[k]
            /\ \A k \in {kind} : served'[k][clock] = served[k][clock] + 1
        BY <1>2, <3>1, <3>2, Counts
      <3>4. \A k \in RollingKinds : KeyOf(k) # key => k \in Kinds \ {kind}
        BY <1>8, KeysOfKinds
      <3>. QED  BY <2>2, <3>1, <3>3, <3>4
    <2>. QED  BY <2>1, <2>2
  <1>10. ASSUME NEW k \in RollingKinds, KeyOf(k) = key
         PROVE  /\ Keeps(Counted(k), CountedIn(k, d.row), clock, Window(key))
                /\ \/ served'[k][clock] = served[k][clock]
                   \/ /\ served'[k][clock] = served[k][clock] + 1
                      /\ CountedIn(k, d.row)[clock] >= Counted(k)[clock] + 1
    <2>1. k = kind /\ k # "mutation"
      BY <1>1, <1>8, <1>10, KeyFacts
    <2>2. Counted(k) = row.requests /\ CountedIn(k, d.row) = d.row.requests
      BY <1>10, <2>1 DEF Counted, CountedIn, row
    <2>. QED  BY <1>5, <1>9, <2>1, <2>2
  <1>11. Rolls'
    BY <1>2, <1>3, <1>5, <1>9, <1>10, RowStep
  <1>12. Blocked'
    <2>1. RowOf("source")' = RowOf("source")
      BY <1>1, <1>2, <1>3, KeyFacts DEF RowOf
    <2>2. RowOf("source")'.blocked = RowOf("source").blocked
      BY <2>1
    <2>3. \A v \in Workers : work'[v].pc = "authenticate" => work'[v] = work[v]
      BY <1>2, <1>4, <1>6, WorkSet
    <2>4. clock' \in Nat /\ clock <= clock' /\ blocks' = blocks
      BY <1>2, <1>3
    <2>. QED  BY <1>2, <2>2, <2>3, <2>4, BlockStep
  <1>13. RInv'
    <2>1. blocks' \subseteq [from : Times, until : Nat] /\ r.pc \notin {"authenticate", "page"}
      BY <1>2, <1>3, <1>6 DEF TypeOK
    <2>. QED  BY <1>2, <1>3, <1>4, <1>6, <1>7, <1>9, <1>11, <1>12, <2>1, DecisionKeeps
  <1>14. rows'[key] = d.row
    BY <1>2, <1>3
  <1>15. ASSUME NEW v \in Workers
         PROVE  HonestRetry(v) /\ HonestPage(v)
    <2>1. ASSUME SentAway(v, PageKeys) PROVE FALSE
      <3>1. r.pc = "limited" /\ r.keys \subseteq PageKeys
        BY <1>2, <1>4, <1>6, <2>1, OneSentAway
      <3>. QED  BY <1>1, <1>6, <3>1 DEF PageKeys
    <2>2. ASSUME SentAway(v, Keys)
          PROVE  d.until # Allowed /\ work'[v].keys = {key} /\ work'[v].until = d.until
      <3>1. TypeOK /\ r \in Request \cup {Idle} /\ SentAway(v, Keys)
        BY <1>2, <1>6, <2>2
      <3>2. r.pc = "limited" /\ work'[v] = r
        BY <1>4, <3>1, OneSentAway
      <3>. QED  BY <1>6, <3>2
    <2>3. HonestRetry(v)
      BY <1>1, <1>5, <1>14, <2>2 DEF HonestRetry
    <2>. QED  BY <2>1, <2>3 DEF HonestPage
  <1>. QED  BY <1>13, <1>15

(* What a page's row says of the time to come.                             *)
LEMMA PageRowTyped ==
    ASSUME NEW row \in PageRow \cup {NoRow}, NEW now \in Nat, NEW late \in Nat, now <= late,
           row # NoRow => row.expires <= late + AuthWindow /\ row.blocked <= late + AuthWindow
    PROVE  LET new == ConsumePage(row, now) IN
           /\ new \in PageRow /\ new # NoRow
           /\ new.expires <= late + AuthWindow /\ new.blocked <= late + AuthWindow
           /\ ConsumePage(new, late + AuthWindow).blocked <= late + AuthWindow
  <1>. DEFINE new == ConsumePage(row, now)
  <1>1. AuthWindow \in Nat \ {0}
    BY Numbers
  <1>2. new \in PageRow /\ new.expires <= late + AuthWindow /\ new.blocked <= late + AuthWindow
    <2>1. CASE row = NoRow
      BY <1>1, <2>1 DEF ConsumePage, PageRow
    <2>2. CASE row # NoRow
      <3>1. row.count \in Nat /\ row.blocked \in Nat /\ row.expires \in Nat
        BY <2>2 DEF PageRow
      <3>2. /\ new.count = IF row.expires <= now THEN 1 ELSE row.count + 1
            /\ new.expires = IF row.expires <= now THEN now + AuthWindow ELSE row.expires
            /\ new.blocked \in {row.blocked, now + AuthWindow, 0}
            /\ new = [count |-> new.count, blocked |-> new.blocked, expires |-> new.expires]
        BY <2>2 DEF ConsumePage, WindowOver
      <3>. HIDE DEF new
      <3>3. new.count \in Nat
        BY <3>1, <3>2
      <3>4. new.expires \in Nat /\ new.expires <= late + AuthWindow
        BY <1>1, <2>2, <3>1, <3>2
      <3>5. new.blocked \in Nat /\ new.blocked <= late + AuthWindow
        BY <1>1, <2>2, <3>1, <3>2
      <3>. QED  BY <3>2, <3>3, <3>4, <3>5 DEF PageRow
    <2>. QED  BY <2>1, <2>2
  <1>3. new # NoRow
    BY <1>2, AbsenceAssumption
  <1>. HIDE DEF new
  <1>4. ConsumePage(new, late + AuthWindow).blocked <= late + AuthWindow
    <2>1. new.blocked \in Nat /\ new.expires \in Nat
      BY <1>2 DEF PageRow
    <2>2. WindowOver(new, late + AuthWindow) /\ ~(new.blocked > late + AuthWindow)
      BY <1>1, <1>2, <2>1 DEF WindowOver
    <2>3. ConsumePage(new, late + AuthWindow).blocked = 0
      BY <1>3, <2>2 DEF ConsumePage
    <2>. QED  BY <1>1, <2>3
  <1>. QED  BY <1>2, <1>3, <1>4 DEF new

LEMMA PageKeeps ==
    ASSUME RInv, NEW w \in Workers, Page(w)
    PROVE  RInv' /\ \A v \in Workers : HonestRetry(v) /\ HonestPage(v)
  <1>. DEFINE keys == work[w].keys
              now == work[w].now
              blocked == {key \in keys : pages'[key].blocked > now}
              until == clock + AuthWindow
              r == IF blocked = {} THEN Idle ELSE Limited(keys, FALSE, until)
  <1>1. /\ clock \in Times /\ clock \in Nat /\ TypeOK /\ Rolls /\ Blocked /\ Paged
        /\ served \in [Kinds -> Instants] /\ work[w].pc = "page"
        /\ now \in Nat /\ keys \in SUBSET PageKeys /\ AuthWindow \in Nat
    BY WorkTyped, Numbers DEF RInv, Page, TypeOK
  <1>2. now <= clock /\ clock <= now + MaxDelay /\ "ip" \in keys
    BY <1>1 DEF Paged
  <1>3. /\ pages' = [key \in PageKeys |-> IF key \in keys THEN ConsumePage(pages[key], now)
                                          ELSE pages[key]]
        /\ UNCHANGED <<clock, rows, blocks, requests, traffic>>
        /\ blocked = {} => Count({"page"})
        /\ blocked # {} => served' = served
    BY DEF Page
  <1>4. work' = [work EXCEPT ![w] = r]
    BY DEF Page
  <1>5. \A key \in PageKeys :
          /\ pages[key] \in PageRow \cup {NoRow}
          /\ pages[key] # NoRow =>
               pages[key].expires <= clock + AuthWindow /\ pages[key].blocked <= clock + AuthWindow
    BY <1>1 DEF TypeOK, Paged
  <1>6. \A key \in PageKeys : pages'[key] = IF key \in keys THEN ConsumePage(pages[key], now)
                                            ELSE pages[key]
    BY <1>3
  <1>7. r \in Request \cup {Idle} /\ r.pc \in {"idle", "limited"}
        /\ (r.pc = "limited" => r.keys = keys /\ r.until = until)
    <2>1. Idle.pc = "idle"
      BY DEF Idle
    <2>2. keys \in SUBSET (Keys \cup PageKeys) /\ until \in Nat /\ FALSE \in BOOLEAN
      BY <1>1
    <2>. HIDE DEF keys, until, blocked
    <2>3. /\ Limited(keys, FALSE, until) \in Request
          /\ Limited(keys, FALSE, until).pc = "limited"
          /\ Limited(keys, FALSE, until).keys = keys
          /\ Limited(keys, FALSE, until).until = until
      BY <2>2, LimitedTyped
    <2>4. CASE blocked = {}
      BY <2>1, <2>4
    <2>5. CASE blocked # {}
      BY <2>3, <2>5
    <2>. QED  BY <2>4, <2>5
  <1>. HIDE DEF r
  <1>8. \A key \in keys :
          /\ pages'[key] \in PageRow /\ pages'[key] # NoRow
          /\ pages'[key].expires <= clock + AuthWindow /\ pages'[key].blocked <= clock + AuthWindow
          /\ ConsumePage(pages'[key], clock + AuthWindow).blocked <= clock + AuthWindow
    <2>. HIDE DEF keys, now
    <2>. SUFFICES ASSUME NEW key \in keys
                  PROVE  /\ pages'[key] \in PageRow /\ pages'[key] # NoRow
                         /\ pages'[key].expires <= clock + AuthWindow
                         /\ pages'[key].blocked <= clock + AuthWindow
                         /\ ConsumePage(pages'[key], clock + AuthWindow).blocked
                              <= clock + AuthWindow
      OBVIOUS
    <2>1. key \in PageKeys
      BY <1>1
    <2>2. pages'[key] = ConsumePage(pages[key], now)
      BY <1>6, <2>1
    <2>. QED  BY <1>1, <1>2, <1>5, <2>1, <2>2, PageRowTyped
  <1>9. pages' \in [PageKeys -> PageRow \cup {NoRow}]
    <2>. HIDE DEF keys, now
    <2>1. ASSUME NEW key \in PageKeys
          PROVE  pages'[key] \in PageRow \cup {NoRow}
      BY <1>5, <1>6, <1>8, <2>1
    <2>2. pages' = [key \in PageKeys |-> pages'[key]]
      BY <1>3
    <2>. QED  BY <2>1, <2>2
  <1>10. /\ served' \in [Kinds -> Instants]
         /\ \A t \in Times : t # clock => served'["page"][t] = served["page"][t]
         /\ \A kind \in RollingKinds : served'[kind] = served[kind]
         /\ \/ served' = served
            \/ served'["page"][clock] = served["page"][clock] + 1 /\ blocked = {}
    <2>1. CASE blocked # {}
      BY <1>1, <1>3, <2>1
    <2>2. CASE blocked = {}
      <3>1. {"page"} \in SUBSET Kinds /\ "page" \in Kinds
        BY KeyFacts
      <3>2. Count({"page"})
        BY <1>3, <2>2
      <3>3. /\ served' \in [Kinds -> Instants]
            /\ \A kind \in Kinds, t \in Times : t # clock => served'[kind][t] = served[kind][t]
            /\ \A kind \in Kinds \ {"page"} : served'[kind] = served[kind]
            /\ \A kind \in {"page"} : served'[kind][clock] = served[kind][clock] + 1
        BY <1>1, <3>1, <3>2, Counts
      <3>. QED  BY <2>2, <3>1, <3>3 DEF RollingKinds
    <2>. QED  BY <2>1, <2>2
  <1>11. Rolls'
    BY <1>1, <1>3, <1>10, OtherRolls
  <1>12. Blocked'
    <2>1. RowOf("source")' = RowOf("source")
      BY <1>3 DEF RowOf
    <2>2. RowOf("source")'.blocked = RowOf("source").blocked
      BY <2>1
    <2>3. \A v \in Workers : work'[v].pc = "authenticate" => work'[v] = work[v]
      BY <1>1, <1>4, <1>7, WorkSet
    <2>4. clock' \in Nat /\ clock <= clock' /\ blocks' = blocks
      BY <1>1, <1>3
    <2>. QED  BY <1>1, <2>2, <2>3, <2>4, BlockStep
  <1>13. blocked = {} => pages'["ip"].blocked <= now
    <2>1. pages'["ip"].blocked \in Nat
      BY <1>2, <1>8 DEF PageRow
    <2>2. "ip" \in keys /\ now \in Nat
      BY <1>1, <1>2
    <2>. HIDE DEF keys, now
    <2>. QED  BY <2>1, <2>2
  <1>14. Spent(pages'["ip"], served'["page"], clock)
    <2>1. "ip" \in PageKeys
      BY DEF PageKeys
    <2>2. pages'["ip"] = ConsumePage(pages["ip"], now)
      BY <1>2, <1>6, <2>1
    <2>3. served["page"] \in Instants /\ served'["page"] \in Instants
      BY <1>1, <1>10, KeyFacts
    <2>4. \A s \in Times : s > clock => served["page"][s] = 0
      BY <1>1, KeyFacts DEF Rolls, NoFuture
    <2>5. Spent(pages["ip"], served["page"], clock) /\ pages["ip"] \in PageRow \cup {NoRow}
      BY <1>1, <1>5, <2>1 DEF Paged
    <2>6. served'["page"][clock] = served["page"][clock]
            \/ (/\ served'["page"][clock] = served["page"][clock] + 1
                /\ ConsumePage(pages["ip"], now).blocked <= now)
      BY <1>10, <1>13, <2>2
    <2>. HIDE DEF now, blocked
    <2>. QED  BY <1>1, <1>2, <1>10, <2>2, <2>3, <2>4, <2>5, <2>6, SpentPage
  <1>15. PagesWithinTwo'
    <2>1. Spent(pages["ip"], served["page"], clock)'
      BY <1>3, <1>14
    <2>2. NoFuture' /\ PagesWithinTwo /\ clock' = clock
      BY <1>1, <1>3, <1>11 DEF Rolls, Paged
    <2>. QED  BY <1>1, <1>10, <2>1, <2>2, TwoStays
  <1>16. Paged'
    <2>1. ASSUME NEW v \in Workers, work'[v].pc = "page"
          PROVE  /\ work'[v].now <= clock' /\ clock' <= work'[v].now + MaxDelay
                 /\ "ip" \in work'[v].keys
      <3>1. work'[v] = work[v]
        BY <1>1, <1>4, <1>7, <2>1, WorkSet
      <3>. QED  BY <1>1, <1>3, <2>1, <3>1 DEF Paged
    <2>2. ASSUME NEW key \in PageKeys, pages'[key] # NoRow
          PROVE  /\ pages'[key].expires <= clock' + AuthWindow
                 /\ pages'[key].blocked <= clock' + AuthWindow
      <3>1. clock' = clock
        BY <1>3
      <3>2. CASE key \in keys
        BY <1>8, <3>1, <3>2
      <3>3. CASE key \notin keys
        BY <1>5, <1>6, <2>2, <3>1, <3>3
      <3>. QED  BY <3>2, <3>3
    <2>3. Spent(pages'["ip"], served'["page"], clock')
      BY <1>3, <1>14
    <2>. QED  BY <1>15, <2>1, <2>2, <2>3 DEF Paged
  <1>17. TypeOK'
    <2>1. work' \in [Workers -> Request \cup {Idle}]
      BY <1>1, <1>4, <1>7, WorkSet
    <2>2. \A key \in Keys : rows'[key] # NoRow =>
            /\ Total(rows'[key].requests) <= Limit(key)
            /\ Total(rows'[key].mutations) <= MutationLimit
      BY <1>1, <1>3 DEF TypeOK
    <2>. QED  BY <1>1, <1>3, <1>9, <1>10, <2>1, <2>2 DEF TypeOK
  <1>18. ASSUME NEW v \in Workers
         PROVE  HonestRetry(v) /\ HonestPage(v)
    <2>1. TypeOK /\ r \in Request \cup {Idle} /\ "ip" \in keys
      BY <1>1, <1>2, <1>7
    <2>2. ASSUME SentAway(v, Keys) PROVE FALSE
      <3>1. r.pc = "limited" /\ r.keys \subseteq Keys
        BY <1>4, <2>1, <2>2, OneSentAway
      <3>. QED  BY <1>7, <2>1, <3>1 DEF Keys
    <2>3. ASSUME SentAway(v, PageKeys)
          PROVE  work'[v].keys = keys /\ work'[v].until = clock + AuthWindow
      <3>1. r.pc = "limited" /\ work'[v] = r
        BY <1>4, <2>1, <2>3, OneSentAway
      <3>. QED  BY <1>7, <3>1
    <2>4. HonestPage(v)
      BY <1>8, <2>3 DEF HonestPage
    <2>. QED  BY <2>2, <2>4 DEF HonestRetry
  <1>. QED  BY <1>11, <1>12, <1>16, <1>17, <1>18 DEF RInv

LEMMA CleanupExpiredKeeps == ASSUME RInv, CleanupExpired PROVE RInv'
  <1>1. /\ TypeOK /\ Rolls /\ Blocked /\ Paged /\ clock \in Nat
        /\ UNCHANGED <<clock, pages, work, served, blocks, requests, traffic>>
    BY Numbers DEF RInv, TypeOK, CleanupExpired
  <1>2. Rolls'
    BY <1>1, CleanupRolls
  <1>3. rows' \in [Keys -> Row \cup {NoRow}]
    BY <1>1 DEF CleanupExpired, TypeOK
  <1>4. TypeOK'
    BY <1>1, <1>2, <1>3, RowsTyped DEF TypeOK, Rolls
  <1>5. Blocked'
    <2>1. rows'["source"] = rows["source"]
            \/ (rows'["source"] = NoRow /\ rows["source"] # NoRow
                /\ rows["source"].blocked <= clock)
      BY KeyFacts DEF CleanupExpired
    <2>2. RowOf("source")'.blocked = RowOf("source").blocked
            \/ RowOf("source").blocked <= clock
      BY <1>1, <2>1 DEF RowOf
    <2>3. clock' \in Nat /\ clock <= clock' /\ blocks' = blocks
          /\ \A w \in Workers : work'[w].pc = "authenticate" => work'[w] = work[w]
      BY <1>1
    <2>. QED  BY <1>1, <2>2, <2>3, BlockStep
  <1>6. Paged'
    BY <1>1, PagedStep
  <1>. QED  BY <1>2, <1>4, <1>5, <1>6 DEF RInv

LEMMA CleanupPagesKeeps == ASSUME RInv, CleanupPages PROVE RInv'
  <1>1. /\ TypeOK /\ Rolls /\ Blocked /\ Paged /\ clock \in Nat /\ clock \in Times
        /\ served \in [Kinds -> Instants] /\ served' \in [Kinds -> Instants]
        /\ UNCHANGED <<clock, rows, work, served, blocks, requests, traffic>>
    BY Numbers DEF RInv, TypeOK, CleanupPages
  <1>2. Rolls'
    BY <1>1, OtherRolls
  <1>3. PICK now \in Times :
          /\ now <= clock
          /\ pages' = [key \in PageKeys |->
                         IF pages[key] # NoRow /\ pages[key].expires < now
                         THEN NoRow ELSE pages[key]]
    BY DEF CleanupPages
  <1>4. \A key \in PageKeys : /\ pages[key] \in PageRow \cup {NoRow}
                              /\ pages'[key] = pages[key]
                                 \/ (/\ pages'[key] = NoRow /\ pages[key] # NoRow
                                     /\ pages[key].expires < now)
    BY <1>1, <1>3 DEF TypeOK
  <1>5. pages' \in [PageKeys -> PageRow \cup {NoRow}]
    BY <1>3, <1>4
  <1>6. TypeOK'
    BY <1>1, <1>5 DEF TypeOK
  <1>7. Blocked'
    <2>1. RowOf("source")' = RowOf("source")
      BY <1>1 DEF RowOf
    <2>2. RowOf("source")'.blocked = RowOf("source").blocked
      BY <2>1
    <2>3. clock' \in Nat /\ clock <= clock' /\ blocks' = blocks
          /\ \A w \in Workers : work'[w].pc = "authenticate" => work'[w] = work[w]
      BY <1>1
    <2>. QED  BY <1>1, <2>2, <2>3, BlockStep
  <1>8. Spent(pages'["ip"], served["page"], clock)
    <2>1. served["page"] \in Instants /\ "ip" \in PageKeys
          /\ Spent(pages["ip"], served["page"], clock)
          /\ \A s \in Times : s > clock => served["page"][s] = 0
      BY <1>1, KeyFacts DEF Paged, PageKeys, Rolls, NoFuture
    <2>2. CASE pages'["ip"] = pages["ip"]
      BY <2>1, <2>2
    <2>3. CASE pages'["ip"] = NoRow /\ pages["ip"] # NoRow /\ pages["ip"].expires < now
      <3>1. pages["ip"] \in PageRow \cup {NoRow} /\ pages["ip"].expires \in Nat
        BY <1>4, <2>1, <2>3 DEF PageRow
      <3>2. pages["ip"].expires <= clock
        BY <1>1, <1>3, <2>3, <3>1, Numbers
      <3>3. Masked(served["page"], clock, Span) <= AuthLimit
        BY <1>1, <2>1, <3>1, <3>2, SpentEnded
      <3>. QED  BY <2>3, <3>3 DEF Spent
    <2>. QED  BY <1>4, <2>1, <2>2, <2>3
  <1>9. Paged'
    <2>1. PagesWithinTwo'
      BY <1>1, PagesAsMasked DEF Paged
    <2>2. ASSUME NEW key \in PageKeys, pages'[key] # NoRow
          PROVE  /\ pages'[key].expires <= clock' + AuthWindow
                 /\ pages'[key].blocked <= clock' + AuthWindow
      <3>1. pages'[key] = pages[key]
        BY <1>4, <2>2
      <3>. QED  BY <1>1, <2>2, <3>1 DEF Paged
    <2>3. Spent(pages'["ip"], served'["page"], clock')
      BY <1>1, <1>8
    <2>4. \A w \in Workers : work'[w].pc = "page" =>
            /\ work'[w].now <= clock' /\ clock' <= work'[w].now + MaxDelay
            /\ "ip" \in work'[w].keys
      BY <1>1 DEF Paged
    <2>. QED  BY <2>1, <2>2, <2>3, <2>4 DEF Paged
  <1>. QED  BY <1>2, <1>6, <1>7, <1>9 DEF RInv

LEMMA TickKeeps == ASSUME RInv, Tick PROVE RInv'
  <1>1. /\ TypeOK /\ Rolls /\ Blocked /\ Paged /\ clock \in Nat /\ clock \in Times
        /\ MaxTime \in Nat /\ MaxDelay \in Nat /\ AuthWindow \in Nat
        /\ served \in [Kinds -> Instants] /\ served' \in [Kinds -> Instants]
        /\ clock' = clock + 1 /\ clock < MaxTime
        /\ UNCHANGED <<rows, pages, work, served, blocks, requests, traffic>>
    BY Numbers DEF RInv, TypeOK, Tick
  <1>2. clock' \in Times /\ clock' \in Nat /\ clock <= clock'
    BY <1>1 DEF Times
  <1>3. Rolls'
    BY <1>1, <1>2, OtherRolls
  <1>4. TypeOK'
    BY <1>1, <1>2 DEF TypeOK
  <1>5. Blocked'
    <2>1. RowOf("source")'.blocked = RowOf("source").blocked
      BY <1>1 DEF RowOf
    <2>2. blocks' = blocks
          /\ \A w \in Workers : work'[w].pc = "authenticate" => work'[w] = work[w]
      BY <1>1
    <2>. QED  BY <1>1, <1>2, <2>1, <2>2, BlockStep
  <1>6. Spent(pages["ip"], served["page"], clock')
    <2>1. served["page"] \in Instants /\ Spent(pages["ip"], served["page"], clock)
          /\ \A s \in Times : s > clock => served["page"][s] = 0
      BY <1>1, KeyFacts DEF Paged, Rolls, NoFuture
    <2>2. clock' >= clock
      BY <1>1
    <2>. QED  BY <1>1, <1>2, <2>1, <2>2, SpentLater
  <1>7. PagesWithinTwo'
    <2>1. Spent(pages["ip"], served["page"], clock)'
      BY <1>1, <1>6
    <2>2. NoFuture' /\ PagesWithinTwo
      BY <1>1, <1>3 DEF Rolls, Paged
    <2>3. \A t \in Times : t # clock => served'["page"][t] = served["page"][t]
      BY <1>1
    <2>. QED  BY <1>1, <2>1, <2>2, <2>3, TwoStays
  <1>8. Paged'
    <2>1. ASSUME NEW w \in Workers, work'[w].pc = "page"
          PROVE  /\ work'[w].now <= clock' /\ clock' <= work'[w].now + MaxDelay
                 /\ "ip" \in work'[w].keys
      <3>1. work'[w] = work[w] /\ work[w].pc = "page" /\ work[w].now \in Nat
        BY <1>1, <2>1, WorkTyped, Numbers
      <3>2. clock < work[w].now + MaxDelay
        BY <3>1 DEF Tick
      <3>3. work[w].now <= clock /\ "ip" \in work[w].keys
        BY <1>1, <3>1 DEF Paged
      <3>. QED  BY <1>1, <3>1, <3>2, <3>3
    <2>2. ASSUME NEW key \in PageKeys, pages'[key] # NoRow
          PROVE  /\ pages'[key].expires <= clock' + AuthWindow
                 /\ pages'[key].blocked <= clock' + AuthWindow
      <3>1. pages'[key] = pages[key] /\ pages[key] \in PageRow
        BY <1>1, <2>2 DEF TypeOK
      <3>2. pages[key].expires \in Nat /\ pages[key].blocked \in Nat
        BY <3>1 DEF PageRow
      <3>3. /\ pages[key].expires <= clock + AuthWindow
            /\ pages[key].blocked <= clock + AuthWindow
        BY <1>1, <2>2, <3>1 DEF Paged
      <3>. QED  BY <1>1, <3>1, <3>2, <3>3
    <2>3. Spent(pages'["ip"], served'["page"], clock')
      BY <1>1, <1>6
    <2>. QED  BY <1>7, <2>1, <2>2, <2>3 DEF Paged
  <1>. QED  BY <1>3, <1>4, <1>5, <1>8 DEF RInv

LEMMA StutterKeeps == ASSUME RInv, UNCHANGED vars PROVE RInv'
  <1>1. /\ TypeOK /\ Rolls /\ Blocked /\ Paged /\ clock \in Nat
        /\ UNCHANGED <<clock, rows, pages, work, served, blocks, requests, traffic>>
        /\ served' \in [Kinds -> Instants]
    BY Numbers DEF RInv, TypeOK, vars
  <1>2. Rolls'
    BY <1>1, OtherRolls
  <1>3. TypeOK'
    BY <1>1 DEF TypeOK
  <1>4. Blocked'
    <2>1. RowOf("source")'.blocked = RowOf("source").blocked
      BY <1>1 DEF RowOf
    <2>2. clock' \in Nat /\ clock <= clock' /\ blocks' = blocks
          /\ \A w \in Workers : work'[w].pc = "authenticate" => work'[w] = work[w]
      BY <1>1
    <2>. QED  BY <1>1, <2>1, <2>2, BlockStep
  <1>5. Paged'
    BY <1>1, PagedStep
  <1>. QED  BY <1>2, <1>3, <1>4, <1>5 DEF RInv

LEMMA InitKeeps == Init => RInv
  <1>. SUFFICES ASSUME Init PROVE RInv
    OBVIOUS
  <1>1. None \in Instants /\ Total(None) = 0 /\ \A t \in Times : None[t] = 0
    BY NoneTyped DEF None
  <1>2. /\ clock = 1 /\ clock \in Nat /\ clock \in Times
        /\ rows = [key \in Keys |-> NoRow] /\ pages = [key \in PageKeys |-> NoRow]
        /\ work = [w \in Workers |-> Idle] /\ blocks = {} /\ requests = 0
        /\ traffic \in Traffic
        /\ served = [k \in Kinds |-> None]
    <2>1. 1 \in Times
      BY Numbers DEF Times
    <2>. QED  BY <2>1 DEF Init, None
  <1>3. TypeOK
    <2>1. MaxRequests[traffic] \in Nat
      BY <1>2, RateLimitsAssumption
    <2>2. requests \in 0 .. MaxRequests[traffic]
      BY <1>2, <2>1
    <2>3. served \in [Kinds -> Instants]
      BY <1>1, <1>2
    <2>. QED  BY <1>2, <2>2, <2>3 DEF TypeOK
  <1>4. Rows
    <2>. SUFFICES ASSUME NEW key \in Keys
                  PROVE  Proper(RowOf(key), key, clock)
      BY DEF Rows
    <2>1. RowOf(key) = [requests |-> None, mutations |-> None, blocked |-> Never,
                        expires |-> clock]
      BY <1>2 DEF RowOf
    <2>. QED  BY <1>1, <1>2, <2>1, LimitTyped, Numbers DEF Proper, Row
  <1>5. \A kind \in RollingKinds : Counted(kind) = None /\ served[kind] = None
    <2>. SUFFICES ASSUME NEW kind \in RollingKinds
                  PROVE  Counted(kind) = None /\ served[kind] = None
      OBVIOUS
    <2>1. kind \in Kinds /\ KeyOf(kind) \in Keys
      BY KeysOfKinds
    <2>2. RowOf(KeyOf(kind)) = [requests |-> None, mutations |-> None, blocked |-> Never,
                                expires |-> clock]
      BY <1>2, <2>1 DEF RowOf
    <2>. QED  BY <1>2, <2>1, <2>2 DEF Counted, CountedIn
  <1>6. Covered
    BY <1>1, <1>5 DEF Covered, Keeps
  <1>7. NoFuture
    BY <1>1, <1>2 DEF NoFuture
  <1>8. ASSUME NEW t \in Times, NEW w \in Int
        PROVE  Masked(None, t, w) = 0
    <2>1. [s \in Times |-> IF t - w < s /\ s <= t THEN None[s] ELSE 0] = None
      BY DEF None
    <2>. QED  BY <1>1, <2>1 DEF Masked
  <1>9. Within
    <2>. SUFFICES ASSUME NEW kind \in RollingKinds, NEW t \in Times
                  PROVE  Masked(served[kind], t, Window(KeyOf(kind))) <= LimitOf(kind)
      BY DEF Within
    <2>1. LimitOf(kind) \in Nat /\ Window(KeyOf(kind)) \in Int
      BY KeysOfKinds, WindowTyped
    <2>2. Masked(None, t, Window(KeyOf(kind))) = 0
      BY <1>8, <2>1
    <2>. QED  BY <1>5, <2>1, <2>2
  <1>10. Blocked
    <2>1. \A w \in Workers : work[w].pc # "authenticate"
      BY <1>2 DEF Idle
    <2>. QED  BY <1>2, <2>1 DEF Blocked, BlockHolds
  <1>11. Paged
    <2>1. \A w \in Workers : work[w].pc # "page"
      BY <1>2 DEF Idle
    <2>2. \A key \in PageKeys : pages[key] = NoRow
      BY <1>2
    <2>3. served["page"] = None /\ Span \in Int /\ AuthLimit \in Nat
      BY <1>2, KeyFacts, SpanTyped
    <2>4. \A t \in Times : Masked(served["page"], t, Span) = 0
      BY <1>8, <2>3
    <2>5. Spent(pages["ip"], served["page"], clock)
      BY <1>2, <2>2, <2>3, <2>4 DEF Spent, PageKeys
    <2>6. PagesWithinTwo
      BY <2>3, <2>4, PagesAsMasked
    <2>. QED  BY <2>1, <2>2, <2>5, <2>6 DEF Paged
  <1>. QED  BY <1>3, <1>4, <1>6, <1>7, <1>9, <1>10, <1>11 DEF RInv, Rolls

(* Nobody is sent away by a step that leaves everyone where he is or moves *)
(* one of them on.                                                         *)
LEMMA NobodySentAway ==
    ASSUME RInv, \/ work' = work
                 \/ \E w \in Workers, r \in Request \cup {Idle} :
                      work' = [work EXCEPT ![w] = r] /\ r.pc # "limited"
    PROVE  \A v \in Workers : HonestRetry(v) /\ HonestPage(v)
  <1>1. ASSUME NEW v \in Workers, NEW keys, SentAway(v, keys)
        PROVE  FALSE
    <2>1. CASE work' = work
      BY <1>1, <2>1 DEF SentAway
    <2>2. ASSUME NEW w \in Workers, NEW r \in Request \cup {Idle},
                 work' = [work EXCEPT ![w] = r], r.pc # "limited"
          PROVE  FALSE
      BY <1>1, <2>2, OneSentAway DEF RInv
    <2>. QED  BY <2>1, <2>2
  <1>. QED  BY <1>1 DEF HonestRetry, HonestPage

LEMMA OpenSendsNobodyAway ==
    ASSUME RInv, NEW w \in Workers, NEW family, NEW r \in Request, r.pc # "limited",
           Open(w, family, r)
    PROVE  \A v \in Workers : HonestRetry(v) /\ HonestPage(v)
  <1>1. work' = [work EXCEPT ![w] = r] /\ r \in Request \cup {Idle}
    BY DEF Open
  <1>. QED  BY <1>1, NobodySentAway

LEMMA QuietStepsSendNobodyAway ==
    ASSUME RInv, NEW w \in Workers,
           \/ Ask(w) \/ Authenticate(w) \/ BeginStepUp(w) \/ BeginPage(w)
           \/ Unavailable(w) \/ Answer429(w)
    PROVE  \A v \in Workers : HonestRetry(v) /\ HonestPage(v)
  <1>1. CASE Ask(w)
    <2>. DEFINE r == [pc |-> "authenticate", asked |-> clock]
    <2>1. r \in Request /\ r.pc # "limited" /\ Open(w, "machine", r)
      BY <1>1 DEF Ask, Request, RInv, TypeOK
    <2>. HIDE DEF r
    <2>. QED  BY <2>1, OpenSendsNobodyAway
  <1>2. CASE Authenticate(w)
    <2>1. PICK r : /\ work' = [work EXCEPT ![w] = r] /\ r.pc # "limited"
                   /\ r \in Request
      <3>1. \A m \in BOOLEAN : [pc |-> "credential", mutation |-> m,
                                found |-> Found("credential")] \in Request
        BY DEF Request, Found
      <3>2. [pc |-> "source", found |-> Found("source")] \in Request
        BY DEF Request, Found
      <3>. QED  BY <1>2, <3>1, <3>2 DEF Authenticate
    <2>. QED  BY <2>1, NobodySentAway
  <1>3. CASE BeginStepUp(w)
    <2>. DEFINE r == [pc |-> "user", found |-> Found("user")]
    <2>1. r \in Request /\ r.pc # "limited" /\ Open(w, "management", r)
      BY <1>3 DEF BeginStepUp, Request, Found
    <2>. HIDE DEF r
    <2>. QED  BY <2>1, OpenSendsNobodyAway
  <1>4. CASE BeginPage(w)
    <2>1. PICK keys \in {{"ip"}, PageKeys} :
            Open(w, "page", [pc |-> "page", now |-> clock, keys |-> keys])
      BY <1>4 DEF BeginPage
    <2>. DEFINE r == [pc |-> "page", now |-> clock, keys |-> keys]
    <2>2. keys \in SUBSET PageKeys
      BY DEF PageKeys
    <2>3. r \in Request /\ r.pc # "limited" /\ Open(w, "page", r)
      BY <2>1, <2>2 DEF Request, RInv, TypeOK
    <2>. HIDE DEF r
    <2>. QED  BY <2>3, OpenSendsNobodyAway
  <1>5. CASE Unavailable(w) \/ Answer429(w)
    <2>1. work' = [work EXCEPT ![w] = Idle] /\ Idle.pc # "limited"
      BY <1>5 DEF Unavailable, Answer429, Idle
    <2>. QED  BY <2>1, NobodySentAway
  <1>. QED  BY <1>1, <1>2, <1>3, <1>4, <1>5

(* Every step keeps the invariant, and is honest to those it sends away.   *)
LEMMA Steps ==
    RInv /\ [Next]_vars => RInv' /\ \A v \in Workers : HonestRetry(v) /\ HonestPage(v)
  <1>. SUFFICES ASSUME RInv, [Next]_vars
                PROVE  RInv' /\ \A v \in Workers : HonestRetry(v) /\ HonestPage(v)
    OBVIOUS
  <1>1. ASSUME NEW w \in Workers,
               \/ Ask(w) \/ Authenticate(w) \/ BeginStepUp(w) \/ BeginPage(w)
               \/ Unavailable(w) \/ Answer429(w)
        PROVE  RInv' /\ \A v \in Workers : HonestRetry(v) /\ HonestPage(v)
    BY <1>1, AskKeeps, AuthenticateKeeps, BeginStepUpKeeps, BeginPageKeeps, EndKeeps,
       QuietStepsSendNobodyAway
  <1>2. ASSUME NEW w \in Workers, CredentialRequest(w) \/ FailedAuthentication(w)
                                  \/ StepUp(w) \/ Page(w)
        PROVE  RInv' /\ \A v \in Workers : HonestRetry(v) /\ HonestPage(v)
    BY <1>2, CredentialRequestKeeps, FailedAuthenticationKeeps, StepUpKeeps, PageKeeps
  <1>3. CASE CleanupExpired \/ CleanupPages \/ Tick \/ UNCHANGED vars
    <2>1. RInv'
      BY <1>3, CleanupExpiredKeeps, CleanupPagesKeeps, TickKeeps, StutterKeeps
    <2>2. work' = work
      BY <1>3 DEF CleanupExpired, CleanupPages, Tick, vars
    <2>. QED  BY <2>1, <2>2, NobodySentAway
  <1>. QED  BY <1>1, <1>2, <1>3 DEF Next

LEMMA Invariant == Spec => []RInv
  BY InitKeeps, Steps, PTL DEF Spec

-------------------------------------------------------------------------------
(* The rows are well formed and never hold more than the limits            *)
(* (withState, consumeCredential, consumeFailedAuthentication,             *)
(* consumeManagementStepUp, consumeRateLimit).                             *)
THEOREM TypeCorrect == Spec => []TypeOK
  <1>1. RInv => TypeOK
    BY DEF RInv
  <1>. QED  BY <1>1, Invariant, PTL

(* No rolling window lets through more requests, mutations, failures or    *)
(* step-ups than its limit, however the requests overlap and whatever the  *)
(* cleanup removes: what was let through within a window is still in the   *)
(* locked row that counts it (withState, rollingTimes, cleanupExpired).    *)
THEOREM LimitsHold == Spec => []WithinLimits
  <1>1. RInv => WithinLimits
    <2>. SUFFICES ASSUME RInv  PROVE WithinLimits
      OBVIOUS
    <2>. DEFINE t == clock
    <2>0. t \in Times
      BY DEF RInv, TypeOK
    <2>1. \A kind \in RollingKinds :
            ServedIn(kind, t, Window(KeyOf(kind))) <= LimitOf(kind)
      BY <2>0 DEF RInv, Rolls, Within, Masked, ServedIn
    <2>2. /\ LimitOf("request") = CredentialLimit /\ LimitOf("mutation") = MutationLimit
          /\ LimitOf("failure") = FailureLimit - 1 /\ LimitOf("user") = UserLimit
          /\ LimitOf("stepUp") = StepUpSourceLimit
      BY KeyFacts DEF LimitOf, Limit
    <2>3. ServedIn("failure", t, FailureWindow) < FailureLimit
      <3>1. ServedIn("failure", t, FailureWindow) <= FailureLimit - 1
        BY <2>1, <2>2, KeyFacts, KeysOfKinds
      <3>2. served["failure"] \in Instants /\ t \in Int /\ FailureWindow \in Int
            /\ FailureLimit \in Int
        BY <2>0, Numbers DEF RInv, TypeOK, Kinds
      <3>3. ServedIn("failure", t, FailureWindow) = Masked(served["failure"], t, FailureWindow)
        BY DEF ServedIn, Masked
      <3>4. Masked(served["failure"], t, FailureWindow) \in Nat
        BY <3>2, MaskedTyped
      <3>. QED  BY <3>1, <3>2, <3>3, <3>4
    <2>. QED  BY <2>1, <2>2, <2>3, KeyFacts, KeysOfKinds DEF WithinLimits
  <1>. QED  BY <1>1, Invariant, PTL

(* A source that is blocked is turned away for as long as the block lasts, *)
(* and blocks neither overlap nor extend each other: while one lasts it is *)
(* the one in the row (assertSourceAllowed, consumeFailedAuthentication).  *)
THEOREM BlocksHold == Spec => []BlockHolds
  <1>1. RInv => BlockHolds
    BY DEF RInv, Blocked
  <1>. QED  BY <1>1, Invariant, PTL

(* A fixed window of a page may be followed at once by the next, but by no *)
(* third, even when requests are counted late (consumeRateLimit).          *)
THEOREM PagesSeeTwo == Spec => []PagesWithinTwo
  <1>1. RInv => PagesWithinTwo
    BY DEF RInv, Paged
  <1>. QED  BY <1>1, Invariant, PTL

(* Who comes back when Retry-After said so finds room, in every budget     *)
(* that sent him away (expiresFirst, remainingSeconds).                    *)
THEOREM RetryAfterIsHonest == Spec => RetryAfterHonest
  <1>1. RInv /\ [Next]_vars => [\A w \in Workers : HonestRetry(w)]_vars
    BY Steps
  <1>. QED  BY <1>1, Invariant, PTL DEF Spec, RetryAfterHonest

(* A page that is asked again a whole window later is not blocked          *)
(* (consumeRateLimit).                                                     *)
THEOREM PageRetryIsHonest == Spec => PageRetryHonest
  <1>1. RInv /\ [Next]_vars => [\A w \in Workers : HonestPage(w)]_vars
    BY Steps
  <1>. QED  BY <1>1, Invariant, PTL DEF Spec, PageRetryHonest
===============================================================================
