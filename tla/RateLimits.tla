------------------------------ MODULE RateLimits ------------------------------
(***************************************************************************)
(* The limits on requests: rolling windows per credential, per source of   *)
(* failed authentications and per step-up of the management API, shared    *)
(* by all replicas through locked rows (integration-rate-limit.service.ts, *)
(* integration-credential.guard.ts, integration-management.guard.ts), and  *)
(* the fixed windows of the authentication pages (authRateLimit.ts).       *)
(* One credential, one source and one user; a tick is an instant.          *)
(***************************************************************************)
EXTENDS Integers, FiniteSets, FiniteSetsExt

CONSTANTS
    Workers,        \* requests that may be open together
    CredentialLimit, MutationLimit, RequestWindow,  \* 120 and 60 in a minute
    FailureLimit, FailureWindow, Block, \* 20 in 5 minutes, then 15 minutes
    UserLimit, StepUpSourceLimit, StepUpWindow, \* 5 and 20 in 15 minutes
    AuthLimit, AuthWindow,  \* 5 in 15 minutes
    MaxDelay,       \* how long a page's request takes to reach its row
    Traffic,        \* the families of requests that come in
    MaxTime, MaxRequests,   \* bounds: the clock, and the requests of each family
    NoRow

ASSUME RateLimitsAssumption ==
    /\ {CredentialLimit, MutationLimit, RequestWindow, FailureLimit, FailureWindow,
        Block, UserLimit, StepUpSourceLimit, StepUpWindow, AuthLimit, AuthWindow}
         \subseteq Nat \ {0}
    /\ {MaxDelay, MaxTime} \subseteq Nat
    /\ MaxTime > 0
    /\ FailureWindow <= Block
    /\ MaxDelay < AuthWindow
    /\ Traffic \subseteq {"machine", "management", "page"}
    /\ MaxRequests \in [Traffic -> Nat]

VARIABLES
    clock,    \* the database's clock
    rows,     \* integration_rate_limits: [Keys -> row, or NoRow]
    pages,    \* auth_rate_limits: [PageKeys -> row, or NoRow]
    work,     \* [Workers -> open request, or Idle]
    served,   \* history: how many requests of a kind were let through when
    blocks,   \* history: the blocks of the source
    requests, \* how many requests there were
    traffic   \* which requests come in: the three families share no row

vars == <<clock, rows, pages, work, served, blocks, requests, traffic>>

-------------------------------------------------------------------------------
Keys == {"credential", "source", "user", "stepUpSource"}
PageKeys == {"ip", "email"}
Times == 0 .. MaxTime
Kinds == {"request", "mutation", "failure", "user", "stepUp", "page"}

(* null as an instant that is over.                                        *)
Never == 0

(* The instants a row keeps, as how many there are at each time: the code  *)
(* filters and counts them and takes the first, whatever their order.      *)
Instants == [Times -> Nat]

None == [t \in Times |-> 0]

Total(times) == MapThenSumSet(LAMBDA t : times[t], {t \in Times : times[t] > 0})

(* push *)
And(times, now) == [t \in Times |-> times[t] + IF t = now THEN 1 ELSE 0]

Row == [requests : Instants, mutations : Instants, blocked : Nat, expires : Nat]
PageRow == [count : Nat, blocked : Nat, expires : Nat]

(* The null that stands for the absence of a row is no row itself.         *)
ASSUME AbsenceAssumption == NoRow \notin Row \cup PageRow

Idle == [pc |-> "idle"]

Request ==
    [pc : {"authenticate"}, asked : Times]
    \cup [pc : {"credential"}, mutation : BOOLEAN, found : BOOLEAN]
    \cup [pc : {"source", "user", "stepUpSource"}, found : BOOLEAN]
    \cup [pc : {"page"}, now : Times, keys : SUBSET PageKeys]
    \cup [pc : {"limited"}, keys : SUBSET (Keys \cup PageKeys), mutation : BOOLEAN,
          until : Nat]

Open(w, family, request) ==
    /\ traffic = family
    /\ work[w] = Idle
    /\ requests < MaxRequests[family]
    /\ work' = [work EXCEPT ![w] = request]
    /\ requests' = requests + 1

Count(kinds) == served' = [k \in Kinds |-> IF k \in kinds
                                           THEN [served[k] EXCEPT ![clock] = @ + 1]
                                           ELSE served[k]]

-------------------------------------------------------------------------------
(* Decisions on a row: the row it leaves and when to retry, or Allowed.    *)

Allowed == 0

(* The most that a row holds: the failure that completes a limit blocks    *)
(* and is not counted.                                                     *)
Limit(key) ==
    CASE key = "credential" -> CredentialLimit
      [] key = "source" -> FailureLimit - 1
      [] key = "user" -> UserLimit
      [] key = "stepUpSource" -> StepUpSourceLimit

(* Mutant: the oldest instant of a window is forgotten.                    *)
RollingTimes_Short(times, now, window) ==
    [t \in Times |-> IF t > now - window + 1 THEN times[t] ELSE 0]

RollingTimes(times, now, window) ==
    [t \in Times |-> IF t > now - window THEN times[t] ELSE 0]

(* When a full window has room again.                                      *)
ExpiresFirst(times, limit, window) ==
    IF Total(times) < limit THEN {} ELSE {Min({t \in Times : times[t] > 0}) + window}

(* Mutant: the earlier of the two instants is answered.                    *)
RetryAt_First(untils) == IF untils = {} THEN Allowed ELSE Min(untils)

RetryAt(untils) == IF untils = {} THEN Allowed ELSE Max(untils)

(* consumeCredential: a mutation that is rejected still counts as a        *)
(* request while there is room.                                            *)
ConsumeCredential(row, now, mutation) ==
    LET past == RollingTimes(row.requests, now, RequestWindow)
        mutations == RollingTimes(row.mutations, now, RequestWindow)
        untils == ExpiresFirst(past, CredentialLimit, RequestWindow)
                  \cup IF mutation THEN ExpiresFirst(mutations, MutationLimit, RequestWindow)
                       ELSE {}
    IN  [until |-> RetryAt(untils),
         row |-> [requests |-> IF Total(past) < CredentialLimit THEN And(past, now) ELSE past,
                  mutations |-> IF mutation /\ untils = {} THEN And(mutations, now)
                                ELSE mutations,
                  blocked |-> Never, expires |-> now + RequestWindow]]

(* Mutant: a failure that was let in before a block decides anew.          *)
StillBlocked_Ignored(row, now) == FALSE

(* An earlier failure has blocked the source in the meantime.              *)
StillBlocked(row, now) == row.blocked > now

(* consumeFailedAuthentication.                                            *)
ConsumeFailure(row, now) ==
    LET past == RollingTimes(row.requests, now, FailureWindow)
        block == Total(past) + 1 >= FailureLimit
        until == IF block THEN now + Block ELSE Allowed
    IN  IF StillBlocked(row, now) THEN [until |-> row.blocked, row |-> row]
        ELSE [until |-> until,
              row |-> [requests |-> IF block THEN past ELSE And(past, now),
                       mutations |-> None, blocked |-> until,
                       expires |-> IF block THEN until ELSE now + FailureWindow]]

(* Mutant: a step-up that is sent away counts.                             *)
ConsumeStepUp_CountsAll(row, now, limit) ==
    LET past == RollingTimes(row.requests, now, StepUpWindow)
    IN  [until |-> RetryAt(ExpiresFirst(past, limit, StepUpWindow)),
         row |-> [requests |-> And(past, now), mutations |-> None, blocked |-> Never,
                  expires |-> now + StepUpWindow]]

(* consumeManagementStepUp, one of its two budgets.                        *)
ConsumeStepUp(row, now, limit) ==
    LET past == RollingTimes(row.requests, now, StepUpWindow)
        untils == ExpiresFirst(past, limit, StepUpWindow)
    IN  [until |-> RetryAt(untils),
         row |-> [requests |-> IF untils = {} THEN And(past, now) ELSE past,
                  mutations |-> None, blocked |-> Never, expires |-> now + StepUpWindow]]

(* Mutant: a window that ends now is not over.                             *)
WindowOver_Late(row, now) == row.expires < now

WindowOver(row, now) == row.expires <= now

(* Mutant: one attempt too many.                                           *)
TooMany_OffByOne(count) == count > AuthLimit + 1

TooMany(count) == count > AuthLimit

(* consumeRateLimit: a block outlives its window, attempts during a block  *)
(* count, and a block does not grow.                                       *)
ConsumePage(row, now) ==
    IF row = NoRow THEN [count |-> 1, blocked |-> Never, expires |-> now + AuthWindow]
    ELSE LET over == WindowOver(row, now) IN
         [count |-> IF over THEN 1 ELSE row.count + 1,
          expires |-> IF over THEN now + AuthWindow ELSE row.expires,
          blocked |-> IF row.blocked > now THEN row.blocked
                      ELSE IF ~over /\ TooMany(row.count + 1) THEN now + AuthWindow
                      ELSE Never]

-------------------------------------------------------------------------------
(* withState: INSERT ... ON CONFLICT DO NOTHING, then the row is locked,   *)
(* the clock read and the decision written.  A row that was found may be   *)
(* gone when it is locked; one that was inserted is locked all along.      *)
Gone(w) == work[w].found /\ rows[work[w].pc] = NoRow

RowOf(key) == IF rows[key] # NoRow THEN rows[key]
              ELSE [requests |-> None, mutations |-> None, blocked |-> Never, expires |-> clock]

Found(key) == rows[key] # NoRow

Limited(keys, mutation, until) ==
    [pc |-> "limited", keys |-> keys, mutation |-> mutation, until |-> until]

(* IntegrationCredentialGuard: assertSourceAllowed.                        *)
Ask(w) ==
    /\ RowOf("source").blocked <= clock
    /\ Open(w, "machine", [pc |-> "authenticate", asked |-> clock])
    /\ UNCHANGED <<clock, rows, pages, served, blocks, traffic>>

Authenticate(w) ==
    /\ work[w].pc = "authenticate"
    /\ \/ \E mutation \in BOOLEAN :
            work' = [work EXCEPT ![w] = [pc |-> "credential", mutation |-> mutation,
                                         found |-> Found("credential")]]
       \/ work' = [work EXCEPT ![w] = [pc |-> "source", found |-> Found("source")]]
    /\ UNCHANGED <<clock, rows, pages, served, blocks, requests, traffic>>

CredentialRequest(w) ==
    LET decision == ConsumeCredential(RowOf("credential"), clock, work[w].mutation) IN
    /\ work[w].pc = "credential"
    /\ ~Gone(w)
    /\ rows' = [rows EXCEPT !["credential"] = decision.row]
    /\ IF decision.until = Allowed
       THEN /\ work' = [work EXCEPT ![w] = Idle]
            /\ Count({"request"} \cup IF work[w].mutation THEN {"mutation"} ELSE {})
       ELSE /\ work' = [work EXCEPT ![w] = Limited({"credential"}, @.mutation, decision.until)]
            /\ UNCHANGED served
    /\ UNCHANGED <<clock, pages, blocks, requests, traffic>>

FailedAuthentication(w) ==
    LET row == RowOf("source")
        decision == ConsumeFailure(row, clock)
    IN
    /\ work[w].pc = "source"
    /\ ~Gone(w)
    /\ rows' = [rows EXCEPT !["source"] = decision.row]
    /\ blocks' = IF decision.row.blocked \in {row.blocked, Never} THEN blocks
                 ELSE blocks \cup {[from |-> clock, until |-> clock + Block]}
    /\ IF decision.until = Allowed
       THEN work' = [work EXCEPT ![w] = Idle] /\ Count({"failure"})
       ELSE /\ work' = [work EXCEPT ![w] = Limited({"source"}, FALSE, decision.until)]
            /\ UNCHANGED served
    /\ UNCHANGED <<clock, pages, requests, traffic>>

(* IntegrationManagementGuard: the user's budget, then the source's.       *)
BeginStepUp(w) ==
    /\ Open(w, "management", [pc |-> "user", found |-> Found("user")])
    /\ UNCHANGED <<clock, rows, pages, served, blocks, traffic>>

StepUp(w) ==
    LET key == work[w].pc
        decision == ConsumeStepUp(RowOf(key), clock, Limit(key))
    IN
    /\ key \in {"user", "stepUpSource"}
    /\ ~Gone(w)
    /\ rows' = [rows EXCEPT ![key] = decision.row]
    /\ work' = [work EXCEPT ![w] =
                  IF decision.until # Allowed THEN Limited({key}, FALSE, decision.until)
                  ELSE IF key = "user"
                  THEN [pc |-> "stepUpSource", found |-> Found("stepUpSource")]
                  ELSE Idle]
    /\ IF decision.until # Allowed THEN UNCHANGED served
       ELSE Count({IF key = "user" THEN "user" ELSE "stepUp"})
    /\ UNCHANGED <<clock, pages, blocks, requests, traffic>>

(* 503: the row was cleaned up since it was found, or the database failed. *)
Unavailable(w) ==
    /\ work[w].pc \notin {"idle", "limited"}
    /\ work' = [work EXCEPT ![w] = Idle]
    /\ UNCHANGED <<clock, rows, pages, served, blocks, requests, traffic>>

Answer429(w) ==
    /\ work[w].pc = "limited"
    /\ work' = [work EXCEPT ![w] = Idle]
    /\ UNCHANGED <<clock, rows, pages, served, blocks, requests, traffic>>

(* One statement, on every replica each hour: it waits for locked rows.     *)
CleanupExpired ==
    /\ \E key \in Keys : rows[key] # NoRow /\ rows[key].expires <= clock
    /\ rows' = [key \in Keys |->
                  IF rows[key] # NoRow /\ rows[key].expires <= clock
                     /\ rows[key].blocked <= clock
                  THEN NoRow ELSE rows[key]]
    /\ UNCHANGED <<clock, pages, work, served, blocks, requests, traffic>>

-------------------------------------------------------------------------------
(* AuthRateLimitMiddleware: now is read first, then one statement for each *)
(* key, in one transaction.                                                *)
BeginPage(w) ==
    /\ \E keys \in {{"ip"}, PageKeys} :
         Open(w, "page", [pc |-> "page", now |-> clock, keys |-> keys])
    /\ UNCHANGED <<clock, rows, pages, served, blocks, traffic>>

Page(w) ==
    LET keys == work[w].keys
        now == work[w].now
        blocked == {key \in keys : pages'[key].blocked > now}
    IN
    /\ work[w].pc = "page"
    /\ pages' = [key \in PageKeys |-> IF key \in keys THEN ConsumePage(pages[key], now)
                                      ELSE pages[key]]
    /\ IF blocked = {}
       THEN work' = [work EXCEPT ![w] = Idle] /\ Count({"page"})
       ELSE /\ work' = [work EXCEPT ![w] = Limited(keys, FALSE, clock + AuthWindow)]
            /\ UNCHANGED served
    /\ UNCHANGED <<clock, rows, blocks, requests, traffic>>

(* After a hundred requests, as of when the last of them came in: a block  *)
(* goes with the window it came from.                                      *)
CleanupPages ==
    /\ \E now \in Times :
         /\ now <= clock
         /\ clock <= now + MaxDelay
         /\ \E key \in PageKeys : pages[key] # NoRow /\ pages[key].expires < now
         /\ pages' = [key \in PageKeys |->
                        IF pages[key] # NoRow /\ pages[key].expires < now
                        THEN NoRow ELSE pages[key]]
    /\ UNCHANGED <<clock, rows, work, served, blocks, requests, traffic>>

Tick ==
    /\ clock < MaxTime
    /\ \A w \in Workers : work[w].pc = "page" => clock < work[w].now + MaxDelay
    /\ clock' = clock + 1
    /\ UNCHANGED <<rows, pages, work, served, blocks, requests, traffic>>

Init ==
    /\ clock = 1
    /\ rows = [key \in Keys |-> NoRow]
    /\ pages = [key \in PageKeys |-> NoRow]
    /\ work = [w \in Workers |-> Idle]
    /\ served = [k \in Kinds |-> [t \in Times |-> 0]]
    /\ blocks = {}
    /\ requests = 0
    /\ traffic \in Traffic

Next ==
    \/ \E w \in Workers :
         \/ Ask(w) \/ Authenticate(w) \/ CredentialRequest(w) \/ FailedAuthentication(w)
         \/ BeginStepUp(w) \/ StepUp(w)
         \/ BeginPage(w) \/ Page(w)
         \/ Unavailable(w) \/ Answer429(w)
    \/ CleanupExpired
    \/ CleanupPages
    \/ Tick

Spec == Init /\ [][Next]_vars

-------------------------------------------------------------------------------
(* Types; the rows do not grow beyond the limits (withState).               *)
TypeOK ==
    /\ clock \in Times
    /\ rows \in [Keys -> Row \cup {NoRow}]
    /\ \A key \in Keys : rows[key] # NoRow => /\ Total(rows[key].requests) <= Limit(key)
                                            /\ Total(rows[key].mutations) <= MutationLimit
    /\ pages \in [PageKeys -> PageRow \cup {NoRow}]
    /\ work \in [Workers -> Request \cup {Idle}]
    /\ served \in [Kinds -> Instants]
    /\ blocks \subseteq [from : Times, until : Nat]
    /\ requests \in 0 .. MaxRequests[traffic]
    /\ traffic \in Traffic

(* How many of a kind were let through in the window that ends at t.       *)
ServedIn(kind, t, window) ==
    Total([s \in Times |-> IF t - window < s /\ s <= t THEN served[kind][s] ELSE 0])

(* No rolling window that ends now, and so none that ended before, saw     *)
(* more requests, mutations, failures or step-ups than its limit, whatever *)
(* requests overlap and whatever rows the cleanup takes away (withState,   *)
(* rollingTimes, cleanupExpired).                                          *)
WithinLimits ==
    /\ ServedIn("request", clock, RequestWindow) <= CredentialLimit
    /\ ServedIn("mutation", clock, RequestWindow) <= MutationLimit
    /\ ServedIn("failure", clock, FailureWindow) < FailureLimit
    /\ ServedIn("user", clock, StepUpWindow) <= UserLimit
    /\ ServedIn("stepUp", clock, StepUpWindow) <= StepUpSourceLimit

(* A request that asks while its source is blocked is not authenticated,   *)
(* and failures that were let in before the block neither lift nor extend  *)
(* it (assertSourceAllowed, consumeFailedAuthentication, cleanupExpired).  *)
BlockHolds ==
    /\ \A w \in Workers, b \in blocks :
         work[w].pc = "authenticate" => ~(b.from < work[w].asked /\ work[w].asked < b.until)
    /\ \A b, c \in blocks : b = c \/ b.until <= c.from \/ c.until <= b.from

SentAway(w, keys) ==
    /\ work'[w].pc = "limited" /\ work[w].pc # "limited"
    /\ work'[w].keys \subseteq keys

HonestRetry(w) ==
    SentAway(w, Keys) =>
      LET until == work'[w].until
          Room(key) ==
            CASE key = "credential" ->
                   ConsumeCredential(rows'[key], until, work'[w].mutation).until = Allowed
              [] key = "source" -> rows'[key].blocked <= until
              [] OTHER -> ConsumeStepUp(rows'[key], until, Limit(key)).until = Allowed
      IN  until > clock /\ \A key \in work'[w].keys : Room(key)

HonestPage(w) ==
    SentAway(w, PageKeys) =>
      \A key \in work'[w].keys :
        ConsumePage(pages'[key], work'[w].until).blocked <= work'[w].until

(* A client that is sent away and comes back when Retry-After says so is   *)
(* served, unless another one was faster; a rejected mutation that took a  *)
(* place among the requests does not stand in its own way (expiresFirst,   *)
(* remainingSeconds).                                                      *)
RetryAfterHonest == [][\A w \in Workers : HonestRetry(w)]_vars

(* The same for the pages, whose Retry-After is a whole window: attempts   *)
(* made while blocked count, and even so a window without attempts is      *)
(* always enough (consumeRateLimit).                                       *)
PageRetryHonest == [][\A w \in Workers : HonestPage(w)]_vars

(* The windows of a page are fixed, a cleanup may end a block with its     *)
(* window, and requests that came in late in one window may be counted     *)
(* when the next has begun.  Still, a window that is shorter by the time a *)
(* request takes sees no more than two windows' worth (consumeRateLimit).  *)
PagesWithinTwo ==
    \A t \in Times : ServedIn("page", t, AuthWindow - MaxDelay) <= 2 * AuthLimit
===============================================================================
