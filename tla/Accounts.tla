------------------------------- MODULE Accounts -------------------------------
(***************************************************************************)
(* The account behind one email address: registration, verification and   *)
(* reset links, passwords, lockout, sessions and two-factor authentication *)
(* (auth.controller.ts, auth.service.ts, twoFactor.service.ts,             *)
(* auth.repository.ts, session.guard.ts).  A worker is one HTTP request.   *)
(* Each handler reads the user, awaits argon2 or another query, and writes *)
(* in a later step, on what it read: op names the step it has reached.     *)
(***************************************************************************)
EXTENDS Integers, Sequences, FiniteSets

CONSTANTS
    Workers,        \* requests that may be in flight together
    Sids,           \* ids of session rows
    Links,          \* ids of verification and reset tokens
    MaxFailed,      \* MAX_FAILED_LOGIN_ATTEMPTS
    MaxWrong,       \* MAX_TWO_FACTOR_CHALLENGE_ATTEMPTS
    LockFor,        \* ACCOUNT_LOCKOUT_MS
    LinkTTL,        \* EMAIL_VERIFICATION_ and PASSWORD_RESET_TOKEN_TTL_MS
    CodesPerBatch,  \* RECOVERY_CODE_COUNT
    MaxAccounts, MaxPasswords, MaxSecrets, MaxBatches, MaxStreak, MaxNow, \* bounds
    NoUser, NoSession, NoLink, NoSid, NoCode

ASSUME AccountsAssumption ==
    /\ {MaxFailed, MaxWrong, LockFor, LinkTTL, CodesPerBatch} \subseteq Nat \ {0}
    /\ {MaxAccounts, MaxPasswords} \subseteq Nat \ {0}
    /\ {MaxSecrets, MaxBatches, MaxStreak, MaxNow} \subseteq Nat
    /\ NoSid \notin Sids

VARIABLES
    user,       \* the row of the address, or NoUser
    codes,      \* unused recovery codes, as <<batch, number>>
    links,      \* [Links -> unused verification or reset token, or NoLink]
    sessions,   \* [Sids -> stored session, or NoSession]
    work,       \* [Workers -> request in flight, or Idle]
    now,
    issued,     \* how many accounts, passwords, secrets, batches, links there were
    \* history, read by the properties only
    redeemed,   \* [code -> how often it was accepted]
    replaced,   \* batches there were when a change that has committed took the codes
    resets,     \* for each reset, in order: its link, and the last link there
                \* was when it took those of its user
    streak      \* failed logins recorded since the last success

vars == <<user, codes, links, sessions, work, now, issued, redeemed, replaced, resets, streak>>
history == <<redeemed, replaced, resets, streak>>

-------------------------------------------------------------------------------
Codes == (1 .. MaxBatches) \X (1 .. CodesPerBatch)

User == [id : 1 .. MaxAccounts, password : 1 .. MaxPasswords, version : Nat,
         verified : BOOLEAN, enabled : BOOLEAN, secret : 0 .. MaxSecrets,
         failed : 0 .. MaxFailed - 1, lockedUntil : 0 .. MaxNow + LockFor]

ASSUME NoUserAssumption == NoUser \notin User

(* What login keeps of the row it read.                                    *)
Seen == [id : 1 .. MaxAccounts, password : 1 .. MaxPasswords, version : Nat,
         verified : BOOLEAN, enabled : BOOLEAN]

(* password is history: the one given to the login behind the session.     *)
Session == [kind : {"auth", "challenge"}, user : 1 .. MaxAccounts, version : Nat,
            wrong : 0 .. MaxWrong, password : 1 .. MaxPasswords]

(* number is history: the links are counted as they are issued.            *)
Link == [kind : {"verification", "reset"}, user : 1 .. MaxAccounts,
         expiresAt : 0 .. MaxNow + LinkTTL, number : Nat]

Steps == {"login", "open", "challenge", "redeem", "wrong", "proved", "change",
          "setup", "enable", "disable", "register", "resend", "forgot",
          "verify", "reset"}
Idle == [op |-> "idle"]

(* begun: its transaction has run the statement that takes the codes or    *)
(* the links of the user, which are in taken; since is history, how many   *)
(* batches or links there were then.                                       *)
Request == [op : Steps, id : 0 .. MaxAccounts, version : Nat,
            seen : Seen \cup {NoUser}, attempt : 0 .. MaxPasswords,
            sid : Sids \cup {NoSid}, copy : Session \cup {NoSession},
            code : Codes \cup {NoCode}, link : Links \cup {NoLink},
            at : 0 .. MaxNow, begun : BOOLEAN,
            taken : SUBSET (Codes \cup Links), since : Nat]

Blank == [op |-> "login", id |-> 0, version |-> 0, seen |-> NoUser, attempt |-> 0, sid |-> NoSid,
          copy |-> NoSession, code |-> NoCode, link |-> NoLink, at |-> 0,
          begun |-> FALSE, taken |-> {}, since |-> 0]

-------------------------------------------------------------------------------
Read == [id |-> user.id, password |-> user.password, version |-> user.version,
         verified |-> user.verified, enabled |-> user.enabled]

Begin(w, request) ==
    /\ work[w] = Idle
    /\ work' = [work EXCEPT ![w] = request]

At(w, op) == work[w].op = op
Goto(w, op) == work' = [work EXCEPT ![w].op = op]
Done(w) == work' = [work EXCEPT ![w] = Idle]

(* The row a handler read is still there for its UPDATE ... WHERE id.      *)
StillThere(w) == user # NoUser /\ user.id = work[w].id

(* SessionGuard: the session's version is that of the row.                 *)
Passes(s) ==
    /\ user # NoUser
    /\ sessions[s] # NoSession
    /\ sessions[s].kind = "auth"
    /\ sessions[s].user = user.id
    /\ sessions[s].version = user.version

(* Random ids are fresh: no row has them and no request carries them.      *)
FreshSid(s) ==
    /\ sessions[s] = NoSession
    /\ \A v \in Workers : work[v] # Idle => work[v].sid # s

FreshLink(l) ==
    /\ links[l] = NoLink
    /\ \A v \in Workers : work[v] # Idle => work[v].link # l /\ l \notin work[v].taken

NewLink(kind, id) ==
    [kind |-> kind, user |-> id, expiresAt |-> now + LinkTTL, number |-> issued.links + 1]

(* Rows of user_sessions that name the user in auth; challenges do not.    *)
SessionsWithout(id) ==
    [s \in Sids |-> IF sessions[s] # NoSession /\ sessions[s].kind = "auth"
                       /\ sessions[s].user = id
                    THEN NoSession ELSE sessions[s]]

(* used_at is set.  Nothing accepts the token again: the model drops it.   *)
MarkUsed(chosen) ==
    [l \in Links |-> IF l \in chosen THEN NoLink ELSE links[l]]

Unused(kind, id) ==
    {l \in Links : links[l] # NoLink /\ links[l].kind = kind /\ links[l].user = id}

(* Transactions of several statements are READ COMMITTED: the one that     *)
(* takes the codes or links of the user sees what was committed before it, *)
(* and the rest shows at the commit.  Between the two others commit.  The  *)
(* lock on the row of the user, and those on the rows taken, order the     *)
(* commits and nothing else: what a statement saw, it saw before it waited.*)
Take(w, rows, count) ==
    /\ ~work[w].begun
    /\ work' = [work EXCEPT ![w].begun = TRUE, ![w].taken = rows, ![w].since = count]

Commits(w, op) == At(w, op) /\ work[w].begun

-------------------------------------------------------------------------------
(* Registration and email verification.                                    *)

RegisterRead(w) ==
    /\ user = NoUser
    /\ Begin(w, [Blank EXCEPT !.op = "register"])
    /\ UNCHANGED <<user, codes, links, sessions, now, issued, history>>

(* One transaction: user, token, workspace, mail; or the unique index on   *)
(* the address refuses.                                                    *)
CreateUser(w) ==
    /\ At(w, "register")
    /\ Done(w)
    /\ \/ /\ user = NoUser
          /\ issued.accounts < MaxAccounts
          /\ issued.passwords < MaxPasswords
          /\ user' = [id |-> issued.accounts + 1, password |-> issued.passwords + 1,
                      version |-> 0, verified |-> FALSE, enabled |-> FALSE,
                      secret |-> 0, failed |-> 0, lockedUntil |-> 0]
          /\ issued' = [issued EXCEPT !.accounts = @ + 1, !.passwords = @ + 1,
                                      !.links = @ + 1]
          /\ streak' = 0
          /\ \E l \in Links :
               /\ FreshLink(l)
               /\ links' = [links EXCEPT ![l] = NewLink("verification", user'.id)]
       \/ /\ user # NoUser
          /\ UNCHANGED <<user, issued, links, streak>>
    /\ UNCHANGED <<codes, sessions, now, redeemed, replaced, resets>>

(* resendVerification and forgotPassword: read, then token and mail.       *)
AskForLink(w) ==
    /\ user # NoUser
    /\ \E op \in {"resend", "forgot"} :
         /\ op = "resend" => ~user.verified
         /\ Begin(w, [Blank EXCEPT !.op = op, !.id = user.id])
    /\ UNCHANGED <<user, codes, links, sessions, now, issued, history>>

(* The foreign key refuses the token of a user who is gone.                *)
CreateLink(w) ==
    /\ At(w, "resend") \/ At(w, "forgot")
    /\ Done(w)
    /\ \/ /\ StillThere(w)
          /\ \E l \in Links :
               /\ FreshLink(l)
               /\ links' = [links EXCEPT ![l] =
                    NewLink(IF At(w, "resend") THEN "verification" ELSE "reset",
                            user.id)]
          /\ issued' = [issued EXCEPT !.links = @ + 1]
       \/ ~StillThere(w) /\ UNCHANGED <<links, issued>>
    /\ UNCHANGED <<user, codes, sessions, now, history>>

(* verifyEmail up to its transaction.                                      *)
VerifyRead(w) ==
    /\ \E l \in Links :
         /\ links[l] # NoLink
         /\ links[l].kind = "verification"
         /\ ~user.verified
         /\ links[l].expiresAt > now
         /\ Begin(w, [Blank EXCEPT !.op = "verify", !.id = user.id])
    /\ UNCHANGED <<user, codes, links, sessions, now, issued, history>>

(* consumeVerificationTokensAndMarkEmailVerified: its first statement takes *)
(* all unused tokens of the user, ...                                      *)
TakeVerification(w) ==
    /\ At(w, "verify")
    /\ Take(w, Unused("verification", work[w].id), issued.links)
    /\ UNCHANGED <<user, codes, links, sessions, now, issued, history>>

(* ... and if none of them is left the request is refused.                 *)
VerifyEmail(w) ==
    LET consumed == work[w].taken \cap Unused("verification", work[w].id) IN
    /\ Commits(w, "verify")
    /\ Done(w)
    /\ links' = MarkUsed(consumed)
    /\ user' = IF consumed = {} THEN user ELSE [user EXCEPT !.verified = TRUE]
    /\ UNCHANGED <<codes, sessions, now, issued, history>>

-------------------------------------------------------------------------------
(* Login with a password.                                                  *)

(* attempt is the password the client sends: that of the row, or a wrong    *)
(* one, which an earlier password is too.                                  *)
LoginRead(w) ==
    /\ user # NoUser
    /\ user.lockedUntil <= now
    /\ \E attempt \in {0, user.password} :
         Begin(w, [Blank EXCEPT !.id = user.id, !.seen = Read, !.attempt = attempt])
    /\ UNCHANGED <<user, codes, links, sessions, now, issued, history>>

(* Mutant: the limit itself does not start the count again.                *)
CountFailure_OffByOne(failed) == IF failed + 1 > MaxFailed THEN 0 ELSE failed + 1

(* failed_login_count after one more failure: the last one starts again.   *)
CountFailure(failed) == IF failed + 1 >= MaxFailed THEN 0 ELSE failed + 1

(* recordFailedLoginAttempt: one UPDATE over the row as it is now.  Any    *)
(* failure but the last of a series sets locked_until to NULL.             *)
RecordFailure(w) ==
    /\ At(w, "login")
    /\ work[w].attempt # work[w].seen.password
    /\ Done(w)
    /\ IF StillThere(w)
       THEN /\ streak < MaxStreak
            /\ user' = [user EXCEPT
                 !.failed = CountFailure(@),
                 !.lockedUntil = IF user.failed + 1 >= MaxFailed
                                 THEN now + LockFor ELSE 0]
            /\ streak' = streak + 1
       ELSE UNCHANGED <<user, streak>>
    /\ UNCHANGED <<codes, links, sessions, now, issued, redeemed, replaced, resets>>

(* clearFailedLoginAttempts; an address that is not verified stops here.   *)
ClearFailures(w) ==
    /\ At(w, "login")
    /\ work[w].attempt = work[w].seen.password
    /\ IF StillThere(w)
       THEN /\ user' = [user EXCEPT !.failed = 0, !.lockedUntil = 0]
            /\ streak' = 0
            /\ IF work[w].seen.verified THEN Goto(w, "open") ELSE Done(w)
       ELSE Done(w) /\ UNCHANGED <<user, streak>>
    /\ UNCHANGED <<codes, links, sessions, now, issued, redeemed, replaced, resets>>

(* The controller: regenerate drops the session the browser came with and  *)
(* the new one holds the identity, or the challenge of a second factor.    *)
OpenSession(w) ==
    LET seen == work[w].seen IN
    /\ At(w, "open")
    /\ \E s \in Sids, old \in {r \in Sids : sessions[r] # NoSession} \cup {NoSid} :
         /\ FreshSid(s)
         /\ sessions' = [r \in Sids |->
              CASE r = s -> [kind |-> IF seen.enabled THEN "challenge" ELSE "auth",
                             user |-> seen.id, version |-> seen.version, wrong |-> 0,
                             password |-> seen.password]
                [] r = old -> NoSession
                [] OTHER -> sessions[r]]
    /\ Done(w)
    /\ UNCHANGED <<user, codes, links, now, issued, history>>

-------------------------------------------------------------------------------
(* The second factor.  express-session loads the row of the session at the *)
(* start of a request and writes the whole of it back.                     *)

ChallengeLoad(w) ==
    /\ \E s \in Sids :
         /\ sessions[s] # NoSession
         /\ sessions[s].kind = "challenge"
         /\ Begin(w, [Blank EXCEPT !.op = "challenge", !.sid = s, !.copy = sessions[s]])
    /\ UNCHANGED <<user, codes, links, sessions, now, issued, history>>

(* Mutant: the version of the challenge is not compared.                   *)
ChallengeHolds_AnyVersion(copy) ==
    /\ user # NoUser
    /\ user.id = copy.user
    /\ user.enabled
    /\ user.secret # 0

ChallengeHolds(copy) ==
    /\ user # NoUser
    /\ user.id = copy.user
    /\ user.version = copy.version
    /\ user.enabled
    /\ user.secret # 0

(* verifyLogin: the answer is a current code of the secret, a recovery     *)
(* code, or wrong.                                                         *)
ChallengeRead(w) ==
    LET copy == work[w].copy
        holds == ChallengeHolds(copy)
    IN
    /\ At(w, "challenge")
    /\ \/ /\ holds
          /\ work' = [work EXCEPT ![w].op = "proved", ![w].id = user.id,
                                  ![w].version = user.version]
       \/ /\ holds
          /\ \E c \in codes :
               work' = [work EXCEPT ![w].op = "redeem", ![w].id = user.id,
                                     ![w].version = user.version, ![w].code = c]
       \/ Goto(w, "wrong")
    /\ UNCHANGED <<user, codes, links, sessions, now, issued, history>>

(* Mutant: the update does not ask that the code be unused.                *)
Redeemable_Listed(c) == TRUE

Redeemable(c) == c \in codes

(* consumeRecoveryCode: the update decides, whatever the list said.  The   *)
(* same for a login (sid # NoSid) and for a step-up.                       *)
Redeem(w) ==
    LET c == work[w].code IN
    /\ At(w, "redeem")
    /\ IF Redeemable(c)
       THEN /\ codes' = codes \ {c}
            /\ redeemed' = [redeemed EXCEPT ![c] = @ + 1]
            /\ IF work[w].sid = NoSid THEN Done(w) ELSE Goto(w, "proved")
       ELSE /\ UNCHANGED <<codes, redeemed>>
            /\ IF work[w].sid = NoSid THEN Done(w) ELSE Goto(w, "wrong")
    /\ UNCHANGED <<user, links, sessions, now, issued, replaced, resets, streak>>

(* recordFailedTwoFactorChallengeAttempt: the count of the copy goes up    *)
(* and the copy is stored, over whatever the row has become.               *)
RecordWrong(w) ==
    LET wrong == work[w].copy.wrong + 1 IN
    /\ At(w, "wrong")
    /\ sessions' = [sessions EXCEPT ![work[w].sid] =
         IF wrong >= MaxWrong THEN NoSession
         ELSE [work[w].copy EXCEPT !.wrong = wrong]]
    /\ Done(w)
    /\ UNCHANGED <<user, codes, links, now, issued, history>>

(* finalizeTwoFactorSession and saveSession.                               *)
OpenProved(w) ==
    /\ At(w, "proved")
    /\ sessions' = [sessions EXCEPT ![work[w].sid] =
         [work[w].copy EXCEPT !.kind = "auth", !.wrong = 0,
                              !.user = work[w].id,
                              !.version = work[w].version]]
    /\ Done(w)
    /\ UNCHANGED <<user, codes, links, now, issued, history>>

-------------------------------------------------------------------------------
(* Routes behind SessionGuard: the guard and the handler's read, then the  *)
(* handler's transaction.                                                  *)

GuardedRead(w) ==
    /\ \E s \in Sids : Passes(s)
    /\ \/ \E op \in {"change", "setup", "enable", "disable"} :
            /\ op = "setup" => ~user.enabled
            /\ op = "enable" => ~user.enabled /\ user.secret # 0
            /\ op = "disable" => user.enabled
            /\ Begin(w, [Blank EXCEPT !.op = op, !.id = user.id])
       \/ /\ user.enabled
          /\ user.secret # 0
          /\ \E c \in codes :
               Begin(w, [Blank EXCEPT !.op = "redeem", !.id = user.id, !.code = c])
    /\ UNCHANGED <<user, codes, links, sessions, now, issued, history>>

(* The row is updated by id; if it is gone the request fails.              *)
Fails(w) ==
    /\ \E op \in {"change", "setup", "enable", "disable"} : At(w, op)
    /\ ~StillThere(w)
    /\ Done(w)
    /\ UNCHANGED <<user, codes, links, sessions, now, issued, history>>

(* Mutant: sessions are deleted and their version stays.                   *)
WithPassword_SameVersion(row, password) == [row EXCEPT !.password = password]

WithPassword(row, password) ==
    [row EXCEPT !.password = password, !.version = @ + 1]

(* changePassword.  The current password was verified against the row that *)
(* was read.                                                               *)
ChangePassword(w) ==
    /\ At(w, "change")
    /\ StillThere(w)
    /\ issued.passwords < MaxPasswords
    /\ user' = WithPassword(user, issued.passwords + 1)
    /\ issued' = [issued EXCEPT !.passwords = @ + 1]
    /\ sessions' = SessionsWithout(user.id)
    /\ Done(w)
    /\ UNCHANGED <<codes, links, now, history>>

(* resetPassword up to its transaction.                                    *)
ResetRead(w) ==
    /\ \E l \in Links :
         /\ links[l] # NoLink
         /\ links[l].kind = "reset"
         /\ links[l].expiresAt > now
         /\ Begin(w, [Blank EXCEPT !.op = "reset", !.id = user.id,
                                   !.link = l, !.at = now])
    /\ UNCHANGED <<user, codes, links, sessions, now, issued, history>>

(* resetPasswordWithToken consumes the presented token and then takes the  *)
(* other reset tokens of the user, ...                                     *)
TakeResetLinks(w) ==
    /\ At(w, "reset")
    /\ Take(w, Unused("reset", work[w].id), issued.links)
    /\ UNCHANGED <<user, codes, links, sessions, now, issued, history>>

(* Mutant: only the presented token is consumed.                           *)
Superseded_Itself(w) == {work[w].link}

Superseded(w) == {work[w].link} \cup work[w].taken

(* ... and changes the password.  The presented token must be unused.  It   *)
(* is locked from there to the commit, where the model looks at it.        *)
ResetPassword(w) ==
    LET link == links[work[w].link] IN
    /\ Commits(w, "reset")
    /\ Done(w)
    /\ IF link # NoLink /\ link.expiresAt > work[w].at
       THEN /\ issued.passwords < MaxPasswords
            /\ links' = MarkUsed(Superseded(w))
            /\ user' = WithPassword(user, issued.passwords + 1)
            /\ issued' = [issued EXCEPT !.passwords = @ + 1]
            /\ sessions' = SessionsWithout(user.id)
            /\ resets' = Append(resets, [link |-> link.number, since |-> work[w].since])
       ELSE UNCHANGED <<links, user, issued, sessions, resets>>
    /\ UNCHANGED <<codes, now, redeemed, replaced, streak>>

(* Setup, activation and disabling begin by deleting the codes, ...        *)
TakeCodes(w) ==
    /\ \E op \in {"setup", "enable", "disable"} : At(w, op)
    /\ StillThere(w)
    /\ Take(w, codes, issued.batches)
    /\ UNCHANGED <<user, codes, links, sessions, now, issued, history>>

(* Mutant: the codes of an earlier activation stay.                        *)
Remaining_All(w) == codes

(* ... of which a later one was not seen and stays.                        *)
Remaining(w) == codes \ work[w].taken

ChangesCodes(w, op) ==
    /\ Commits(w, op)
    /\ StillThere(w)
    /\ Done(w)
    /\ replaced' = IF work[w].since > replaced THEN work[w].since ELSE replaced

(* replaceTwoFactorSetupSecret.                                            *)
SetupTwoFactor(w) ==
    /\ ChangesCodes(w, "setup")
    /\ issued.secrets < MaxSecrets
    /\ codes' = Remaining(w)
    /\ user' = [user EXCEPT !.enabled = FALSE, !.secret = issued.secrets + 1]
    /\ issued' = [issued EXCEPT !.secrets = @ + 1]
    /\ UNCHANGED <<links, sessions, now, redeemed, resets, streak>>

(* enableTwoFactorForUser.                                                 *)
EnableTwoFactor(w) ==
    /\ ChangesCodes(w, "enable")
    /\ issued.batches < MaxBatches
    /\ codes' = Remaining(w) \cup ({issued.batches + 1} \X (1 .. CodesPerBatch))
    /\ user' = [user EXCEPT !.enabled = TRUE]
    /\ issued' = [issued EXCEPT !.batches = @ + 1]
    /\ UNCHANGED <<links, sessions, now, redeemed, resets, streak>>

(* disableTwoFactorForUser.                                                *)
DisableTwoFactor(w) ==
    /\ ChangesCodes(w, "disable")
    /\ codes' = Remaining(w)
    /\ user' = [user EXCEPT !.enabled = FALSE, !.secret = 0]
    /\ UNCHANGED <<links, sessions, now, issued, redeemed, resets, streak>>

Logout(s) ==
    /\ Passes(s)
    /\ sessions' = [sessions EXCEPT ![s] = NoSession]
    /\ UNCHANGED <<user, codes, links, work, now, issued, history>>

(* deleteMe: the row, with its tokens and codes by cascade, and the        *)
(* sessions that name the user.                                            *)
DeleteAccount(s) ==
    /\ Passes(s)
    /\ user' = NoUser
    /\ codes' = {}
    /\ links' = [l \in Links |-> NoLink]
    /\ sessions' = SessionsWithout(user.id)
    /\ UNCHANGED <<work, now, issued, history>>

Tick ==
    /\ now < MaxNow
    /\ now' = now + 1
    /\ UNCHANGED <<user, codes, links, sessions, work, issued, history>>

-------------------------------------------------------------------------------
(* An account registered and verified earlier; its used token is gone.     *)
Verified ==
    [id |-> 1, password |-> 1, version |-> 0, verified |-> TRUE, enabled |-> FALSE,
     secret |-> 0, failed |-> 0, lockedUntil |-> 0]

Init ==
    /\ user \in {NoUser, Verified}
    /\ codes = {}
    /\ links = [l \in Links |-> NoLink]
    /\ sessions = [s \in Sids |-> NoSession]
    /\ work = [w \in Workers |-> Idle]
    /\ now = 0
    /\ LET n == IF user = NoUser THEN 0 ELSE 1
       IN  issued = [accounts |-> n, passwords |-> n, secrets |-> 0, batches |-> 0,
                     links |-> n]
    /\ redeemed = [c \in Codes |-> 0]
    /\ replaced = 0
    /\ resets = <<>>
    /\ streak = 0

Step(w) ==
    \/ RegisterRead(w) \/ CreateUser(w) \/ AskForLink(w) \/ CreateLink(w)
    \/ VerifyRead(w) \/ TakeVerification(w) \/ VerifyEmail(w)
    \/ LoginRead(w) \/ RecordFailure(w) \/ ClearFailures(w) \/ OpenSession(w)
    \/ ChallengeLoad(w) \/ ChallengeRead(w) \/ Redeem(w)
    \/ RecordWrong(w) \/ OpenProved(w)
    \/ GuardedRead(w) \/ Fails(w) \/ ChangePassword(w)
    \/ ResetRead(w) \/ TakeResetLinks(w) \/ ResetPassword(w)
    \/ TakeCodes(w) \/ SetupTwoFactor(w) \/ EnableTwoFactor(w) \/ DisableTwoFactor(w)

Next ==
    \/ \E w \in Workers : Step(w)
    \/ \E s \in Sids : Logout(s) \/ DeleteAccount(s)
    \/ Tick

Spec == Init /\ [][Next]_vars

-------------------------------------------------------------------------------
(* Properties.                                                             *)

(* The row, its tokens, codes and sessions and the requests in flight over *)
(* them (auth.repository.ts) are well typed.                               *)
TypeOK ==
    /\ user \in User \cup {NoUser}
    /\ codes \in SUBSET Codes
    /\ links \in [Links -> Link \cup {NoLink}]
    /\ sessions \in [Sids -> Session \cup {NoSession}]
    /\ work \in [Workers -> Request \cup {Idle}]
    /\ now \in 0 .. MaxNow
    /\ issued \in [accounts : 0 .. MaxAccounts, passwords : 0 .. MaxPasswords,
                   secrets : 0 .. MaxSecrets, batches : 0 .. MaxBatches, links : Nat]
    /\ redeemed \in [Codes -> Nat]
    /\ replaced \in Nat
    /\ resets \in Seq([link : Nat, since : Nat])
    /\ streak \in 0 .. MaxStreak

(* A session that the guard lets through was opened with the password the  *)
(* account has now, however the login, its second factor, a change of the  *)
(* password, a reset and the deletion of the account were interleaved.     *)
SessionsBehindPassword ==
    \A s \in Sids : Passes(s) => sessions[s].password = user.password

(* A recovery code is accepted once, by a login or by a step-up.           *)
CodeRedeemedOnce ==
    \A c \in Codes : redeemed[c] <= 1

(* Each reset of the password used a link issued after every reset before  *)
(* it had taken the links of the account: a link works once, and one that  *)
(* a reset found does not work after it, however resets overlap.  (A link  *)
(* issued between the second statement of a reset and its commit does.)    *)
ResetsInOrder ==
    \A i, j \in DOMAIN resets : i < j => resets[j].link > resets[i].since

(* No failed login is lost from the count, whatever other failures are     *)
(* being verified at the time.                                             *)
FailuresCounted ==
    user # NoUser => user.failed = streak % MaxFailed

(* A recovery code that works was issued by an activation that committed   *)
(* after every setup, activation and disabling that has committed took the *)
(* codes: codes outlive only a change that overlaps with the activation    *)
(* that issued them, and not the account.                                  *)
OldCodesGone ==
    /\ \A c \in codes : c[1] > replaced
    /\ codes # {} => user # NoUser

(* What the tests say of setup: it is refused once two-factor              *)
(* authentication is on, so only disabling it, which drops the secret,     *)
(* turns it off.                                                           *)
SetupKeepsTwoFactor ==
    [][user # NoUser /\ user' # NoUser /\ user.enabled /\ ~user'.enabled
       => user'.secret = 0]_vars
===============================================================================
