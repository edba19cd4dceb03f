----------------------------- MODULE AccountsProofs -----------------------------
(***************************************************************************)
(* Theorems about Accounts: its types, and that no session outlives its    *)
(* password, no recovery code and no reset link works twice, no failed     *)
(* login is lost, and a code or a reset link that a change of its user has *)
(* taken does not work after it.                                           *)
(***************************************************************************)
EXTENDS Accounts, TLAPS

-------------------------------------------------------------------------------
(* The inductive invariant.                                                *)

(* What a request at each of its steps knows.  A challenge carries its     *)
(* session, a code that is redeemed for a login too; a reset its link.     *)
OnChallenge(r) ==
    \/ r.op \in {"challenge", "wrong", "proved"}
    \/ r.op = "redeem" /\ r.sid # NoSid

Carries(r) ==
    /\ r.op \in {"login", "open"} => r.seen \in Seen
    /\ OnChallenge(r) => r.sid \in Sids /\ r.copy \in Session
    /\ r.op \in {"redeem", "proved"} => r.id \in 1 .. MaxAccounts
    /\ r.op = "redeem" => r.code \in Codes
    /\ r.op = "reset" => r.link \in Links

(* Tokens go with their account by the foreign key's cascade.              *)
LinksOwned ==
    \A l \in Links :
      links[l] # NoLink => user # NoUser /\ links[l].user = user.id

Valid == {r \in Request \cup {Idle} : Carries(r)}

TInv ==
    /\ TypeOK
    /\ work \in [Workers -> Valid]
    /\ LinksOwned

(* A password that was given for a version of an account is still that of  *)
(* the account, unless the version has moved on.                           *)
Sound(id, version, password) ==
    /\ id <= issued.accounts
    /\ user # NoUser /\ id = user.id =>
         /\ version <= user.version
         /\ version = user.version => password = user.password

SoundSession(s) == Sound(s.user, s.version, s.password)

(* What a login or a challenge may still turn into a session is sound.     *)
SoundRequest(r) ==
    /\ r.op \in {"login", "open"} => Sound(r.seen.id, r.seen.version, r.seen.password)
    /\ OnChallenge(r) => SoundSession(r.copy)
    /\ OnChallenge(r) /\ r.op \in {"redeem", "proved"} =>
         r.copy.user = r.id /\ r.copy.version = r.version

PInv ==
    /\ user # NoUser => user.id <= issued.accounts
    /\ \A s \in Sids : sessions[s] # NoSession => SoundSession(sessions[s])
    /\ \A w \in Workers : SoundRequest(work[w])

(* A transaction that has taken the codes or the links of its user.        *)
Begun(r) ==
    r.op \in {"verify", "reset", "setup", "enable", "disable"} /\ r.begun

(* A code that works, or is yet to be issued, was not redeemed; and a      *)
(* change of two-factor authentication has taken every code that works and *)
(* was issued before it took them.                                         *)
CInv ==
    /\ OldCodesGone
    /\ replaced <= issued.batches
    /\ \A c \in codes : c[1] <= issued.batches
    /\ \A c \in Codes :
         /\ redeemed[c] <= 1
         /\ c \in codes \/ c[1] > issued.batches => redeemed[c] = 0
    /\ \A w \in Workers :
         Begun(work[w]) /\ work[w].op \in {"setup", "enable", "disable"} =>
           /\ work[w].since <= issued.batches
           /\ \A c \in codes : c[1] <= work[w].since => c \in work[w].taken

(* The reset links that work were issued after every reset took the links  *)
(* of its user.  A reset in flight has one of its user's or one that is    *)
(* used up, and has taken those that work and were issued before that.     *)
WorksForReset(l) == links[l] # NoLink /\ links[l].kind = "reset"

RInv ==
    /\ ResetsInOrder
    /\ \A i \in DOMAIN resets : resets[i].since <= issued.links
    /\ \A l \in Links :
         WorksForReset(l) => \A i \in DOMAIN resets : links[l].number > resets[i].since
    /\ \A w \in Workers :
         work[w].op = "reset" /\ links[work[w].link] # NoLink =>
           /\ links[work[w].link].kind = "reset"
           /\ links[work[w].link].user = work[w].id
    /\ \A w \in Workers :
         Begun(work[w]) /\ work[w].op = "reset" =>
           /\ work[w].since <= issued.links
           /\ \A l \in Links :
                WorksForReset(l) /\ links[l].user = work[w].id /\ links[l].number <= work[w].since
                => l \in work[w].taken

-------------------------------------------------------------------------------
(* Types.                                                                  *)

LEMMA IdleValid == Idle \in Valid
  BY DEF Valid, Carries, OnChallenge, Idle

(* A request starts blank but for what it needs.                           *)
LEMMA BlankValid ==
    ASSUME NEW r \in Request, Carries(r)
    PROVE  r \in Valid
  BY DEF Valid

LEMMA InitTyped == Init => TInv
  <1>. SUFFICES ASSUME Init  PROVE TInv
    OBVIOUS
  <1>1. Verified \in User
    BY AccountsAssumption DEF Verified, User
  <1>2. work \in [Workers -> Valid]
    BY IdleValid DEF Init
  <1>3. work \in [Workers -> Request \cup {Idle}]
    BY DEF Init
  <1>4. LinksOwned
    BY DEF Init, LinksOwned
  <1>5. issued \in [accounts : 0 .. MaxAccounts, passwords : 0 .. MaxPasswords,
                    secrets : 0 .. MaxSecrets, batches : 0 .. MaxBatches, links : Nat]
    BY AccountsAssumption DEF Init
  <1>6. redeemed \in [Codes -> Nat] /\ resets \in Seq([link : Nat, since : Nat])
    BY DEF Init
  <1>. QED
    BY <1>1, <1>2, <1>3, <1>4, <1>5, <1>6, AccountsAssumption DEF Init, TInv, TypeOK

(* The bounds as the leaves need them.                                     *)
LEMMA Bounds ==
    /\ MaxFailed \in Nat \ {0} /\ MaxWrong \in Nat \ {0}
    /\ LockFor \in Nat /\ LinkTTL \in Nat
    /\ MaxAccounts \in Nat \ {0} /\ MaxPasswords \in Nat \ {0}
    /\ MaxSecrets \in Nat /\ MaxBatches \in Nat /\ MaxStreak \in Nat /\ MaxNow \in Nat
  BY AccountsAssumption

LEMMA IssuedTyped ==
    ASSUME TInv
    PROVE  /\ now \in 0 .. MaxNow
           /\ issued.accounts \in 0 .. MaxAccounts /\ issued.passwords \in 0 .. MaxPasswords
           /\ issued.secrets \in 0 .. MaxSecrets /\ issued.batches \in 0 .. MaxBatches
           /\ issued.links \in Nat /\ replaced \in Nat
  <1>1. /\ now \in 0 .. MaxNow
        /\ issued \in [accounts : 0 .. MaxAccounts, passwords : 0 .. MaxPasswords,
                       secrets : 0 .. MaxSecrets, batches : 0 .. MaxBatches, links : Nat]
        /\ replaced \in Nat
    BY DEF TInv, TypeOK
  <1>. QED  BY <1>1

LEMMA ResetsTyped ==
    ASSUME TInv
    PROVE  /\ resets \in Seq([link : Nat, since : Nat]) /\ Len(resets) \in Nat
           /\ \A i \in DOMAIN resets : resets[i].since \in Nat
  <1>. DEFINE Entry == [link : Nat, since : Nat]
  <1>1. \A e \in Entry : e.since \in Nat
    OBVIOUS
  <1>2. resets \in Seq(Entry)
    BY DEF TInv, TypeOK
  <1>. HIDE DEF Entry
  <1>3. Len(resets) \in Nat /\ \A i \in DOMAIN resets : resets[i] \in Entry
    BY <1>2
  <1>. QED  BY <1>1, <1>2, <1>3 DEF Entry

LEMMA AtTyped ==
    ASSUME TInv, NEW w \in Workers, work[w].op # "idle"
    PROVE  work[w] \in Request /\ Carries(work[w])
  BY DEF TInv, Valid, Idle

(* The ways in which a request starts, goes on and ends.                   *)
LEMMA BeginTyped ==
    ASSUME TInv, NEW w \in Workers, NEW r \in Request, Carries(r), Begin(w, r)
    PROVE  work' \in [Workers -> Valid]
  BY BlankValid DEF TInv, Begin

LEMMA GotoTyped ==
    ASSUME TInv, NEW w \in Workers, NEW op \in Steps, work[w].op # "idle", Goto(w, op),
           Carries([work[w] EXCEPT !.op = op])
    PROVE  work' \in [Workers -> Valid]
  <1>1. [work[w] EXCEPT !.op = op] \in Request
    BY AtTyped DEF Request
  <1>. QED  BY <1>1, BlankValid DEF TInv, Goto

LEMMA DoneTyped ==
    ASSUME TInv, NEW w \in Workers, Done(w)
    PROVE  work' \in [Workers -> Valid]
  BY IdleValid DEF TInv, Done

LEMMA UserId ==
    ASSUME TInv, user # NoUser
    PROVE  /\ user \in User
           /\ user.id \in 1 .. MaxAccounts
           /\ user.id \in 0 .. MaxAccounts
  <1>1. user \in User
    BY DEF TInv, TypeOK
  <1>2. user.id \in 1 .. MaxAccounts
    BY <1>1 DEF User
  <1>. QED  BY <1>1, <1>2, AccountsAssumption

LEMMA ReadTyped == user \in User => Read \in Seen
  BY DEF Read, User, Seen

(* A step that only moves the request.                                     *)
LEMMA OnlyWork ==
    ASSUME TInv, work' \in [Workers -> Valid],
           UNCHANGED <<user, codes, links, sessions, now, issued, history>>
    PROVE  TInv'
  <1>1. work' \in [Workers -> Request \cup {Idle}]
    BY DEF Valid
  <1>. QED  BY <1>1 DEF TInv, TypeOK, LinksOwned, history

(* The requests that begin.                                                *)
LEMMA ReadsTyped ==
    ASSUME TInv, NEW w \in Workers,
           \/ RegisterRead(w) \/ AskForLink(w) \/ VerifyRead(w) \/ LoginRead(w)
           \/ ChallengeLoad(w) \/ GuardedRead(w) \/ ResetRead(w)
    PROVE  TInv'
  <1>. DEFINE unchanged == UNCHANGED <<user, codes, links, sessions, now, issued, history>>
  <1>0. Blank \in Request /\ user \in User \cup {NoUser} /\ now \in 0 .. MaxNow
    BY AccountsAssumption DEF Blank, Request, Steps, TInv, TypeOK
  <1>1. CASE RegisterRead(w)
    <2>1. [Blank EXCEPT !.op = "register"] \in Request
      BY <1>0 DEF Request, Steps
    <2>2. Carries([Blank EXCEPT !.op = "register"])
      BY DEF Carries, OnChallenge, Blank
    <2>. QED  BY <1>1, <2>1, <2>2, BeginTyped, OnlyWork DEF RegisterRead
  <1>2. CASE AskForLink(w)
    <2>1. PICK op \in {"resend", "forgot"} : Begin(w, [Blank EXCEPT !.op = op, !.id = user.id])
      BY <1>2 DEF AskForLink
    <2>2. [Blank EXCEPT !.op = op, !.id = user.id] \in Request
      BY <1>0, <1>2, UserId DEF AskForLink, Request, Steps
    <2>3. Carries([Blank EXCEPT !.op = op, !.id = user.id])
      BY DEF Carries, OnChallenge, Blank
    <2>. QED  BY <1>2, <2>1, <2>2, <2>3, BeginTyped, OnlyWork DEF AskForLink
  <1>3. CASE VerifyRead(w)
    <2>1. user # NoUser /\ Begin(w, [Blank EXCEPT !.op = "verify", !.id = user.id])
      BY <1>3 DEF VerifyRead, TInv, LinksOwned
    <2>2. [Blank EXCEPT !.op = "verify", !.id = user.id] \in Request
      BY <1>0, <2>1, UserId DEF Request, Steps
    <2>3. Carries([Blank EXCEPT !.op = "verify", !.id = user.id])
      BY DEF Carries, OnChallenge, Blank
    <2>. QED  BY <1>3, <2>1, <2>2, <2>3, BeginTyped, OnlyWork DEF VerifyRead
  <1>4. CASE LoginRead(w)
    <2>1. PICK attempt \in {0, user.password} :
            Begin(w, [Blank EXCEPT !.id = user.id, !.seen = Read, !.attempt = attempt])
      BY <1>4 DEF LoginRead
    <2>. DEFINE r == [Blank EXCEPT !.id = user.id, !.seen = Read, !.attempt = attempt]
    <2>2. user \in User /\ Read \in Seen
      BY <1>0, <1>4, ReadTyped DEF LoginRead
    <2>3a. user.id \in 0 .. MaxAccounts /\ attempt \in 0 .. MaxPasswords
      BY <1>4, <2>2, UserId, AccountsAssumption DEF LoginRead, User
    <2>3. r \in Request
      BY <1>0, <2>2, <2>3a DEF Request, Steps
    <2>4. Carries(r)
      BY <2>2, <2>3 DEF Carries, OnChallenge, Blank
    <2>. QED  BY <1>4, <2>1, <2>3, <2>4, BeginTyped, OnlyWork DEF LoginRead
  <1>5. CASE ChallengeLoad(w)
    <2>1. PICK s \in Sids :
            /\ sessions[s] # NoSession
            /\ Begin(w, [Blank EXCEPT !.op = "challenge", !.sid = s, !.copy = sessions[s]])
      BY <1>5 DEF ChallengeLoad
    <2>. DEFINE r == [Blank EXCEPT !.op = "challenge", !.sid = s, !.copy = sessions[s]]
    <2>2. sessions[s] \in Session
      BY <2>1 DEF TInv, TypeOK
    <2>3. r \in Request
      BY <1>0, <2>2 DEF Request, Steps
    <2>4. Carries(r)
      BY <2>2 DEF Carries, OnChallenge, Blank
    <2>. QED  BY <1>5, <2>1, <2>3, <2>4, BeginTyped, OnlyWork DEF ChallengeLoad
  <1>6. CASE GuardedRead(w)
    <2>0. user \in User /\ user.id \in 1 .. MaxAccounts /\ user.id \in 0 .. MaxAccounts
      BY <1>6, UserId DEF GuardedRead, Passes
    <2>1. CASE \E op \in {"change", "setup", "enable", "disable"} :
                 Begin(w, [Blank EXCEPT !.op = op, !.id = user.id])
      <3>1. PICK op \in {"change", "setup", "enable", "disable"} :
              Begin(w, [Blank EXCEPT !.op = op, !.id = user.id])
        BY <2>1
      <3>2. [Blank EXCEPT !.op = op, !.id = user.id] \in Request
        BY <1>0, <2>0 DEF Request, Steps
      <3>3. Carries([Blank EXCEPT !.op = op, !.id = user.id])
        BY DEF Carries, OnChallenge, Blank
      <3>. QED  BY <1>6, <3>1, <3>2, <3>3, BeginTyped, OnlyWork DEF GuardedRead
    <2>2. CASE \E c \in codes :
                 Begin(w, [Blank EXCEPT !.op = "redeem", !.id = user.id, !.code = c])
      <3>1. PICK c \in codes :
              Begin(w, [Blank EXCEPT !.op = "redeem", !.id = user.id, !.code = c])
        BY <2>2
      <3>. DEFINE r == [Blank EXCEPT !.op = "redeem", !.id = user.id, !.code = c]
      <3>2. c \in Codes
        BY DEF TInv, TypeOK
      <3>3. r \in Request
        BY <1>0, <2>0, <3>2 DEF Request, Steps
      <3>4. Carries(r)
        BY <1>0, <2>0, <3>2 DEF Carries, OnChallenge, Blank, Request
      <3>. QED  BY <1>6, <3>1, <3>3, <3>4, BeginTyped, OnlyWork DEF GuardedRead
    <2>. QED  BY <1>6, <2>1, <2>2 DEF GuardedRead
  <1>7. CASE ResetRead(w)
    <2>1. PICK l \in Links :
            /\ links[l] # NoLink
            /\ Begin(w, [Blank EXCEPT !.op = "reset", !.id = user.id, !.link = l, !.at = now])
      BY <1>7 DEF ResetRead
    <2>. DEFINE r == [Blank EXCEPT !.op = "reset", !.id = user.id, !.link = l, !.at = now]
    <2>2. user.id \in 0 .. MaxAccounts
      BY <2>1, UserId DEF TInv, LinksOwned
    <2>3. r \in Request
      BY <1>0, <2>2 DEF Request, Steps
    <2>4. Carries(r)
      BY DEF Carries, OnChallenge, Blank
    <2>. QED  BY <1>7, <2>1, <2>3, <2>4, BeginTyped, OnlyWork DEF ResetRead
  <1>. QED  BY <1>1, <1>2, <1>3, <1>4, <1>5, <1>6, <1>7

(* What the updates do to the row.                                         *)
LEMMA WithPasswordTyped ==
    ASSUME NEW row \in User, NEW password \in 1 .. MaxPasswords
    PROVE  /\ WithPassword(row, password) \in User
           /\ WithPassword(row, password).id = row.id
           /\ WithPassword(row, password).version = row.version + 1
           /\ WithPassword(row, password).password = password
           /\ row.version \in Nat
  <1>1. row.version \in Nat /\ row.version + 1 \in Nat
    BY DEF User
  <1>. QED  BY <1>1 DEF WithPassword, User

LEMMA LockTyped ==
    ASSUME NEW row \in User, NEW failed \in 0 .. MaxFailed - 1,
           NEW until \in 0 .. MaxNow + LockFor
    PROVE  /\ [row EXCEPT !.failed = failed, !.lockedUntil = until] \in User
           /\ [row EXCEPT !.failed = failed, !.lockedUntil = until].id = row.id
  BY DEF User

LEMMA TwoFactorTyped ==
    ASSUME NEW row \in User, NEW enabled \in BOOLEAN, NEW secret \in 0 .. MaxSecrets
    PROVE  /\ [row EXCEPT !.enabled = enabled, !.secret = secret] \in User
           /\ [row EXCEPT !.enabled = enabled, !.secret = secret].id = row.id
           /\ [row EXCEPT !.enabled = enabled] \in User
           /\ [row EXCEPT !.enabled = enabled].id = row.id
  BY DEF User

Issued == [accounts : 0 .. MaxAccounts, passwords : 0 .. MaxPasswords,
           secrets : 0 .. MaxSecrets, batches : 0 .. MaxBatches, links : Nat]

LEMMA IssueOne ==
    ASSUME TInv
    PROVE  /\ issued \in Issued
           /\ issued.passwords < MaxPasswords =>
                /\ issued.passwords + 1 \in 1 .. MaxPasswords
                /\ [issued EXCEPT !.passwords = @ + 1] \in Issued
           /\ issued.accounts < MaxAccounts /\ issued.passwords < MaxPasswords =>
                /\ issued.accounts + 1 \in 1 .. MaxAccounts
                /\ [issued EXCEPT !.accounts = @ + 1, !.passwords = @ + 1, !.links = @ + 1] \in Issued
           /\ [issued EXCEPT !.links = @ + 1] \in Issued
           /\ issued.secrets < MaxSecrets =>
                /\ issued.secrets + 1 \in 0 .. MaxSecrets
                /\ [issued EXCEPT !.secrets = @ + 1] \in Issued
           /\ issued.batches < MaxBatches =>
                /\ issued.batches + 1 \in 1 .. MaxBatches
                /\ [issued EXCEPT !.batches = @ + 1] \in Issued
  <1>0. issued \in Issued
    BY DEF TInv, TypeOK, Issued
  <1>1. ASSUME issued.passwords < MaxPasswords
        PROVE  /\ issued.passwords + 1 \in 1 .. MaxPasswords
               /\ [issued EXCEPT !.passwords = @ + 1] \in Issued
    <2>1. issued.passwords + 1 \in 1 .. MaxPasswords /\ issued.passwords + 1 \in 0 .. MaxPasswords
      BY <1>1, IssuedTyped, Bounds
    <2>2. [issued EXCEPT !.passwords = @ + 1] \in Issued
      BY <1>0, <2>1 DEF Issued
    <2>. QED  BY <2>1, <2>2
  <1>2. ASSUME issued.accounts < MaxAccounts, issued.passwords < MaxPasswords
        PROVE  /\ issued.accounts + 1 \in 1 .. MaxAccounts
               /\ [issued EXCEPT !.accounts = @ + 1, !.passwords = @ + 1, !.links = @ + 1] \in Issued
    <2>1. /\ issued.accounts + 1 \in 1 .. MaxAccounts /\ issued.accounts + 1 \in 0 .. MaxAccounts
          /\ issued.passwords + 1 \in 0 .. MaxPasswords /\ issued.links + 1 \in Nat
      BY <1>2, IssuedTyped, Bounds
    <2>2. [issued EXCEPT !.accounts = @ + 1, !.passwords = @ + 1, !.links = @ + 1] \in Issued
      BY <1>0, <2>1 DEF Issued
    <2>. QED  BY <2>1, <2>2
  <1>3. ASSUME issued.secrets < MaxSecrets
        PROVE  /\ issued.secrets + 1 \in 0 .. MaxSecrets
               /\ [issued EXCEPT !.secrets = @ + 1] \in Issued
    <2>1. issued.secrets + 1 \in 0 .. MaxSecrets
      BY <1>3, IssuedTyped, Bounds
    <2>2. [issued EXCEPT !.secrets = @ + 1] \in Issued
      BY <1>0, <2>1 DEF Issued
    <2>. QED  BY <2>1, <2>2
  <1>4. ASSUME issued.batches < MaxBatches
        PROVE  /\ issued.batches + 1 \in 1 .. MaxBatches
               /\ [issued EXCEPT !.batches = @ + 1] \in Issued
    <2>1. issued.batches + 1 \in 1 .. MaxBatches /\ issued.batches + 1 \in 0 .. MaxBatches
      BY <1>4, IssuedTyped, Bounds
    <2>2. [issued EXCEPT !.batches = @ + 1] \in Issued
      BY <1>0, <2>1 DEF Issued
    <2>. QED  BY <2>1, <2>2
  <1>5. [issued EXCEPT !.links = @ + 1] \in Issued
    <2>1. issued.links + 1 \in Nat
      BY IssuedTyped
    <2>. QED  BY <1>0, <2>1 DEF Issued
  <1>. QED  BY <1>0, <1>1, <1>2, <1>3, <1>4, <1>5

LEMMA CountFailureTyped ==
    ASSUME NEW n \in 0 .. MaxFailed - 1
    PROVE  CountFailure(n) \in 0 .. MaxFailed - 1
  BY AccountsAssumption DEF CountFailure

(* The requests that change the row of the user or its tokens.             *)
LEMMA WritesTyped ==
    ASSUME TInv, NEW w \in Workers,
           \/ CreateUser(w) \/ CreateLink(w) \/ VerifyEmail(w)
           \/ RecordFailure(w) \/ ClearFailures(w)
           \/ ChangePassword(w) \/ ResetPassword(w)
           \/ SetupTwoFactor(w) \/ EnableTwoFactor(w) \/ DisableTwoFactor(w)
    PROVE  TInv'
  <1>0. /\ now \in 0 .. MaxNow
        /\ issued.accounts \in 0 .. MaxAccounts /\ issued.passwords \in 0 .. MaxPasswords
        /\ issued.secrets \in 0 .. MaxSecrets /\ issued.batches \in 0 .. MaxBatches
        /\ issued.links \in Nat
        /\ resets \in Seq([link : Nat, since : Nat]) /\ Len(resets) \in Nat
        /\ MaxAccounts \in Nat /\ MaxPasswords \in Nat /\ MaxSecrets \in Nat
        /\ MaxBatches \in Nat /\ MaxNow \in Nat /\ LinkTTL \in Nat /\ LockFor \in Nat
    BY IssuedTyped, ResetsTyped, Bounds
  <1>1. work' \in [Workers -> Valid] /\ work' \in [Workers -> Request \cup {Idle}]
    <2>1. CASE Done(w)
      BY <2>1, DoneTyped DEF Valid
    <2>2. CASE ClearFailures(w) /\ Goto(w, "open")
      <3>1. /\ work[w].op = "login"
            /\ work[w] \in Request
            /\ Carries(work[w])
        BY <2>2, AtTyped DEF ClearFailures, At
      <3>2. Carries([work[w] EXCEPT !.op = "open"])
        BY <3>1 DEF Carries, OnChallenge, Request
      <3>. QED  BY <2>2, <3>1, <3>2, GotoTyped DEF Steps, Valid
    <2>. QED  BY <2>1, <2>2 DEF CreateUser, CreateLink, VerifyEmail, RecordFailure, ClearFailures,
                ChangePassword, ResetPassword, SetupTwoFactor, EnableTwoFactor, DisableTwoFactor,
                ChangesCodes
  <1>2. CASE CreateUser(w)
    <2>1. CASE user # NoUser
      BY <1>1, <1>2, <2>1, OnlyWork DEF CreateUser, history
    <2>2. CASE user = NoUser
      <3>1. user' \in User /\ user'.id = issued.accounts + 1
        <4>1. /\ issued.accounts + 1 \in 1 .. MaxAccounts
              /\ issued.passwords + 1 \in 1 .. MaxPasswords
              /\ 0 \in 0 .. MaxSecrets /\ 0 \in 0 .. MaxFailed - 1
              /\ 0 \in 0 .. MaxNow + LockFor /\ 0 \in Nat
          BY <1>2, <2>2, IssueOne, Bounds DEF CreateUser
        <4>2. user' = [id |-> issued.accounts + 1, password |-> issued.passwords + 1,
                       version |-> 0, verified |-> FALSE, enabled |-> FALSE,
                       secret |-> 0, failed |-> 0, lockedUntil |-> 0]
          BY <1>2, <2>2 DEF CreateUser
        <4>. QED  BY <4>1, <4>2 DEF User
      <3>2. PICK l \in Links : links' = [links EXCEPT ![l] = NewLink("verification", user'.id)]
        BY <1>2, <2>2 DEF CreateUser
      <3>3. NewLink("verification", user'.id) \in Link
        BY <1>0, <3>1 DEF NewLink, Link, User
      <3>4. links' \in [Links -> Link \cup {NoLink}]
        BY <3>2, <3>3 DEF TInv, TypeOK
      <3>5. LinksOwned'
        BY <2>2, <3>1, <3>2, NoUserAssumption DEF LinksOwned, NewLink, TInv, TypeOK
      <3>6. issued' \in Issued
        BY <1>2, <2>2, IssueOne DEF CreateUser
      <3>7. UNCHANGED <<codes, sessions, now, redeemed, replaced, resets>> /\ streak' \in 0 .. MaxStreak
        BY <1>2, <2>2, Bounds DEF CreateUser
      <3>. QED  BY <1>1, <3>1, <3>4, <3>5, <3>6, <3>7 DEF TInv, TypeOK, Issued
    <2>. QED  BY <2>1, <2>2
  <1>3. CASE CreateLink(w)
    <2>1. CASE UNCHANGED <<links, issued>>
      BY <1>1, <1>3, <2>1, OnlyWork DEF CreateLink
    <2>2. CASE StillThere(w) /\ issued' = [issued EXCEPT !.links = @ + 1] /\ \E l \in Links : links' = [links EXCEPT ![l] =
                    NewLink(IF At(w, "resend") THEN "verification" ELSE "reset", user.id)]
      <3>. DEFINE link == NewLink(IF At(w, "resend") THEN "verification" ELSE "reset", user.id)
      <3>1. user.id \in 1 .. MaxAccounts /\ user # NoUser
        BY <2>2, UserId DEF StillThere
      <3>2. link \in Link /\ link.user = user.id
        BY <1>0, <3>1 DEF NewLink, Link
      <3>3. PICK l \in Links : links' = [links EXCEPT ![l] = link]
        BY <2>2
      <3>4. links' \in [Links -> Link \cup {NoLink}] /\ LinksOwned'
        BY <1>3, <3>1, <3>2, <3>3 DEF CreateLink, TInv, TypeOK, LinksOwned
      <3>5. issued' \in Issued
        BY <2>2, IssueOne
      <3>. QED  BY <1>1, <1>3, <3>4, <3>5 DEF CreateLink, TInv, TypeOK, Issued, history
    <2>. QED  BY <1>3, <2>1, <2>2 DEF CreateLink
  <1>4. CASE VerifyEmail(w)
    <2>1. links' \in [Links -> Link \cup {NoLink}]
      BY <1>4 DEF VerifyEmail, MarkUsed, TInv, TypeOK
    <2>2. CASE user' = user
      <3>1. LinksOwned'
        BY <1>4, <2>2 DEF VerifyEmail, MarkUsed, TInv, LinksOwned
      <3>. QED  BY <1>1, <1>4, <2>1, <2>2, <3>1 DEF VerifyEmail, TInv, TypeOK, history
    <2>3. CASE user' = [user EXCEPT !.verified = TRUE] /\ Unused("verification", work[w].id) # {}
      <3>1. user \in User
        BY <2>3, UserId DEF Unused, TInv, LinksOwned
      <3>2. user' \in User /\ user'.id = user.id
        BY <2>3, <3>1 DEF User
      <3>3. LinksOwned'
        BY <1>4, <3>2, NoUserAssumption DEF VerifyEmail, MarkUsed, TInv, LinksOwned
      <3>. QED  BY <1>1, <1>4, <2>1, <3>2, <3>3 DEF VerifyEmail, TInv, TypeOK, history
    <2>. QED  BY <1>4, <2>2, <2>3 DEF VerifyEmail
  <1>5. CASE RecordFailure(w)
    <2>1. CASE UNCHANGED <<user, streak>>
      BY <1>1, <1>5, <2>1, OnlyWork DEF RecordFailure, history
    <2>2. CASE StillThere(w)
      <3>1. user \in User /\ user.failed \in 0 .. MaxFailed - 1
        BY <2>2, UserId DEF StillThere, User
      <3>2. user' \in User /\ user'.id = user.id
        <4>1. CountFailure(user.failed) \in 0 .. MaxFailed - 1
          BY <3>1, CountFailureTyped
        <4>2. now + LockFor \in 0 .. MaxNow + LockFor /\ 0 \in 0 .. MaxNow + LockFor
          BY <1>0
        <4>. DEFINE until == IF user.failed + 1 >= MaxFailed THEN now + LockFor ELSE 0
        <4>3. user' = [user EXCEPT !.failed = CountFailure(user.failed), !.lockedUntil = until]
          BY <1>5, <2>2 DEF RecordFailure
        <4>4. until \in 0 .. MaxNow + LockFor
          BY <4>2
        <4>. HIDE DEF until
        <4>. QED  BY <3>1, <4>1, <4>3, <4>4, LockTyped
      <3>3. streak' \in 0 .. MaxStreak
        <4>1. streak \in 0 .. MaxStreak
          BY DEF TInv, TypeOK
        <4>2. streak' = streak + 1 /\ streak < MaxStreak
          BY <1>5, <2>2 DEF RecordFailure
        <4>. QED  BY <4>1, <4>2, Bounds
      <3>4. LinksOwned'
        BY <1>5, <3>2, NoUserAssumption DEF RecordFailure, TInv, LinksOwned
      <3>. QED  BY <1>1, <1>5, <3>2, <3>3, <3>4 DEF RecordFailure, TInv, TypeOK
    <2>. QED  BY <1>5, <2>1, <2>2 DEF RecordFailure
  <1>6. CASE ClearFailures(w)
    <2>1. CASE UNCHANGED <<user, streak>>
      BY <1>1, <1>6, <2>1, OnlyWork DEF ClearFailures, history
    <2>2. CASE StillThere(w)
      <3>1. user' \in User /\ user'.id = user.id
        <4>1. 0 \in 0 .. MaxFailed - 1 /\ 0 \in 0 .. MaxNow + LockFor
          BY Bounds
        <4>2. user' = [user EXCEPT !.failed = 0, !.lockedUntil = 0]
          BY <1>6, <2>2 DEF ClearFailures
        <4>3. user \in User
          BY <2>2, UserId DEF StillThere
        <4>. QED  BY <4>1, <4>2, <4>3, LockTyped
      <3>2. LinksOwned'
        BY <1>6, <3>1, NoUserAssumption DEF ClearFailures, TInv, LinksOwned
      <3>. QED  BY <1>1, <1>6, <2>2, <3>1, <3>2, Bounds
                DEF ClearFailures, TInv, TypeOK
    <2>. QED  BY <1>6, <2>1, <2>2 DEF ClearFailures
  <1>7. CASE ChangePassword(w)
    <2>1. user \in User
      BY <1>7, UserId DEF ChangePassword, StillThere
    <2>2. user' \in User /\ user'.id = user.id
      BY <1>7, <2>1, WithPasswordTyped, IssueOne DEF ChangePassword
    <2>3. issued' \in Issued
      BY <1>7, IssueOne DEF ChangePassword
    <2>4. sessions' \in [Sids -> Session \cup {NoSession}]
      BY <1>7 DEF ChangePassword, SessionsWithout, TInv, TypeOK
    <2>5. LinksOwned'
      BY <1>7, <2>2, NoUserAssumption DEF ChangePassword, TInv, LinksOwned
    <2>. QED  BY <1>1, <1>7, <2>2, <2>3, <2>4, <2>5
              DEF ChangePassword, TInv, TypeOK, history, Issued
  <1>8. CASE ResetPassword(w)
    <2>. DEFINE l == work[w].link
    <2>1. l \in Links
      BY <1>8, AtTyped DEF ResetPassword, Commits, At, Carries
    <2>2. CASE UNCHANGED <<links, user, issued, sessions, resets>>
      BY <1>1, <1>8, <2>2, OnlyWork DEF ResetPassword, history
    <2>3. CASE links[l] # NoLink /\ links[l].expiresAt > work[w].at
      <3>1. user \in User /\ links[l] \in Link
        BY <2>1, <2>3, UserId DEF TInv, TypeOK, LinksOwned
      <3>2. user' \in User /\ user'.id = user.id
        BY <1>8, <2>3, <3>1, WithPasswordTyped, IssueOne DEF ResetPassword
      <3>3. issued' \in Issued
        BY <1>8, <2>3, IssueOne DEF ResetPassword
      <3>4. sessions' \in [Sids -> Session \cup {NoSession}]
        BY <1>8, <2>3 DEF ResetPassword, SessionsWithout, TInv, TypeOK
      <3>5. links' \in [Links -> Link \cup {NoLink}]
        BY <1>8, <2>3 DEF ResetPassword, MarkUsed, TInv, TypeOK
      <3>6. LinksOwned'
        BY <1>8, <2>3, <3>2, NoUserAssumption DEF ResetPassword, MarkUsed, TInv, LinksOwned
      <3>7. resets' \in Seq([link : Nat, since : Nat])
        <4>. DEFINE entry == [link |-> links[l].number, since |-> work[w].since]
        <4>1. work[w].since \in Nat
          BY <1>8, AtTyped DEF ResetPassword, Commits, At, Request
        <4>2. entry \in [link : Nat, since : Nat]
          BY <3>1, <4>1 DEF Link
        <4>3. resets' = Append(resets, entry)
          BY <1>8, <2>3 DEF ResetPassword
        <4>. HIDE DEF entry
        <4>. QED  BY <1>0, <4>2, <4>3
      <3>. QED  BY <1>1, <1>8, <2>3, <3>2, <3>3, <3>4, <3>5, <3>6, <3>7
                DEF ResetPassword, TInv, TypeOK, Issued
    <2>. QED  BY <1>8, <2>2, <2>3 DEF ResetPassword
  <1>9. CASE SetupTwoFactor(w) \/ EnableTwoFactor(w) \/ DisableTwoFactor(w)
    <2>0. work[w] \in Request /\ \E op : ChangesCodes(w, op)
      BY <1>9, AtTyped
      DEF SetupTwoFactor, EnableTwoFactor, DisableTwoFactor, ChangesCodes, Commits, At
    <2>1. user \in User
      BY <2>0, UserId DEF ChangesCodes, StillThere
    <2>2. user' \in User /\ user'.id = user.id
      <3>1. 0 \in 0 .. MaxSecrets
        BY <1>0
      <3>. QED  BY <1>9, <2>1, <3>1, TwoFactorTyped, IssueOne
                DEF SetupTwoFactor, EnableTwoFactor, DisableTwoFactor
    <2>3. issued' \in Issued
      BY <1>9, IssueOne DEF SetupTwoFactor, EnableTwoFactor, DisableTwoFactor
    <2>4. codes' \in SUBSET Codes
      <3>1. Remaining(w) \in SUBSET Codes
        BY DEF Remaining, TInv, TypeOK
      <3>. QED  BY <1>9, <3>1, IssueOne
                DEF SetupTwoFactor, EnableTwoFactor, DisableTwoFactor, Codes
    <2>5. LinksOwned'
      BY <1>9, <2>2, NoUserAssumption
      DEF SetupTwoFactor, EnableTwoFactor, DisableTwoFactor, TInv, LinksOwned
    <2>6. replaced' \in Nat
      BY <2>0, IssuedTyped DEF ChangesCodes, Request
    <2>. QED  BY <1>1, <1>9, <2>2, <2>3, <2>4, <2>5, <2>6
              DEF SetupTwoFactor, EnableTwoFactor, DisableTwoFactor, TInv, TypeOK, Issued
  <1>. QED  BY <1>2, <1>3, <1>4, <1>5, <1>6, <1>7, <1>8, <1>9

(* The transactions that take codes or links.                              *)
LEMMA TakeTyped ==
    ASSUME TInv, NEW w \in Workers, work[w].op # "idle",
           NEW rows \in SUBSET (Codes \cup Links), NEW count \in Nat, Take(w, rows, count)
    PROVE  /\ work' \in [Workers -> Valid]
           /\ work'[w] \in Request
           /\ work'[w].op = work[w].op /\ work'[w].id = work[w].id
           /\ work'[w].link = work[w].link
           /\ work'[w].taken = rows /\ work'[w].since = count
           /\ \A v \in Workers : v # w => work'[v] = work[v]
  <1>. DEFINE r == [work[w] EXCEPT !.begun = TRUE, !.taken = rows, !.since = count]
  <1>1. work[w] \in Request /\ Carries(work[w])
    BY AtTyped
  <1>2. /\ r \in Request
        /\ r.op = work[w].op /\ r.id = work[w].id /\ r.link = work[w].link
        /\ r.seen = work[w].seen /\ r.sid = work[w].sid /\ r.copy = work[w].copy
        /\ r.code = work[w].code /\ r.taken = rows /\ r.since = count
    BY <1>1 DEF Request
  <1>3. work' = [work EXCEPT ![w] = r]
    BY DEF Take, TInv
  <1>. HIDE DEF r
  <1>4. Carries(r)
    BY <1>1, <1>2 DEF Carries, OnChallenge
  <1>. QED  BY <1>2, <1>3, <1>4, BlankValid DEF TInv

(* What the three of them take.                                            *)
LEMMA TakesWhat ==
    ASSUME TInv, NEW w \in Workers, TakeVerification(w) \/ TakeResetLinks(w) \/ TakeCodes(w)
    PROVE  /\ work[w].op \in {"verify", "reset", "setup", "enable", "disable"}
           /\ \E rows \in SUBSET (Codes \cup Links), count \in Nat : Take(w, rows, count)
           /\ UNCHANGED <<user, codes, links, sessions, now, issued, history>>
  <1>1. issued.links \in Nat /\ issued.batches \in Nat /\ codes \in SUBSET Codes
    BY IssuedTyped DEF TInv, TypeOK
  <1>2. \A kind : Unused(kind, work[w].id) \in SUBSET Links
    BY DEF Unused
  <1>3. CASE TakeVerification(w)
    BY <1>1, <1>2, <1>3 DEF TakeVerification, At
  <1>4. CASE TakeResetLinks(w)
    BY <1>1, <1>2, <1>4 DEF TakeResetLinks, At
  <1>5. CASE TakeCodes(w)
    BY <1>1, <1>5 DEF TakeCodes, At
  <1>. QED  BY <1>3, <1>4, <1>5

LEMMA TakesTyped ==
    ASSUME TInv, NEW w \in Workers, TakeVerification(w) \/ TakeResetLinks(w) \/ TakeCodes(w)
    PROVE  TInv'
  BY TakesWhat, TakeTyped, OnlyWork

(* A step that moves the request and stores sessions.                      *)
LEMMA OnlySessions ==
    ASSUME TInv, work' \in [Workers -> Valid], sessions' \in [Sids -> Session \cup {NoSession}],
           UNCHANGED <<user, codes, links, now, issued, history>>
    PROVE  TInv'
  <1>1. work' \in [Workers -> Request \cup {Idle}]
    BY DEF Valid
  <1>. QED  BY <1>1 DEF TInv, TypeOK, LinksOwned, history

(* The requests that go on with a second factor or open a session.         *)
LEMMA SessionsTyped ==
    ASSUME TInv, NEW w \in Workers,
           \/ OpenSession(w) \/ ChallengeRead(w) \/ Redeem(w)
           \/ RecordWrong(w) \/ OpenProved(w) \/ Fails(w)
    PROVE  TInv'
  <1>1. CASE OpenSession(w)
    <2>. DEFINE seen == work[w].seen
                new == [kind |-> IF seen.enabled THEN "challenge" ELSE "auth",
                        user |-> seen.id, version |-> seen.version, wrong |-> 0,
                        password |-> seen.password]
    <2>1. seen \in Seen
      BY <1>1, AtTyped DEF OpenSession, At, Carries
    <2>2. 0 \in 0 .. MaxWrong
      BY Bounds
    <2>3. new \in Session
      BY <2>1, <2>2 DEF Seen, Session
    <2>4. \A r \in Sids : sessions'[r] \in {new, NoSession, sessions[r]}
      BY <1>1 DEF OpenSession
    <2>5. sessions' = [r \in Sids |-> sessions'[r]]
      BY <1>1 DEF OpenSession
    <2>. HIDE DEF new
    <2>6. sessions' \in [Sids -> Session \cup {NoSession}]
      BY <2>3, <2>4, <2>5 DEF TInv, TypeOK
    <2>. QED  BY <1>1, <2>6, DoneTyped, OnlySessions DEF OpenSession
  <1>2. CASE ChallengeRead(w)
    <2>1. /\ work[w].op = "challenge"
          /\ work[w] \in Request
          /\ work[w].sid \in Sids /\ work[w].copy \in Session
      BY <1>2, AtTyped DEF ChallengeRead, At, Carries, OnChallenge
    <2>2. CASE Goto(w, "wrong")
      <3>1. Carries([work[w] EXCEPT !.op = "wrong"])
        BY <2>1 DEF Carries, OnChallenge, Request
      <3>. QED  BY <1>2, <2>1, <2>2, <3>1, GotoTyped, OnlyWork DEF ChallengeRead, Steps
    <2>3. CASE /\ ChallengeHolds(work[w].copy)
               /\ work' = [work EXCEPT ![w].op = "proved", ![w].id = user.id,
                                       ![w].version = user.version]
      <3>. DEFINE r == [work[w] EXCEPT !.op = "proved", !.id = user.id, !.version = user.version]
      <3>1. user.id \in 0 .. MaxAccounts /\ user.id \in 1 .. MaxAccounts /\ user.version \in Nat
        BY <2>3, UserId DEF ChallengeHolds, User
      <3>2. r \in Request
        BY <2>1, <3>1 DEF Request, Steps
      <3>3. Carries(r)
        BY <2>1, <3>1 DEF Carries, OnChallenge, Request
      <3>4. work' = [work EXCEPT ![w] = r]
        BY <2>3 DEF TInv, TypeOK
      <3>. HIDE DEF r
      <3>5. work' \in [Workers -> Valid]
        BY <3>2, <3>3, <3>4, BlankValid DEF TInv
      <3>. QED  BY <1>2, <3>5, OnlyWork DEF ChallengeRead
    <2>4. CASE /\ ChallengeHolds(work[w].copy)
               /\ \E c \in codes :
                    work' = [work EXCEPT ![w].op = "redeem", ![w].id = user.id,
                                         ![w].version = user.version, ![w].code = c]
      <3>0. PICK c \in codes :
              work' = [work EXCEPT ![w].op = "redeem", ![w].id = user.id,
                                   ![w].version = user.version, ![w].code = c]
        BY <2>4
      <3>. DEFINE r == [work[w] EXCEPT !.op = "redeem", !.id = user.id,
                                       !.version = user.version, !.code = c]
      <3>1. /\ user.id \in 0 .. MaxAccounts /\ user.id \in 1 .. MaxAccounts
            /\ user.version \in Nat /\ c \in Codes
        BY <2>4, UserId DEF ChallengeHolds, User, TInv, TypeOK
      <3>2. r \in Request
        BY <2>1, <3>1 DEF Request, Steps
      <3>3. Carries(r)
        BY <2>1, <3>1 DEF Carries, OnChallenge, Request
      <3>4. work' = [work EXCEPT ![w] = r]
        BY <3>0 DEF TInv, TypeOK
      <3>. HIDE DEF r
      <3>5. work' \in [Workers -> Valid]
        BY <3>2, <3>3, <3>4, BlankValid DEF TInv
      <3>. QED  BY <1>2, <3>5, OnlyWork DEF ChallengeRead
    <2>. QED  BY <1>2, <2>2, <2>3, <2>4 DEF ChallengeRead
  <1>3. CASE Redeem(w)
    <2>1. /\ work[w].op = "redeem"
          /\ work[w] \in Request /\ Carries(work[w])
          /\ work[w].code \in Codes
      BY <1>3, AtTyped DEF Redeem, At, Carries
    <2>2. work' \in [Workers -> Valid]
      <3>1. CASE Done(w)
        BY <3>1, DoneTyped
      <3>2. ASSUME NEW op \in {"proved", "wrong"}, Goto(w, op), work[w].sid # NoSid
            PROVE  work' \in [Workers -> Valid]
        <4>1. Carries([work[w] EXCEPT !.op = op])
          BY <2>1, <3>2 DEF Carries, OnChallenge, Request
        <4>. QED  BY <2>1, <3>2, <4>1, GotoTyped DEF Steps
      <3>. QED  BY <1>3, <3>1, <3>2 DEF Redeem
    <2>3. work' \in [Workers -> Request \cup {Idle}]
      BY <2>2 DEF Valid
    <2>4. codes' \in SUBSET Codes /\ redeemed' \in [Codes -> Nat]
      BY <1>3, <2>1 DEF Redeem, TInv, TypeOK
    <2>. QED  BY <1>3, <2>2, <2>3, <2>4 DEF Redeem, TInv, TypeOK, LinksOwned
  <1>4. CASE RecordWrong(w)
    <2>. DEFINE copy == work[w].copy
    <2>1. copy \in Session /\ work[w].sid \in Sids
      BY <1>4, AtTyped DEF RecordWrong, At, Carries, OnChallenge
    <2>2. copy.wrong \in 0 .. MaxWrong
      BY <2>1 DEF Session
    <2>3. copy.wrong + 1 >= MaxWrong \/ copy.wrong + 1 \in 0 .. MaxWrong
      BY <2>2, Bounds
    <2>4. copy.wrong + 1 \in 0 .. MaxWrong => [copy EXCEPT !.wrong = copy.wrong + 1] \in Session
      BY <2>1 DEF Session
    <2>. HIDE DEF copy
    <2>5. sessions' \in [Sids -> Session \cup {NoSession}]
      BY <1>4, <2>1, <2>3, <2>4 DEF RecordWrong, TInv, TypeOK, copy
    <2>. QED  BY <1>4, <2>5, DoneTyped, OnlySessions DEF RecordWrong
  <1>5. CASE OpenProved(w)
    <2>. DEFINE copy == work[w].copy
                new == [copy EXCEPT !.kind = "auth", !.wrong = 0, !.user = work[w].id,
                                    !.version = work[w].version]
    <2>1. /\ copy \in Session /\ work[w].sid \in Sids
          /\ work[w].id \in 1 .. MaxAccounts /\ work[w].version \in Nat
      BY <1>5, AtTyped DEF OpenProved, At, Carries, OnChallenge, Request
    <2>2. 0 \in 0 .. MaxWrong
      BY Bounds
    <2>3. new \in Session
      BY <2>1, <2>2 DEF Session
    <2>4. sessions' = [sessions EXCEPT ![work[w].sid] = new]
      BY <1>5 DEF OpenProved
    <2>. HIDE DEF new
    <2>5. sessions' \in [Sids -> Session \cup {NoSession}]
      BY <2>1, <2>3, <2>4 DEF TInv, TypeOK
    <2>. QED  BY <1>5, <2>5, DoneTyped, OnlySessions DEF OpenProved
  <1>6. CASE Fails(w)
    BY <1>6, DoneTyped, OnlyWork DEF Fails
  <1>. QED  BY <1>1, <1>2, <1>3, <1>4, <1>5, <1>6

LEMMA StepTyped == TInv /\ [Next]_vars => TInv'
  <1>. SUFFICES ASSUME TInv, [Next]_vars  PROVE TInv'
    OBVIOUS
  <1>1. CASE \E w \in Workers : Step(w)
    BY <1>1, ReadsTyped, WritesTyped, TakesTyped, SessionsTyped DEF Step
  <1>2. ASSUME NEW s \in Sids, Logout(s)
        PROVE  TInv'
    <2>1. sessions' \in [Sids -> Session \cup {NoSession}]
      BY <1>2 DEF Logout, TInv, TypeOK
    <2>2. work' \in [Workers -> Valid]
      BY <1>2 DEF Logout, TInv
    <2>. QED  BY <1>2, <2>1, <2>2, OnlySessions DEF Logout
  <1>3. ASSUME NEW s \in Sids, DeleteAccount(s)
        PROVE  TInv'
    <2>1. sessions' \in [Sids -> Session \cup {NoSession}]
      BY <1>3 DEF DeleteAccount, SessionsWithout, TInv, TypeOK
    <2>. QED  BY <1>3, <2>1 DEF DeleteAccount, TInv, TypeOK, LinksOwned, history
  <1>4. CASE Tick
    <2>1. now' \in 0 .. MaxNow
      BY <1>4, IssuedTyped, Bounds DEF Tick
    <2>. QED  BY <1>4, <2>1 DEF Tick, TInv, TypeOK, LinksOwned, history
  <1>5. CASE UNCHANGED vars
    BY <1>5 DEF vars, TInv, TypeOK, LinksOwned
  <1>. QED  BY <1>1, <1>2, <1>3, <1>4, <1>5 DEF Next

(* Every state of the account, its tokens, its sessions and the requests   *)
(* about it is well typed, and tokens never outlive their account.         *)
THEOREM Typed == Spec => []TInv
  BY InitTyped, StepTyped, PTL DEF Spec

(* Accounts!TypeOK, for any number of requests, sessions and links.        *)
THEOREM TypeCorrect == Spec => []TypeOK
  <1>1. TInv => TypeOK
    BY DEF TInv
  <1>. QED  BY <1>1, Typed, PTL

-------------------------------------------------------------------------------
(* Sessions.                                                               *)

(* How the account may change in a step: not at all, to another version,   *)
(* or to an account with an id that is new.                                *)
Evolves ==
    /\ issued'.accounts >= issued.accounts
    /\ user' # NoUser =>
         /\ user'.id <= issued'.accounts
         /\ \/ user'.id > issued.accounts
            \/ /\ user # NoUser
               /\ user'.id = user.id
               /\ \/ user'.version > user.version
                  \/ user'.version = user.version /\ user'.password = user.password

LEMMA SoundStays ==
    ASSUME TInv, TInv', Evolves, NEW id \in Nat, NEW version \in Nat, NEW password,
           Sound(id, version, password)
    PROVE  Sound(id, version, password)'
  <1>1. issued.accounts \in Nat /\ issued'.accounts \in Nat
    BY IssuedTyped DEF TInv, TypeOK
  <1>2. user # NoUser => user.id \in Nat /\ user.version \in Nat
    BY UserId, Bounds DEF User
  <1>3. ASSUME user' # NoUser
        PROVE  user'.id \in Nat /\ user'.version \in Nat
    <2>1. user' \in User
      BY <1>3 DEF TInv, TypeOK
    <2>. QED  BY <2>1, Bounds DEF User
  <1>. QED  BY <1>1, <1>2, <1>3 DEF Sound, Evolves

LEMMA SoundRequestStays ==
    ASSUME TInv, TInv', Evolves, NEW r \in Valid, SoundRequest(r)
    PROVE  SoundRequest(r)'
  <1>1. r.op \in {"login", "open"} => r.seen.id \in Nat /\ r.seen.version \in Nat
    BY Bounds DEF Valid, Carries, Seen
  <1>2. OnChallenge(r) => r.copy.user \in Nat /\ r.copy.version \in Nat
    BY Bounds DEF Valid, Carries, Session
  <1>. QED  BY <1>1, <1>2, SoundStays DEF SoundRequest, SoundSession

(* A step keeps the invariant if the sessions and requests it leaves are   *)
(* sound for the account it found.                                         *)
LEMMA PKeeps ==
    ASSUME TInv, TInv', Evolves,
           \A s \in Sids : sessions'[s] # NoSession => SoundSession(sessions'[s]),
           \A w \in Workers : SoundRequest(work'[w])
    PROVE  PInv'
  <1>1. user' # NoUser => user'.id <= issued'.accounts
    BY DEF Evolves
  <1>2. ASSUME NEW s \in Sids, sessions'[s] # NoSession
        PROVE  SoundSession(sessions[s])'
    <2>1. sessions'[s] \in Session
      BY <1>2 DEF TInv, TypeOK
    <2>2. sessions'[s].user \in Nat /\ sessions'[s].version \in Nat
      BY <2>1, Bounds DEF Session
    <2>. QED  BY <1>2, <2>2, SoundStays DEF SoundSession, Sound
  <1>3. ASSUME NEW w \in Workers
        PROVE  SoundRequest(work[w])'
    <2>1. work'[w] \in Valid
      BY DEF TInv
    <2>. QED  BY <1>3, <2>1, SoundRequestStays DEF SoundRequest, SoundSession, Sound
  <1>. QED  BY <1>1, <1>2, <1>3 DEF PInv

LEMMA Evolution ==
    ASSUME TInv, TInv', PInv, [Next]_vars
    PROVE  Evolves
  <1>0. /\ issued.accounts \in Nat /\ issued.passwords \in Nat
        /\ user # NoUser => /\ user \in User /\ user.id <= issued.accounts
                            /\ user.id \in Nat /\ user.version \in Nat
    BY IssuedTyped, UserId, Bounds DEF User, PInv
  <1>1. CASE UNCHANGED <<user, issued>>
    BY <1>0, <1>1 DEF Evolves
  <1>2. ASSUME NEW w \in Workers, CreateUser(w), user = NoUser
        PROVE  Evolves
    <2>1. user'.id = issued.accounts + 1
      BY <1>2 DEF CreateUser
    <2>2. issued' = [issued EXCEPT !.accounts = @ + 1, !.passwords = @ + 1, !.links = @ + 1]
      BY <1>2 DEF CreateUser
    <2>3. issued'.accounts = issued.accounts + 1
      BY <2>2, IssueOne DEF Issued
    <2>. QED  BY <1>0, <2>1, <2>3 DEF Evolves
  <1>3. ASSUME user \in User, user # NoUser, issued'.accounts = issued.accounts,
               user'.id = user.id,
               \/ user'.version = user.version + 1
               \/ user'.version = user.version /\ user'.password = user.password
        PROVE  Evolves
    BY <1>0, <1>3 DEF Evolves
  <1>4. ASSUME NEW w \in Workers, ChangePassword(w) \/ ResetPassword(w), user' # user
        PROVE  Evolves
    <2>1. user \in User /\ user # NoUser
      <3>1. CASE ChangePassword(w)
        BY <3>1, UserId DEF ChangePassword, StillThere
      <3>2. CASE ResetPassword(w)
        <4>1. work[w].link \in Links /\ links[work[w].link] # NoLink
          BY <1>4, <3>2, AtTyped DEF ResetPassword, Commits, At, Carries
        <4>. QED  BY <4>1, UserId DEF TInv, LinksOwned
      <3>. QED  BY <1>4, <3>1, <3>2
    <2>2. /\ user' = WithPassword(user, issued.passwords + 1)
          /\ issued' = [issued EXCEPT !.passwords = @ + 1]
      BY <1>4 DEF ChangePassword, ResetPassword
    <2>3. issued'.accounts = issued.accounts
      BY <2>2, IssueOne DEF Issued
    <2>. QED  BY <1>3, <2>1, <2>2, <2>3 DEF WithPassword, User
  <1>5. ASSUME NEW w \in Workers,
               \/ RecordFailure(w) \/ ClearFailures(w) \/ VerifyEmail(w)
               \/ SetupTwoFactor(w) \/ EnableTwoFactor(w) \/ DisableTwoFactor(w),
               user' # user
        PROVE  Evolves
    <2>1. user \in User /\ user # NoUser
      <3>1. CASE VerifyEmail(w)
        BY <1>5, <3>1, UserId DEF VerifyEmail, Unused, TInv, LinksOwned
      <3>. QED  BY <1>5, <3>1, UserId
                DEF RecordFailure, ClearFailures, SetupTwoFactor, EnableTwoFactor,
                    DisableTwoFactor, ChangesCodes, StillThere
    <2>2. /\ user'.id = user.id
          /\ user'.version = user.version /\ user'.password = user.password
      BY <1>5, <2>1 DEF VerifyEmail, RecordFailure, ClearFailures, SetupTwoFactor,
                       EnableTwoFactor, DisableTwoFactor, User
    <2>3. issued'.accounts = issued.accounts
      BY <1>5, IssueOne DEF VerifyEmail, RecordFailure, ClearFailures, SetupTwoFactor,
                       EnableTwoFactor, DisableTwoFactor, Issued
    <2>. QED  BY <1>3, <2>1, <2>2, <2>3
  <1>6. CASE \E s \in Sids : DeleteAccount(s)
    BY <1>0, <1>6 DEF DeleteAccount, Evolves
  <1>7. ASSUME NEW w \in Workers, Step(w)
        PROVE  \/ UNCHANGED <<user, issued>>
               \/ CreateUser(w) /\ user = NoUser
               \/ (ChangePassword(w) \/ ResetPassword(w)) /\ user' # user
               \/ /\ \/ RecordFailure(w) \/ ClearFailures(w) \/ VerifyEmail(w)
                     \/ SetupTwoFactor(w) \/ EnableTwoFactor(w) \/ DisableTwoFactor(w)
                  /\ user' # user
               \/ Evolves
    <2>1. ASSUME user' = user
          PROVE  \/ UNCHANGED <<user, issued>>
                 \/ CreateUser(w) /\ user = NoUser
                 \/ Evolves
      <3>1. CASE UNCHANGED issued
        BY <2>1, <3>1
      <3>2. CASE CreateUser(w)
        BY <3>2 DEF CreateUser
      <3>3. CASE /\ issued'.accounts = issued.accounts
        BY <1>0, <2>1, <3>3 DEF Evolves
      <3>4. CASE \/ ChangePassword(w) \/ ResetPassword(w) \/ SetupTwoFactor(w)
                 \/ EnableTwoFactor(w) \/ CreateLink(w)
        <4>1. issued'.accounts = issued.accounts
          BY <3>4, IssueOne DEF ChangePassword, ResetPassword, SetupTwoFactor, EnableTwoFactor,
                                CreateLink, Issued
        <4>. QED  BY <3>3, <4>1
      <3>. QED  BY <1>7, <3>1, <3>2, <3>4
                DEF Step, RegisterRead, AskForLink, VerifyRead, TakeVerification, VerifyEmail,
                    LoginRead, RecordFailure, ClearFailures, OpenSession, ChallengeLoad,
                    ChallengeRead, Redeem, RecordWrong, OpenProved, GuardedRead, Fails, ResetRead,
                    TakeResetLinks, TakeCodes, DisableTwoFactor
    <2>2. CASE user' # user
      BY <1>7, <2>2
      DEF Step, RegisterRead, AskForLink, CreateLink, VerifyRead, CreateUser, LoginRead, OpenSession,
          ChallengeLoad, ChallengeRead, Redeem, RecordWrong, OpenProved, GuardedRead, Fails, ResetRead,
          TakeVerification, TakeResetLinks, TakeCodes
    <2>. QED  BY <2>1, <2>2
  <1>. QED
    BY <1>1, <1>2, <1>4, <1>5, <1>6, <1>7 DEF Next, vars, Logout, Tick

(* A request that ends, or goes on without a new claim, stays sound.       *)
LEMMA IdleSound == SoundRequest(Idle)
  BY DEF SoundRequest, OnChallenge, Idle

LEMMA DoneSound ==
    ASSUME TInv, PInv, NEW w \in Workers, Done(w)
    PROVE  \A v \in Workers : SoundRequest(work'[v])
  BY IdleSound DEF Done, PInv, TInv

LEMMA MoveSound ==
    ASSUME TInv, PInv, NEW w \in Workers, NEW r, SoundRequest(r), work' = [work EXCEPT ![w] = r]
    PROVE  \A v \in Workers : SoundRequest(work'[v])
  BY DEF PInv, TInv

LEMMA SoundStep ==
    ASSUME TInv, TInv', PInv, [Next]_vars
    PROVE  PInv'
  <1>0. Evolves
    BY Evolution
  <1>1. ASSUME UNCHANGED <<sessions, work>>
        PROVE  PInv'
    BY <1>0, <1>1, PKeeps DEF PInv
  <1>2. ASSUME NEW w \in Workers, Step(w), UNCHANGED sessions, Done(w)
        PROVE  PInv'
    BY <1>0, <1>2, DoneSound, PKeeps DEF PInv
  <1>3. ASSUME NEW w \in Workers, UNCHANGED sessions, NEW r, SoundRequest(r),
               work' = [work EXCEPT ![w] = r]
        PROVE  PInv'
    BY <1>0, <1>3, MoveSound, PKeeps DEF PInv
  <1>4. ASSUME \A s \in Sids : sessions'[s] \in {sessions[s], NoSession},
               \A w \in Workers : SoundRequest(work'[w])
        PROVE  PInv'
    BY <1>0, <1>4, PKeeps DEF PInv
  <1>5. ASSUME NEW w \in Workers, RegisterRead(w) \/ AskForLink(w) \/ VerifyRead(w) \/ ResetRead(w)
        PROVE  PInv'
    <2>1. ASSUME NEW r, Begin(w, r), r.op \in {"register", "resend", "forgot", "verify", "reset"}
          PROVE  PInv'
      <3>1. SoundRequest(r)
        BY <2>1 DEF SoundRequest, OnChallenge
      <3>. QED  BY <1>3, <1>5, <2>1, <3>1
                DEF Begin, RegisterRead, AskForLink, VerifyRead, ResetRead
    <2>2. CASE RegisterRead(w)
      <3>. DEFINE r == [Blank EXCEPT !.op = "register"]
      <3>1. Begin(w, r) /\ r.op = "register"
        BY <2>2 DEF RegisterRead, Blank
      <3>. QED  BY <2>1, <3>1
    <2>3. CASE AskForLink(w)
      <3>1. PICK op \in {"resend", "forgot"} :
              Begin(w, [Blank EXCEPT !.op = op, !.id = user.id])
        BY <2>3 DEF AskForLink
      <3>. DEFINE r == [Blank EXCEPT !.op = op, !.id = user.id]
      <3>2. r.op = op
        BY DEF Blank
      <3>. QED  BY <2>1, <3>1, <3>2
    <2>4. CASE VerifyRead(w)
      <3>. DEFINE r == [Blank EXCEPT !.op = "verify", !.id = user.id]
      <3>1. Begin(w, r) /\ r.op = "verify"
        BY <2>4 DEF VerifyRead, Blank
      <3>. QED  BY <2>1, <3>1
    <2>5. CASE ResetRead(w)
      <3>1. PICK l \in Links :
              Begin(w, [Blank EXCEPT !.op = "reset", !.id = user.id, !.link = l, !.at = now])
        BY <2>5 DEF ResetRead
      <3>. DEFINE r == [Blank EXCEPT !.op = "reset", !.id = user.id, !.link = l, !.at = now]
      <3>2. r.op = "reset"
        BY DEF Blank
      <3>. QED  BY <2>1, <3>1, <3>2
    <2>. QED  BY <1>5, <2>2, <2>3, <2>4, <2>5
  <1>6. ASSUME NEW w \in Workers, LoginRead(w)
        PROVE  PInv'
    <2>1. PICK attempt \in {0, user.password} :
            Begin(w, [Blank EXCEPT !.id = user.id, !.seen = Read, !.attempt = attempt])
      BY <1>6 DEF LoginRead
    <2>. DEFINE r == [Blank EXCEPT !.id = user.id, !.seen = Read, !.attempt = attempt]
    <2>2. r.op = "login" /\ r.seen = Read
      BY DEF Blank
    <2>3. Sound(Read.id, Read.version, Read.password)
      <3>1. user \in User /\ user.id <= issued.accounts /\ user.version \in Nat
        BY <1>6, UserId DEF LoginRead, PInv, User
      <3>. QED  BY <3>1 DEF Sound, Read
    <2>4. SoundRequest(r)
      BY <2>2, <2>3 DEF SoundRequest, OnChallenge
    <2>. QED  BY <1>3, <1>6, <2>1, <2>4 DEF Begin, LoginRead
  <1>7. ASSUME NEW w \in Workers, ClearFailures(w)
        PROVE  PInv'
    <2>1. CASE Done(w)
      BY <1>7, <2>1, DoneSound, <1>4 DEF ClearFailures
    <2>2. CASE Goto(w, "open")
      <3>. DEFINE r == [work[w] EXCEPT !.op = "open"]
      <3>1. work[w] \in Request /\ work[w].op = "login" /\ SoundRequest(work[w])
        BY <1>7, AtTyped DEF ClearFailures, At, PInv
      <3>2. r.op = "open" /\ r.seen = work[w].seen
        BY <3>1 DEF Request
      <3>3. SoundRequest(r)
        BY <3>1, <3>2 DEF SoundRequest, OnChallenge
      <3>. QED  BY <1>3, <1>7, <2>2, <3>3 DEF Goto, ClearFailures
    <2>. QED  BY <1>7, <2>1, <2>2 DEF ClearFailures
  <1>8. ASSUME NEW w \in Workers, OpenSession(w)
        PROVE  PInv'
    <2>. DEFINE seen == work[w].seen
                new == [kind |-> IF seen.enabled THEN "challenge" ELSE "auth",
                        user |-> seen.id, version |-> seen.version, wrong |-> 0,
                        password |-> seen.password]
    <2>1. SoundSession(new)
      BY <1>8 DEF SoundSession, SoundRequest, PInv, OpenSession, At
    <2>2. \A r \in Sids : sessions'[r] \in {new, NoSession, sessions[r]}
      BY <1>8 DEF OpenSession
    <2>. HIDE DEF new
    <2>3. \A s \in Sids : sessions'[s] # NoSession => SoundSession(sessions'[s])
      BY <2>1, <2>2 DEF PInv
    <2>. QED  BY <1>0, <1>8, <2>3, DoneSound, PKeeps DEF OpenSession
  <1>9. ASSUME NEW w \in Workers, ChallengeLoad(w)
        PROVE  PInv'
    <2>1. PICK s \in Sids :
            /\ sessions[s] # NoSession
            /\ Begin(w, [Blank EXCEPT !.op = "challenge", !.sid = s, !.copy = sessions[s]])
      BY <1>9 DEF ChallengeLoad
    <2>. DEFINE r == [Blank EXCEPT !.op = "challenge", !.sid = s, !.copy = sessions[s]]
    <2>2. r.op = "challenge" /\ r.copy = sessions[s]
      BY DEF Blank
    <2>3. SoundRequest(r)
      BY <2>1, <2>2 DEF SoundRequest, PInv
    <2>. QED  BY <1>3, <1>9, <2>1, <2>3 DEF Begin, ChallengeLoad
  <1>10. ASSUME NEW w \in Workers, ChallengeRead(w)
         PROVE  PInv'
    <2>1. /\ work[w].op = "challenge" /\ work[w] \in Request
          /\ SoundRequest(work[w]) /\ SoundSession(work[w].copy)
      BY <1>10, AtTyped DEF ChallengeRead, At, PInv, SoundRequest, OnChallenge
    <2>2. PICK r :
            /\ work' = [work EXCEPT ![w] = r]
            /\ r.copy = work[w].copy
            /\ \/ r.op = "wrong"
               \/ /\ r.op \in {"proved", "redeem"}
                  /\ r.copy.user = r.id /\ r.copy.version = r.version
      <3>1. CASE Goto(w, "wrong")
        <4>. DEFINE r == [work[w] EXCEPT !.op = "wrong"]
        <4>1. work' = [work EXCEPT ![w] = r]
          BY <3>1 DEF Goto, TInv
        <4>2. r.copy = work[w].copy /\ r.op = "wrong"
          BY <2>1 DEF Request
        <4>. HIDE DEF r
        <4>. QED  BY <4>1, <4>2
      <3>2. CASE /\ ChallengeHolds(work[w].copy)
                 /\ work' = [work EXCEPT ![w].op = "proved", ![w].id = user.id,
                                         ![w].version = user.version]
        <4>. DEFINE r == [work[w] EXCEPT !.op = "proved", !.id = user.id,
                                         !.version = user.version]
        <4>1. work' = [work EXCEPT ![w] = r]
          BY <3>2 DEF TInv
        <4>2. /\ r.copy = work[w].copy /\ r.op = "proved"
              /\ r.id = user.id /\ r.version = user.version
          BY <2>1 DEF Request
        <4>. HIDE DEF r
        <4>. QED  BY <3>2, <4>1, <4>2 DEF ChallengeHolds
      <3>3. ASSUME NEW c \in codes, ChallengeHolds(work[w].copy),
                   work' = [work EXCEPT ![w].op = "redeem", ![w].id = user.id,
                                        ![w].version = user.version, ![w].code = c]
            PROVE  \E r : /\ work' = [work EXCEPT ![w] = r]
                          /\ r.copy = work[w].copy
                          /\ \/ r.op = "wrong"
                             \/ /\ r.op \in {"proved", "redeem"}
                                /\ r.copy.user = r.id /\ r.copy.version = r.version
        <4>. DEFINE r == [work[w] EXCEPT !.op = "redeem", !.id = user.id,
                                         !.version = user.version, !.code = c]
        <4>1. work' = [work EXCEPT ![w] = r]
          BY <3>3 DEF TInv
        <4>2. /\ r.copy = work[w].copy /\ r.op = "redeem"
              /\ r.id = user.id /\ r.version = user.version
          BY <2>1 DEF Request
        <4>. HIDE DEF r
        <4>. QED  BY <3>3, <4>1, <4>2 DEF ChallengeHolds
      <3>. QED  BY <1>10, <3>1, <3>2, <3>3 DEF ChallengeRead
    <2>3. SoundRequest(r)
      BY <2>1, <2>2 DEF SoundRequest, OnChallenge
    <2>. QED  BY <1>3, <1>10, <2>2, <2>3 DEF ChallengeRead
  <1>11. ASSUME NEW w \in Workers, Redeem(w)
         PROVE  PInv'
    <2>1. CASE Done(w)
      BY <1>4, <1>11, <2>1, DoneSound DEF Redeem
    <2>2. ASSUME NEW op \in {"proved", "wrong"}, Goto(w, op), work[w].sid # NoSid
          PROVE  PInv'
      <3>. DEFINE r == [work[w] EXCEPT !.op = op]
      <3>1. work[w] \in Request /\ work[w].op = "redeem" /\ SoundRequest(work[w])
        BY <1>11, AtTyped DEF Redeem, At, PInv
      <3>2. r.op = op /\ r.copy = work[w].copy /\ r.id = work[w].id /\ r.version = work[w].version
        BY <3>1 DEF Request
      <3>3. SoundRequest(r)
        BY <2>2, <3>1, <3>2 DEF SoundRequest, OnChallenge
      <3>. QED  BY <1>3, <1>11, <2>2, <3>3 DEF Goto, Redeem
    <2>. QED  BY <1>11, <2>1, <2>2 DEF Redeem
  <1>12. ASSUME NEW w \in Workers, RecordWrong(w)
         PROVE  PInv'
    <2>1. /\ work[w].op = "wrong" /\ work[w].copy \in Session
          /\ SoundSession(work[w].copy)
      BY <1>12, AtTyped DEF RecordWrong, At, PInv, SoundRequest, OnChallenge, Carries
    <2>2. SoundSession([work[w].copy EXCEPT !.wrong = work[w].copy.wrong + 1])
      BY <2>1 DEF SoundSession, Session
    <2>3. \A s \in Sids : sessions'[s] # NoSession => SoundSession(sessions'[s])
      BY <1>12, <2>2 DEF RecordWrong, PInv, TInv, TypeOK
    <2>. QED  BY <1>0, <1>12, <2>3, DoneSound, PKeeps DEF RecordWrong
  <1>13. ASSUME NEW w \in Workers, OpenProved(w)
         PROVE  PInv'
    <2>. DEFINE new == [work[w].copy EXCEPT !.kind = "auth", !.wrong = 0, !.user = work[w].id,
                                            !.version = work[w].version]
    <2>1. /\ work[w].op = "proved" /\ work[w].copy \in Session
          /\ SoundSession(work[w].copy)
          /\ work[w].copy.user = work[w].id /\ work[w].copy.version = work[w].version
      BY <1>13, AtTyped DEF OpenProved, At, PInv, SoundRequest, OnChallenge, Carries
    <2>2. SoundSession(new)
      BY <2>1 DEF SoundSession, Session
    <2>3. sessions' = [sessions EXCEPT ![work[w].sid] = new]
      BY <1>13 DEF OpenProved
    <2>. HIDE DEF new
    <2>4. \A s \in Sids : sessions'[s] # NoSession => SoundSession(sessions'[s])
      BY <2>2, <2>3 DEF PInv, TInv, TypeOK
    <2>. QED  BY <1>0, <1>13, <2>4, DoneSound, PKeeps DEF OpenProved
  <1>14. ASSUME NEW w \in Workers, GuardedRead(w)
         PROVE  PInv'
    <2>1. ASSUME NEW r, Begin(w, r),
                 \/ r.op \in {"change", "setup", "enable", "disable"}
                 \/ r.op = "redeem" /\ r.sid = NoSid
          PROVE  PInv'
      <3>1. SoundRequest(r)
        BY <2>1 DEF SoundRequest, OnChallenge
      <3>. QED  BY <1>3, <1>14, <2>1, <3>1 DEF Begin, GuardedRead
    <2>2. ASSUME NEW op \in {"change", "setup", "enable", "disable"},
                 Begin(w, [Blank EXCEPT !.op = op, !.id = user.id])
          PROVE  PInv'
      <3>. DEFINE r == [Blank EXCEPT !.op = op, !.id = user.id]
      <3>1. r.op = op
        BY DEF Blank
      <3>. QED  BY <2>1, <2>2, <3>1
    <2>3. ASSUME NEW c \in codes,
                 Begin(w, [Blank EXCEPT !.op = "redeem", !.id = user.id, !.code = c])
          PROVE  PInv'
      <3>. DEFINE r == [Blank EXCEPT !.op = "redeem", !.id = user.id, !.code = c]
      <3>1. r.op = "redeem" /\ r.sid = NoSid
        BY DEF Blank
      <3>. QED  BY <2>1, <2>3, <3>1
    <2>. QED  BY <1>14, <2>2, <2>3 DEF GuardedRead
  <1>15. ASSUME NEW w \in Workers, ChangePassword(w) \/ ResetPassword(w)
         PROVE  PInv'
    <2>1. \A s \in Sids : sessions'[s] \in {sessions[s], NoSession}
      BY <1>15 DEF ChangePassword, ResetPassword, SessionsWithout
    <2>. QED  BY <1>4, <1>15, <2>1, DoneSound DEF ChangePassword, ResetPassword
  <1>16. ASSUME NEW s \in Sids, Logout(s) \/ DeleteAccount(s)
         PROVE  PInv'
    <2>1. \A r \in Sids : sessions'[r] \in {sessions[r], NoSession}
      BY <1>16 DEF Logout, DeleteAccount, SessionsWithout, TInv, TypeOK
    <2>. QED  BY <1>4, <1>16, <2>1 DEF Logout, DeleteAccount, PInv
  <1>17. ASSUME NEW w \in Workers,
                \/ CreateUser(w) \/ CreateLink(w) \/ VerifyEmail(w) \/ RecordFailure(w)
                \/ Fails(w) \/ SetupTwoFactor(w) \/ EnableTwoFactor(w) \/ DisableTwoFactor(w)
         PROVE  PInv'
    BY <1>2, <1>17 DEF Step, CreateUser, CreateLink, VerifyEmail, RecordFailure,
       Fails, SetupTwoFactor, EnableTwoFactor, DisableTwoFactor, ChangesCodes
  <1>18. ASSUME NEW w \in Workers, TakeVerification(w) \/ TakeResetLinks(w) \/ TakeCodes(w)
         PROVE  PInv'
    <2>1. /\ work'[w].op \in {"verify", "reset", "setup", "enable", "disable"}
          /\ \A v \in Workers : v # w => work'[v] = work[v]
          /\ UNCHANGED sessions
      BY <1>18, TakesWhat, TakeTyped
    <2>2. \A v \in Workers : SoundRequest(work'[v])
      BY <2>1 DEF SoundRequest, OnChallenge, PInv
    <2>. QED  BY <1>4, <2>1, <2>2
  <1>. QED
    BY <1>1, <1>5, <1>6, <1>7, <1>8, <1>9, <1>10, <1>11, <1>12, <1>13, <1>14, <1>15, <1>16, <1>17,
       <1>18
    DEF Next, Step, vars, Tick

(* Accounts!SessionsBehindPassword: a session the guard lets through was   *)
(* opened with the present password, for any interleaving of any number of *)
(* requests.                                                               *)
THEOREM SessionsKnowThePassword == Spec => []SessionsBehindPassword
  <1>1. Init => PInv
    BY AccountsAssumption DEF Init, PInv, Verified, SoundRequest, OnChallenge, Idle
  <1>2. TInv /\ TInv' /\ PInv /\ [Next]_vars => PInv'
    BY SoundStep
  <1>3. PInv => SessionsBehindPassword
    BY DEF PInv, SoundSession, Sound, SessionsBehindPassword, Passes
  <1>. QED  BY <1>1, <1>2, <1>3, Typed, PTL DEF Spec

-------------------------------------------------------------------------------
(* Recovery codes and the count of failures.                               *)

(* What the steps of a request may do to the row.                          *)
LEMMA RowStays ==
    ASSUME TInv, NEW w \in Workers, Step(w), user # NoUser
    PROVE  /\ user' \in User
           /\ ~RecordFailure(w) /\ ~ClearFailures(w) => user'.failed = user.failed
           /\ ~RecordFailure(w) /\ ~ClearFailures(w) => UNCHANGED streak
  <1>0. user \in User /\ user.version + 1 \in Nat
    BY UserId DEF User
  <1>1. CASE UNCHANGED <<user, streak>>
    BY <1>0, <1>1
  <1>2. CASE (ChangePassword(w) \/ ResetPassword(w)) /\ ~UNCHANGED <<user, streak>>
    <2>1. /\ user' = WithPassword(user, issued.passwords + 1)
          /\ issued.passwords + 1 \in 1 .. MaxPasswords
          /\ UNCHANGED streak
      BY <1>2, IssueOne DEF ChangePassword, ResetPassword, history
    <2>. QED  BY <1>0, <1>2, <2>1 DEF WithPassword, User, RecordFailure, ClearFailures
  <1>3. CASE VerifyEmail(w) /\ ~UNCHANGED <<user, streak>>
    <2>1. user' = [user EXCEPT !.verified = TRUE] /\ UNCHANGED streak
      BY <1>3 DEF VerifyEmail, history
    <2>. QED  BY <1>0, <2>1 DEF User
  <1>4. CASE (RecordFailure(w) \/ ClearFailures(w)) /\ ~UNCHANGED <<user, streak>>
    <2>1. ASSUME NEW failed \in 0 .. MaxFailed - 1, NEW until \in 0 .. MaxNow + LockFor,
                 user' = [user EXCEPT !.failed = failed, !.lockedUntil = until]
          PROVE  user' \in User
      BY <1>0, <2>1 DEF User
    <2>2. CASE RecordFailure(w)
      <3>. DEFINE until == IF user.failed + 1 >= MaxFailed THEN now + LockFor ELSE 0
      <3>1. user' = [user EXCEPT !.failed = CountFailure(user.failed), !.lockedUntil = until]
        BY <1>4, <2>2 DEF RecordFailure
      <3>2. CountFailure(user.failed) \in 0 .. MaxFailed - 1
        BY <1>0, CountFailureTyped DEF User
      <3>3. until \in 0 .. MaxNow + LockFor
        BY IssuedTyped, Bounds
      <3>. HIDE DEF until
      <3>. QED  BY <2>1, <2>2, <3>1, <3>2, <3>3
    <2>3. CASE ClearFailures(w)
      <3>1. user' = [user EXCEPT !.failed = 0, !.lockedUntil = 0]
        BY <1>4, <2>3 DEF ClearFailures
      <3>2. 0 \in 0 .. MaxFailed - 1 /\ 0 \in 0 .. MaxNow + LockFor
        BY Bounds
      <3>. QED  BY <2>1, <2>3, <3>1, <3>2
    <2>. QED  BY <1>4, <2>2, <2>3
  <1>5. CASE SetupTwoFactor(w)
    <2>1. user' = [user EXCEPT !.enabled = FALSE, !.secret = issued.secrets + 1]
      BY <1>5 DEF SetupTwoFactor
    <2>2. issued.secrets + 1 \in 0 .. MaxSecrets
      BY <1>5, IssueOne DEF SetupTwoFactor
    <2>. QED  BY <1>0, <1>5, <2>1, <2>2, TwoFactorTyped DEF SetupTwoFactor, User
  <1>6. CASE EnableTwoFactor(w)
    BY <1>0, <1>6, TwoFactorTyped DEF EnableTwoFactor, User
  <1>7. CASE DisableTwoFactor(w)
    <2>1. user' = [user EXCEPT !.enabled = FALSE, !.secret = 0] /\ 0 \in 0 .. MaxSecrets
      BY <1>7, Bounds DEF DisableTwoFactor
    <2>. QED  BY <1>0, <1>7, <2>1, TwoFactorTyped DEF DisableTwoFactor, User
  <1>8. \/ UNCHANGED <<user, streak>>
        \/ ChangePassword(w) \/ ResetPassword(w) \/ VerifyEmail(w)
        \/ RecordFailure(w) \/ ClearFailures(w)
        \/ SetupTwoFactor(w) \/ EnableTwoFactor(w) \/ DisableTwoFactor(w)
    BY DEF Step, RegisterRead, CreateUser, AskForLink, CreateLink, VerifyRead, LoginRead, OpenSession,
       ChallengeLoad, ChallengeRead, Redeem, RecordWrong, OpenProved, GuardedRead, Fails, ResetRead,
       TakeVerification, TakeResetLinks, TakeCodes, history
  <1>. QED  BY <1>1, <1>2, <1>3, <1>4, <1>5, <1>6, <1>7, <1>8

(* A step of a request is about no other.  It begins with nothing taken,   *)
(* takes something, or goes on without.                                    *)
LEMMA RequestStays ==
    ASSUME TInv, NEW w \in Workers, Step(w), NEW v \in Workers
    PROVE  \/ work'[v] = work[v]
           \/ v = w /\ (TakeVerification(w) \/ TakeResetLinks(w) \/ TakeCodes(w))
           \/ v = w /\ ~Begun(work'[v]) /\ (work'[v].op = "reset" => ResetRead(w))
  <1>1. ASSUME NEW r, Begin(w, r), ~r.begun, r.op = "reset" => ResetRead(w)
        PROVE  \/ work'[v] = work[v]
               \/ v = w /\ ~Begun(work'[v]) /\ (work'[v].op = "reset" => ResetRead(w))
    BY <1>1 DEF Begin, Begun, TInv
  <1>2. ASSUME Done(w)
        PROVE  \/ work'[v] = work[v]
               \/ v = w /\ ~Begun(work'[v]) /\ work'[v].op # "reset"
    BY <1>2 DEF Done, Idle, Begun, TInv
  <1>3. ASSUME NEW op \in {"open", "proved", "wrong"}, Goto(w, op), work[w].op # "idle"
        PROVE  \/ work'[v] = work[v]
               \/ v = w /\ ~Begun(work'[v]) /\ work'[v].op # "reset"
    BY <1>3, AtTyped DEF Goto, Begun, TInv, Request
  <1>4. CASE RegisterRead(w)
    <2>. DEFINE r == [Blank EXCEPT !.op = "register"]
    <2>1. ~r.begun /\ r.op # "reset"
      BY DEF Blank
    <2>. QED  BY <1>1, <1>4, <2>1 DEF RegisterRead
  <1>5. CASE AskForLink(w)
    <2>1. PICK op \in {"resend", "forgot"} : Begin(w, [Blank EXCEPT !.op = op, !.id = user.id])
      BY <1>5 DEF AskForLink
    <2>. DEFINE r == [Blank EXCEPT !.op = op, !.id = user.id]
    <2>2. ~r.begun /\ r.op # "reset"
      BY DEF Blank
    <2>. HIDE DEF r
    <2>. QED  BY <1>1, <2>1, <2>2 DEF r
  <1>6. CASE VerifyRead(w)
    <2>. DEFINE r == [Blank EXCEPT !.op = "verify", !.id = user.id]
    <2>1. ~r.begun /\ r.op # "reset"
      BY DEF Blank
    <2>. QED  BY <1>1, <1>6, <2>1 DEF VerifyRead
  <1>7. CASE LoginRead(w)
    <2>1. PICK attempt \in {0, user.password} :
            Begin(w, [Blank EXCEPT !.id = user.id, !.seen = Read, !.attempt = attempt])
      BY <1>7 DEF LoginRead
    <2>. DEFINE r == [Blank EXCEPT !.id = user.id, !.seen = Read, !.attempt = attempt]
    <2>2. ~r.begun /\ r.op # "reset"
      BY DEF Blank
    <2>. QED  BY <1>1, <2>1, <2>2
  <1>8. CASE ChallengeLoad(w)
    <2>1. PICK s \in Sids :
            Begin(w, [Blank EXCEPT !.op = "challenge", !.sid = s, !.copy = sessions[s]])
      BY <1>8 DEF ChallengeLoad
    <2>. DEFINE r == [Blank EXCEPT !.op = "challenge", !.sid = s, !.copy = sessions[s]]
    <2>2. ~r.begun /\ r.op # "reset"
      BY DEF Blank
    <2>. QED  BY <1>1, <2>1, <2>2
  <1>9. CASE GuardedRead(w)
    <2>1. ASSUME NEW op \in {"change", "setup", "enable", "disable"},
                 Begin(w, [Blank EXCEPT !.op = op, !.id = user.id])
          PROVE  \/ work'[v] = work[v]
                 \/ v = w /\ ~Begun(work'[v]) /\ (work'[v].op = "reset" => ResetRead(w))
      <3>. DEFINE r == [Blank EXCEPT !.op = op, !.id = user.id]
      <3>1. ~r.begun /\ r.op # "reset"
        BY DEF Blank
      <3>. QED  BY <1>1, <2>1, <3>1
    <2>2. ASSUME NEW c \in codes,
                 Begin(w, [Blank EXCEPT !.op = "redeem", !.id = user.id, !.code = c])
          PROVE  \/ work'[v] = work[v]
                 \/ v = w /\ ~Begun(work'[v]) /\ (work'[v].op = "reset" => ResetRead(w))
      <3>. DEFINE r == [Blank EXCEPT !.op = "redeem", !.id = user.id, !.code = c]
      <3>1. ~r.begun /\ r.op # "reset"
        BY DEF Blank
      <3>. QED  BY <1>1, <2>2, <3>1
    <2>. QED  BY <1>9, <2>1, <2>2 DEF GuardedRead
  <1>10. CASE ResetRead(w)
    <2>1. PICK l \in Links :
            Begin(w, [Blank EXCEPT !.op = "reset", !.id = user.id, !.link = l, !.at = now])
      BY <1>10 DEF ResetRead
    <2>. DEFINE r == [Blank EXCEPT !.op = "reset", !.id = user.id, !.link = l, !.at = now]
    <2>2. ~r.begun
      BY DEF Blank
    <2>. QED  BY <1>1, <1>10, <2>1, <2>2
  <1>11. CASE ChallengeRead(w)
    <2>1. work[w] \in Request /\ work[w].op # "idle"
      BY <1>11, AtTyped DEF ChallengeRead, At
    <2>2. \/ Goto(w, "wrong")
          \/ /\ work'[w].op \in {"proved", "redeem"}
             /\ \A u \in Workers : u # w => work'[u] = work[u]
      BY <1>11, <2>1 DEF ChallengeRead, TInv, Request
    <2>. QED  BY <1>3, <2>1, <2>2 DEF Begun
  <1>12. CASE ClearFailures(w) \/ Redeem(w)
    BY <1>2, <1>3, <1>12 DEF ClearFailures, Redeem, At
  <1>. QED
    BY <1>2, <1>4, <1>5, <1>6, <1>7, <1>8, <1>9, <1>10, <1>11, <1>12, TakesWhat, TakeTyped
    DEF Step, CreateUser, CreateLink, VerifyEmail, RecordFailure, OpenSession, RecordWrong,
        OpenProved, Fails, ChangePassword, ResetPassword, SetupTwoFactor, EnableTwoFactor,
        DisableTwoFactor, ChangesCodes

(* A step that takes no codes, adds none and has none accepted.            *)
LEMMA CodesKept ==
    ASSUME CInv, codes' \subseteq codes, UNCHANGED <<redeemed, replaced>>,
           issued'.batches = issued.batches, codes' # {} => user' # NoUser,
           \A v \in Workers : Begun(work'[v]) /\ work'[v].op \in {"setup", "enable", "disable"}
             => work'[v] = work[v]
    PROVE  CInv'
  BY DEF CInv, OldCodesGone

LEMMA CodesStep ==
    ASSUME TInv, TInv', CInv, [Next]_vars
    PROVE  CInv'
  <1>0. /\ issued \in Issued /\ codes \in SUBSET Codes /\ issued.batches \in Nat
        /\ replaced \in Nat /\ \A c \in Codes : c[1] \in Nat
    <2>1. \A c \in Codes : c[1] \in Nat
      BY Bounds DEF Codes
    <2>2. codes \in SUBSET Codes
      BY DEF TInv, TypeOK
    <2>. QED  BY <2>1, <2>2, IssueOne, IssuedTyped
  <1>1. ASSUME NEW w \in Workers, Redeem(w)
        PROVE  CInv'
    <2>. DEFINE c == work[w].code
    <2>1. c \in Codes /\ UNCHANGED <<user, issued, replaced>>
      BY <1>1, AtTyped DEF Redeem, At, Carries
    <2>2. \A v \in Workers : Begun(work'[v]) => work'[v] = work[v]
      BY <1>1, RequestStays, AtTyped
      DEF Step, Redeem, At, TakeVerification, TakeResetLinks, TakeCodes
    <2>3. CASE UNCHANGED <<codes, redeemed>>
      BY <2>1, <2>2, <2>3, CodesKept DEF CInv, OldCodesGone
    <2>4. CASE Redeemable(c)
      <3>1. c \in codes /\ codes' = codes \ {c} /\ redeemed' = [redeemed EXCEPT ![c] = @ + 1]
        BY <1>1, <2>4 DEF Redeem, Redeemable
      <3>2. redeemed[c] = 0 /\ redeemed'[c] = 1 /\ c[1] <= issued.batches
        BY <2>1, <3>1 DEF CInv, TInv, TypeOK
      <3>3. \A d \in Codes : d # c => redeemed'[d] = redeemed[d]
        BY <3>1 DEF TInv, TypeOK
      <3>4. OldCodesGone'
        BY <2>1, <3>1 DEF CInv, OldCodesGone
      <3>5. \A d \in Codes : /\ redeemed'[d] <= 1
                             /\ d \in codes' \/ d[1] > issued'.batches => redeemed'[d] = 0
        BY <1>0, <2>1, <3>1, <3>2, <3>3 DEF CInv
      <3>. QED  BY <2>1, <2>2, <3>1, <3>4, <3>5 DEF CInv
    <2>. QED  BY <1>1, <2>3, <2>4 DEF Redeem
  <1>2. ASSUME NEW w \in Workers, SetupTwoFactor(w) \/ EnableTwoFactor(w) \/ DisableTwoFactor(w)
        PROVE  CInv'
    <2>1. /\ work[w].op \in {"setup", "enable", "disable"} /\ Begun(work[w])
          /\ user # NoUser /\ UNCHANGED redeemed /\ work[w].since \in Nat
          /\ replaced' = IF work[w].since > replaced THEN work[w].since ELSE replaced
          /\ Step(w) /\ Done(w)
      BY <1>2, AtTyped
      DEF SetupTwoFactor, EnableTwoFactor, DisableTwoFactor, ChangesCodes, Commits, At, StillThere,
          Begun, Step, Request
    <2>2. user' # NoUser
      BY <2>1, RowStays, NoUserAssumption
    <2>3. /\ work[w].since <= issued.batches
          /\ \A c \in Remaining(w) : c \in codes /\ c[1] > work[w].since
      BY <1>0, <2>1 DEF CInv, Remaining
    <2>4. PICK new \in SUBSET Codes :
            /\ codes' = Remaining(w) \cup new
            /\ issued'.batches \in Nat /\ issued'.batches >= issued.batches
            /\ \A c \in new : c[1] > issued.batches /\ c[1] = issued'.batches
      <3>1. CASE EnableTwoFactor(w)
        <4>. DEFINE new == {issued.batches + 1} \X (1 .. CodesPerBatch)
        <4>1. issued'.batches = issued.batches + 1 /\ codes' = Remaining(w) \cup new
          BY <1>0, <3>1 DEF EnableTwoFactor, Issued
        <4>2. new \in SUBSET Codes
          BY <3>1, IssueOne DEF EnableTwoFactor, Codes
        <4>3. \A c \in new : c[1] = issued.batches + 1
          OBVIOUS
        <4>. HIDE DEF new
        <4>4. /\ issued'.batches \in Nat /\ issued'.batches >= issued.batches
              /\ \A c \in new : c[1] > issued.batches /\ c[1] = issued'.batches
          BY <1>0, <4>1, <4>3
        <4>. QED  BY <4>1, <4>2, <4>4
      <3>2. CASE SetupTwoFactor(w) \/ DisableTwoFactor(w)
        <4>1. issued'.batches = issued.batches /\ codes' = Remaining(w) \cup {}
          BY <1>0, <3>2 DEF SetupTwoFactor, DisableTwoFactor, Issued
        <4>2. issued'.batches \in Nat /\ issued'.batches >= issued.batches /\ {} \in SUBSET Codes
          BY <1>0, <4>1
        <4>. QED  BY <4>1, <4>2
      <3>. QED  BY <1>2, <3>1, <3>2
    <2>5. replaced' \in Nat /\ replaced' <= issued.batches /\ replaced' <= issued'.batches
      BY <1>0, <2>1, <2>3, <2>4 DEF CInv
    <2>6. \A c \in codes' : c[1] > replaced' /\ c[1] <= issued'.batches
      <3>1. ASSUME NEW c \in Remaining(w)
            PROVE  c[1] > replaced' /\ c[1] <= issued'.batches
        BY <1>0, <2>1, <2>3, <2>4, <3>1 DEF CInv, OldCodesGone
      <3>2. ASSUME NEW c \in new
            PROVE  c[1] > replaced' /\ c[1] <= issued'.batches
        BY <1>0, <2>4, <2>5, <3>2
      <3>. QED  BY <2>4, <3>1, <3>2
    <2>7. \A c \in Codes : /\ redeemed'[c] <= 1
                           /\ c \in codes' \/ c[1] > issued'.batches => redeemed'[c] = 0
      BY <1>0, <2>1, <2>3, <2>4 DEF CInv
    <2>8. ASSUME NEW v \in Workers, Begun(work'[v]), work'[v].op \in {"setup", "enable", "disable"}
          PROVE  /\ work'[v].since <= issued'.batches
                 /\ \A c \in codes' : c[1] <= work'[v].since => c \in work'[v].taken
      <3>1. work'[v] = work[v] /\ work[v] \in Request
        BY <2>1, <2>8, AtTyped DEF Done, Idle, Begun, TInv
      <3>2. work[v].since \in Nat /\ work[v].since <= issued.batches
        BY <2>8, <3>1 DEF CInv, Request
      <3>3. \A c \in Remaining(w) : c[1] <= work[v].since => c \in work[v].taken
        BY <2>3, <2>8, <3>1 DEF CInv
      <3>4. \A c \in new : ~(c[1] <= work[v].since)
        BY <1>0, <2>4, <3>2
      <3>. QED  BY <1>0, <2>4, <3>1, <3>2, <3>3, <3>4
    <2>9. OldCodesGone'
      BY <2>2, <2>6 DEF OldCodesGone
    <2>. QED  BY <2>5, <2>6, <2>7, <2>8, <2>9 DEF CInv
  <1>3. ASSUME NEW w \in Workers, TakeVerification(w) \/ TakeResetLinks(w) \/ TakeCodes(w)
        PROVE  CInv'
    <2>1. UNCHANGED <<user, codes, issued, redeemed, replaced>>
      BY <1>3, TakesWhat DEF history
    <2>2. ASSUME NEW v \in Workers, Begun(work'[v]), work'[v].op \in {"setup", "enable", "disable"}
          PROVE  /\ work'[v].since <= issued.batches
                 /\ \A c \in codes : c[1] <= work'[v].since => c \in work'[v].taken
      <3>1. CASE v # w
        BY <1>3, <2>2, <3>1, TakesWhat, TakeTyped DEF CInv
      <3>2. CASE v = w
        <4>1. TakeCodes(w)
          BY <1>3, <2>2, <3>2, TakesWhat, TakeTyped DEF TakeVerification, TakeResetLinks, At
        <4>2. /\ Take(w, codes, issued.batches) /\ work[w].op # "idle"
              /\ codes \in SUBSET (Codes \cup Links)
          BY <1>0, <4>1 DEF TakeCodes, At
        <4>3. work'[w].taken = codes /\ work'[w].since = issued.batches
          BY <1>0, <4>2, TakeTyped
        <4>. QED  BY <1>0, <3>2, <4>3
      <3>. QED  BY <3>1, <3>2
    <2>. QED  BY <2>1, <2>2 DEF CInv, OldCodesGone
  <1>4. ASSUME NEW s \in Sids, Logout(s) \/ DeleteAccount(s)
        PROVE  CInv'
    BY <1>4, CodesKept DEF Logout, DeleteAccount, history, CInv, OldCodesGone
  <1>5. ASSUME NEW w \in Workers, Step(w), ~Redeem(w),
               ~EnableTwoFactor(w), ~SetupTwoFactor(w), ~DisableTwoFactor(w),
               ~TakeVerification(w), ~TakeResetLinks(w), ~TakeCodes(w)
        PROVE  CInv'
    <2>1. UNCHANGED <<codes, redeemed, replaced>>
      BY <1>5 DEF Step, RegisterRead, CreateUser, AskForLink, CreateLink, VerifyRead, VerifyEmail,
         LoginRead, RecordFailure, ClearFailures, OpenSession, ChallengeLoad, ChallengeRead,
         RecordWrong, OpenProved, GuardedRead, Fails, ChangePassword, ResetRead, ResetPassword, history
    <2>2. issued'.batches = issued.batches
      <3>1. CASE CreateUser(w) \/ CreateLink(w) \/ ChangePassword(w) \/ ResetPassword(w)
        BY <1>0, <3>1 DEF CreateUser, CreateLink, ChangePassword, ResetPassword, Issued
      <3>2. CASE UNCHANGED issued
        BY <3>2
      <3>. QED
        BY <1>5, <3>1, <3>2 DEF Step, RegisterRead, AskForLink, VerifyRead, VerifyEmail,
           LoginRead, RecordFailure, ClearFailures, OpenSession, ChallengeLoad, ChallengeRead,
           RecordWrong, OpenProved, GuardedRead, Fails, ResetRead
    <2>3. codes # {} => user' # NoUser
      BY <1>5, RowStays, NoUserAssumption DEF CInv, OldCodesGone
    <2>4. \A v \in Workers : Begun(work'[v]) => work'[v] = work[v]
      BY <1>5, RequestStays
    <2>. QED  BY <2>1, <2>2, <2>3, <2>4, CodesKept
  <1>6. CASE Tick \/ UNCHANGED vars
    BY <1>6, CodesKept DEF Tick, vars, history, CInv, OldCodesGone
  <1>. QED  BY <1>1, <1>2, <1>3, <1>4, <1>5, <1>6 DEF Next

LEMMA CodesInvariant == Spec => []CInv
  <1>1. Init => CInv
    BY DEF Init, CInv, OldCodesGone, Begun, Idle
  <1>2. TInv /\ TInv' /\ CInv /\ [Next]_vars => CInv'
    BY CodesStep
  <1>. QED  BY <1>1, <1>2, Typed, PTL DEF Spec

(* Accounts!CodeRedeemedOnce: no recovery code is accepted twice, however  *)
(* many logins and step-ups present it at the same time.                   *)
THEOREM CodesWorkOnce == Spec => []CodeRedeemedOnce
  <1>1. CInv => CodeRedeemedOnce
    BY DEF CInv, CodeRedeemedOnce
  <1>. QED  BY <1>1, CodesInvariant, PTL

(* Accounts!OldCodesGone: a recovery code that works was issued by an      *)
(* activation that committed after every setup, activation and disabling   *)
(* that has committed took the codes, for any number of overlapping ones.  *)
THEOREM OldCodesStayGone == Spec => []OldCodesGone
  <1>1. CInv => OldCodesGone
    BY DEF CInv
  <1>. QED  BY <1>1, CodesInvariant, PTL

-------------------------------------------------------------------------------
(* Failed logins.                                                          *)

(* A remainder is the only one.                                            *)
LEMMA Remainder ==
    ASSUME NEW m \in Nat \ {0}, NEW q \in Nat, NEW r \in 0 .. m - 1
    PROVE  (m * q + r) % m = r
  <1>. DEFINE n == m * q + r
              d == n \div m
              e == n % m
  <1>1. n = m * d + e /\ e \in 0 .. m - 1 /\ d \in Int
    OBVIOUS
  <1>2. m * (q - d) = e - r
    BY <1>1
  <1>. HIDE DEF n, d, e
  <1>3. q - d < 1 /\ q - d > -1
    BY <1>1, <1>2
  <1>4. q = d
    BY <1>1, <1>3
  <1>5. e = r
    BY <1>1, <1>2, <1>4
  <1>. QED  BY <1>5 DEF n, e

(* One more failure, counted around MaxFailed.                             *)
LEMMA CountsAround ==
    ASSUME NEW n \in Nat
    PROVE  (n + 1) % MaxFailed = CountFailure(n % MaxFailed)
  <1>. DEFINE q == n \div MaxFailed
              r == n % MaxFailed
  <1>0. MaxFailed \in Nat \ {0}
    BY Bounds
  <1>1. n = MaxFailed * q + r /\ q \in Nat /\ r \in 0 .. MaxFailed - 1
    BY <1>0
  <1>. HIDE DEF q, r
  <1>2. CASE r + 1 < MaxFailed
    <2>1. n + 1 = MaxFailed * q + (r + 1) /\ r + 1 \in 0 .. MaxFailed - 1
      BY <1>0, <1>1, <1>2
    <2>2. (n + 1) % MaxFailed = r + 1
      BY <1>0, <1>1, <2>1, Remainder
    <2>. QED  BY <1>0, <1>1, <1>2, <2>2 DEF CountFailure, r
  <1>3. CASE r + 1 >= MaxFailed
    <2>1. n + 1 = MaxFailed * (q + 1) + 0 /\ q + 1 \in Nat /\ 0 \in 0 .. MaxFailed - 1
      BY <1>0, <1>1, <1>3
    <2>2. (n + 1) % MaxFailed = 0
      BY <1>0, <2>1, Remainder
    <2>. QED  BY <1>3, <2>2 DEF CountFailure, r
  <1>. QED  BY <1>0, <1>1, <1>2, <1>3

LEMMA FailuresStep ==
    ASSUME TInv, FailuresCounted, [Next]_vars
    PROVE  FailuresCounted'
  <1>0. streak \in Nat /\ 0 % MaxFailed = 0
    BY Bounds DEF TInv, TypeOK
  <1>1. ASSUME NEW w \in Workers, Step(w), user # NoUser
        PROVE  FailuresCounted'
    <2>1. CASE ~RecordFailure(w) /\ ~ClearFailures(w)
      BY <1>1, <2>1, RowStays DEF FailuresCounted
    <2>2. CASE UNCHANGED <<user, streak>>
      BY <2>2 DEF FailuresCounted
    <2>3. CASE RecordFailure(w) /\ StillThere(w)
      <3>1. streak' = streak + 1 /\ user \in User
        BY <1>1, <2>3, UserId DEF RecordFailure
      <3>2. user'.failed = CountFailure(user.failed)
        BY <2>3, <3>1 DEF RecordFailure, User
      <3>. QED  BY <1>0, <1>1, <3>1, <3>2, CountsAround DEF FailuresCounted
    <2>4. CASE ClearFailures(w) /\ StillThere(w)
      <3>1. streak' = 0 /\ user \in User
        BY <1>1, <2>4, UserId DEF ClearFailures
      <3>2. user'.failed = 0
        BY <2>4, <3>1 DEF ClearFailures, User
      <3>. QED  BY <1>0, <3>1, <3>2 DEF FailuresCounted
    <2>. QED  BY <1>1, <2>1, <2>2, <2>3, <2>4 DEF RecordFailure, ClearFailures
  <1>2. ASSUME NEW w \in Workers, CreateUser(w), user = NoUser
        PROVE  FailuresCounted'
    <2>1. streak' = 0 /\ user'.failed = 0
      BY <1>2 DEF CreateUser
    <2>. QED  BY <1>0, <2>1 DEF FailuresCounted
  <1>3. ASSUME NEW w \in Workers, Step(w), user = NoUser, ~CreateUser(w)
        PROVE  user' = NoUser
    <2>1. CASE VerifyEmail(w)
      BY <1>3, <2>1 DEF VerifyEmail, Unused, TInv, LinksOwned
    <2>2. CASE ResetPassword(w)
      <3>1. links[work[w].link] = NoLink
        BY <1>3, <2>2, AtTyped DEF ResetPassword, Commits, At, Carries, TInv, LinksOwned
      <3>. QED  BY <1>3, <2>2, <3>1 DEF ResetPassword
    <2>. QED
      BY <1>3, <2>1, <2>2 DEF Step, RegisterRead, AskForLink, CreateLink, VerifyRead, LoginRead,
         RecordFailure, ClearFailures, OpenSession, ChallengeLoad, ChallengeRead, Redeem, RecordWrong,
         OpenProved, GuardedRead, Fails, ChangePassword, ResetRead, SetupTwoFactor, EnableTwoFactor,
         DisableTwoFactor, ChangesCodes, StillThere, TakeVerification, TakeResetLinks, TakeCodes
  <1>4. ASSUME NEW s \in Sids, Logout(s) \/ DeleteAccount(s)
        PROVE  FailuresCounted'
    BY <1>4 DEF Logout, DeleteAccount, FailuresCounted, history
  <1>5. CASE Tick \/ UNCHANGED vars
    BY <1>5 DEF Tick, vars, history, FailuresCounted
  <1>. QED  BY <1>1, <1>2, <1>3, <1>4, <1>5 DEF Next, FailuresCounted

(* Accounts!FailuresCounted: no failed login is lost from the count,       *)
(* whatever other failures are being verified at the time.                 *)
THEOREM NoFailureLost == Spec => []FailuresCounted
  <1>1. Init => FailuresCounted
    <2>1. 0 % MaxFailed = 0
      BY Bounds
    <2>. QED  BY <2>1 DEF Init, FailuresCounted, Verified
  <1>2. TInv /\ FailuresCounted /\ [Next]_vars => FailuresCounted'
    BY FailuresStep
  <1>. QED  BY <1>1, <1>2, Typed, PTL DEF Spec

-------------------------------------------------------------------------------
(* Reset links.                                                            *)

(* A step that makes no link and counts no reset.                          *)
LEMMA ResetsKept ==
    ASSUME RInv, UNCHANGED resets, issued'.links = issued.links,
           \A l \in Links : links'[l] \in {links[l], NoLink},
           \A v \in Workers :
             work'[v].op = "reset" => work'[v] = work[v] /\ work[v].link \in Links
    PROVE  RInv'
  BY DEF RInv, ResetsInOrder, WorksForReset

LEMMA ResetsStep ==
    ASSUME TInv, TInv', RInv, [Next]_vars
    PROVE  RInv'
  <1>0. /\ resets \in Seq([link : Nat, since : Nat]) /\ issued.links \in Nat /\ issued \in Issued
        /\ \A i \in DOMAIN resets : resets[i].since \in Nat
        /\ \A l \in Links : links[l] # NoLink => links[l] \in Link /\ links[l].number \in Nat
    <2>1. \A l \in Links : links[l] # NoLink => links[l] \in Link
      BY DEF TInv, TypeOK
    <2>2. \A x \in Link : x.number \in Nat
      BY DEF Link
    <2>. QED  BY <2>1, <2>2, IssuedTyped, ResetsTyped, IssueOne
  <1>1. ASSUME NEW v \in Workers, work[v].op = "reset"
        PROVE  work[v].link \in Links /\ work[v] \in Request /\ work[v].since \in Nat
    BY <1>1, AtTyped DEF Carries, Request
  (* A new link is carried by no request, and has a number of its own.     *)
  <1>2. ASSUME NEW w \in Workers, Step(w), Done(w), NEW l \in Links, FreshLink(l), NEW kind,
               NEW id, links' = [links EXCEPT ![l] = NewLink(kind, id)], UNCHANGED resets,
               issued'.links = issued.links + 1
        PROVE  RInv'
    <2>1. \A m \in Links : m # l => links'[m] = links[m]
      BY <1>2 DEF TInv, TypeOK
    <2>2. links'[l].number = issued.links + 1
      BY <1>2 DEF NewLink, TInv, TypeOK
    <2>3. \A v \in Workers : work'[v].op = "reset" =>
            work'[v] = work[v] /\ work[v].link # l /\ work[v].link \in Links
      BY <1>1, <1>2 DEF Done, FreshLink, TInv, Idle
    <2>4. ASSUME NEW m \in Links, WorksForReset(m)', NEW i \in DOMAIN resets
          PROVE  links'[m].number > resets[i].since
      BY <1>0, <2>1, <2>2, <2>4 DEF RInv, WorksForReset
    <2>5. ASSUME NEW v \in Workers, Begun(work'[v]), work'[v].op = "reset"
          PROVE  /\ work'[v].since <= issued'.links
                 /\ \A m \in Links :
                      /\ WorksForReset(m)' /\ links'[m].user = work'[v].id
                      /\ links'[m].number <= work'[v].since
                      => m \in work'[v].taken
      <3>1. work'[v] = work[v] /\ work[v].since <= issued.links /\ work[v].since \in Nat
        BY <1>1, <2>3, <2>5 DEF RInv
      <3>. QED  BY <1>0, <1>2, <2>1, <2>2, <2>5, <3>1 DEF RInv, WorksForReset
    <2>6. \A i \in DOMAIN resets : resets[i].since <= issued'.links
      BY <1>0, <1>2 DEF RInv
    <2>7. \A v \in Workers : work'[v].op = "reset" /\ links'[work'[v].link] # NoLink =>
            /\ links'[work'[v].link].kind = "reset"
            /\ links'[work'[v].link].user = work'[v].id
      BY <2>1, <2>3 DEF RInv
    <2>. QED  BY <1>2, <2>4, <2>5, <2>6, <2>7 DEF RInv, ResetsInOrder
  <1>3. ASSUME NEW w \in Workers, ResetRead(w)
        PROVE  RInv'
    <2>1. PICK l \in Links :
            /\ links[l] # NoLink /\ links[l].kind = "reset"
            /\ Begin(w, [Blank EXCEPT !.op = "reset", !.id = user.id, !.link = l, !.at = now])
      BY <1>3 DEF ResetRead
    <2>. DEFINE r == [Blank EXCEPT !.op = "reset", !.id = user.id, !.link = l, !.at = now]
    <2>2. r.link = l /\ r.id = user.id /\ ~r.begun
      BY DEF Blank
    <2>. HIDE DEF r
    <2>3. work' = [work EXCEPT ![w] = r]
      BY <2>1 DEF Begin, r
    <2>4. \A v \in Workers : work'[v] = work[v] \/ work'[v] = r
      BY <2>3 DEF TInv
    <2>5. links[l].user = user.id
      BY <2>1 DEF TInv, LinksOwned
    <2>6. UNCHANGED <<links, issued, resets>>
      BY <1>3 DEF ResetRead, history
    <2>7. \A v \in Workers : work'[v].op = "reset" /\ links[work'[v].link] # NoLink =>
            /\ links[work'[v].link].kind = "reset"
            /\ links[work'[v].link].user = work'[v].id
      BY <2>1, <2>2, <2>4, <2>5 DEF RInv
    <2>8. \A v \in Workers : Begun(work'[v]) => work'[v] = work[v]
      BY <2>2, <2>4 DEF Begun
    <2>. QED  BY <2>6, <2>7, <2>8 DEF RInv, ResetsInOrder, WorksForReset
  <1>4. ASSUME NEW w \in Workers, TakeVerification(w) \/ TakeResetLinks(w) \/ TakeCodes(w)
        PROVE  RInv'
    <2>1. UNCHANGED <<links, issued, resets>>
      BY <1>4, TakesWhat DEF history
    <2>2. /\ \A v \in Workers : v # w => work'[v] = work[v]
          /\ work'[w].op = work[w].op /\ work'[w].id = work[w].id /\ work'[w].link = work[w].link
      BY <1>4, TakesWhat, TakeTyped
    <2>3. ASSUME work[w].op = "reset"
          PROVE  work'[w].taken = Unused("reset", work[w].id) /\ work'[w].since = issued.links
      <3>1. /\ Take(w, Unused("reset", work[w].id), issued.links)
            /\ Unused("reset", work[w].id) \in SUBSET (Codes \cup Links)
        BY <1>4, <2>3 DEF TakeVerification, TakeResetLinks, TakeCodes, At, Unused
      <3>. QED  BY <1>0, <2>3, <3>1, TakeTyped
    <2>4. \A v \in Workers :
            work'[v].op = "reset" /\ links[work'[v].link] # NoLink =>
              /\ links[work'[v].link].kind = "reset"
              /\ links[work'[v].link].user = work'[v].id
      BY <2>2 DEF RInv
    <2>5. ASSUME NEW v \in Workers, Begun(work'[v]), work'[v].op = "reset"
          PROVE  /\ work'[v].since <= issued.links
                 /\ \A l \in Links :
                      /\ WorksForReset(l) /\ links[l].user = work'[v].id
                      /\ links[l].number <= work'[v].since
                      => l \in work'[v].taken
      <3>1. CASE v # w
        BY <2>2, <2>5, <3>1 DEF RInv
      <3>2. CASE v = w
        BY <1>0, <2>2, <2>3, <2>5, <3>2 DEF Unused, WorksForReset
      <3>. QED  BY <3>1, <3>2
    <2>. QED  BY <2>1, <2>4, <2>5 DEF RInv, ResetsInOrder, WorksForReset
  <1>5. ASSUME NEW w \in Workers, ResetPassword(w)
        PROVE  RInv'
    <2>. DEFINE l == work[w].link
    <2>1. /\ l \in Links /\ Done(w) /\ work[w].op = "reset" /\ Begun(work[w])
          /\ work[w].since \in Nat
      BY <1>1, <1>5 DEF ResetPassword, Commits, At, Begun
    <2>2. \A v \in Workers : work'[v].op = "reset" => work'[v] = work[v] /\ work[v].link \in Links
      BY <1>1, <2>1 DEF Done, Idle, TInv
    <2>3. CASE UNCHANGED <<links, issued, resets>>
      BY <2>2, <2>3, ResetsKept
    <2>4. CASE links[l] # NoLink /\ links[l].expiresAt > work[w].at
      <3>. DEFINE entry == [link |-> links[l].number, since |-> work[w].since]
      <3>1. /\ links' = MarkUsed(Superseded(w))
            /\ issued' = [issued EXCEPT !.passwords = @ + 1]
            /\ resets' = Append(resets, entry)
        BY <1>5, <2>4 DEF ResetPassword
      <3>2. issued'.links = issued.links
        BY <1>0, <3>1 DEF Issued
      <3>3. WorksForReset(l) /\ links[l].user = work[w].id
        BY <2>1, <2>4 DEF RInv, WorksForReset
      <3>4. \A m \in Links : /\ links'[m] \in {links[m], NoLink}
                             /\ m \in work[w].taken => links'[m] = NoLink
        BY <3>1 DEF MarkUsed, Superseded
      <3>5. ASSUME NEW m \in Links, WorksForReset(m)'
            PROVE  /\ WorksForReset(m) /\ links'[m] = links[m]
                   /\ links[m].number > work[w].since
        <4>1. WorksForReset(m) /\ links'[m] = links[m] /\ m \notin work[w].taken
          BY <3>4, <3>5 DEF WorksForReset
        <4>2. links[m].user = work[w].id
          BY <2>1, <2>4, <3>3, <4>1 DEF WorksForReset, TInv, LinksOwned
        <4>3. ~(links[m].number <= work[w].since)
          BY <2>1, <4>1, <4>2 DEF RInv
        <4>. QED  BY <1>0, <2>1, <4>1, <4>3 DEF WorksForReset
      <3>. HIDE DEF entry
      <3>6. /\ DOMAIN resets = 1 .. Len(resets) /\ DOMAIN resets' = 1 .. Len(resets) + 1
            /\ Len(resets) \in Nat
            /\ \A i \in 1 .. Len(resets) : resets'[i] = resets[i]
            /\ resets'[Len(resets) + 1] = entry
        BY <1>0, <3>1, ResetsTyped
      <3>7. entry.link = links[l].number /\ entry.since = work[w].since
        BY DEF entry
      <3>8. ResetsInOrder'
        <4>1. \A i \in DOMAIN resets : entry.link > resets[i].since
          BY <2>1, <3>3, <3>7 DEF RInv
        <4>. QED  BY <3>6, <4>1 DEF ResetsInOrder, RInv
      <3>9. \A i \in DOMAIN resets' : resets'[i].since <= issued'.links
        BY <2>1, <3>2, <3>6, <3>7 DEF RInv
      <3>10. ASSUME NEW m \in Links, WorksForReset(m)', NEW i \in DOMAIN resets'
             PROVE  links'[m].number > resets'[i].since
        BY <3>5, <3>6, <3>7, <3>10 DEF RInv
      <3>11. \A v \in Workers :
               work'[v].op = "reset" /\ links'[work'[v].link] # NoLink =>
                 /\ links'[work'[v].link].kind = "reset"
                 /\ links'[work'[v].link].user = work'[v].id
        BY <2>2, <3>4 DEF RInv
      <3>12. \A v \in Workers :
               Begun(work'[v]) /\ work'[v].op = "reset" =>
                 /\ work'[v].since <= issued'.links
                 /\ \A m \in Links :
                      /\ WorksForReset(m)' /\ links'[m].user = work'[v].id
                      /\ links'[m].number <= work'[v].since
                      => m \in work'[v].taken
        BY <2>2, <3>2, <3>5 DEF RInv
      <3>. QED  BY <3>8, <3>9, <3>10, <3>11, <3>12 DEF RInv
    <2>. QED  BY <1>5, <2>3, <2>4 DEF ResetPassword
  <1>6. ASSUME NEW s \in Sids, Logout(s) \/ DeleteAccount(s)
        PROVE  RInv'
    <2>1. \A l \in Links : links'[l] \in {links[l], NoLink}
      BY <1>6 DEF Logout, DeleteAccount
    <2>. QED  BY <1>1, <1>6, <2>1, ResetsKept DEF Logout, DeleteAccount, history
  <1>7. CASE Tick \/ UNCHANGED vars
    BY <1>1, <1>7, ResetsKept DEF Tick, vars, history
  <1>8. ASSUME NEW w \in Workers, CreateUser(w) \/ CreateLink(w), ~UNCHANGED <<links, issued>>
        PROVE  RInv'
    <2>1. issued'.links = issued.links + 1
      BY <1>0, <1>8 DEF CreateUser, CreateLink, Issued
    <2>2. UNCHANGED resets /\ Done(w) /\ Step(w)
      BY <1>8 DEF CreateUser, CreateLink, history, Step
    <2>. QED  BY <1>2, <1>8, <2>1, <2>2 DEF CreateUser, CreateLink
  <1>9. ASSUME NEW w \in Workers, Step(w), ~ResetRead(w), ~ResetPassword(w),
               ~TakeVerification(w), ~TakeResetLinks(w), ~TakeCodes(w),
               CreateUser(w) \/ CreateLink(w) => UNCHANGED <<links, issued>>
        PROVE  RInv'
    <2>1. \A v \in Workers : work'[v].op = "reset" => work'[v] = work[v] /\ work[v].link \in Links
      BY <1>1, <1>9, RequestStays
    <2>2. UNCHANGED resets
      BY <1>9 DEF Step, RegisterRead, CreateUser, AskForLink, CreateLink, VerifyRead, VerifyEmail,
         LoginRead, RecordFailure, ClearFailures, OpenSession, ChallengeLoad, ChallengeRead, Redeem,
         RecordWrong, OpenProved, GuardedRead, Fails, ChangePassword, SetupTwoFactor,
         EnableTwoFactor, DisableTwoFactor, history
    <2>3. \A l \in Links : links'[l] \in {links[l], NoLink}
      BY <1>9 DEF Step, RegisterRead, AskForLink, VerifyRead, VerifyEmail, MarkUsed,
         LoginRead, RecordFailure, ClearFailures, OpenSession, ChallengeLoad, ChallengeRead, Redeem,
         RecordWrong, OpenProved, GuardedRead, Fails, ChangePassword, SetupTwoFactor,
         EnableTwoFactor, DisableTwoFactor
    <2>4. issued'.links = issued.links
      <3>1. CASE \/ ChangePassword(w) \/ SetupTwoFactor(w) \/ EnableTwoFactor(w)
                 \/ DisableTwoFactor(w)
        BY <1>0, <3>1
        DEF ChangePassword, SetupTwoFactor, EnableTwoFactor, DisableTwoFactor, Issued
      <3>2. CASE CreateUser(w) \/ CreateLink(w)
        BY <1>9, <3>2
      <3>. QED
        BY <1>9, <3>1, <3>2 DEF Step, RegisterRead, AskForLink, VerifyRead, VerifyEmail,
           LoginRead, RecordFailure, ClearFailures, OpenSession, ChallengeLoad, ChallengeRead,
           Redeem, RecordWrong, OpenProved, GuardedRead, Fails
    <2>. QED  BY <2>1, <2>2, <2>3, <2>4, ResetsKept
  <1>. QED
    BY <1>3, <1>4, <1>5, <1>6, <1>7, <1>8, <1>9 DEF Next

(* Accounts!ResetsInOrder: each reset of the password used a link issued   *)
(* after every reset before it had taken the links of the account, for any *)
(* number of resets that overlap.                                          *)
THEOREM ResetLinksWorkInOrder == Spec => []ResetsInOrder
  <1>1. Init => RInv
    BY DEF Init, RInv, ResetsInOrder, WorksForReset, Begun, Idle
  <1>2. TInv /\ TInv' /\ RInv /\ [Next]_vars => RInv'
    BY ResetsStep
  <1>3. RInv => ResetsInOrder
    BY DEF RInv
  <1>. QED  BY <1>1, <1>2, <1>3, Typed, PTL DEF Spec

===============================================================================
