-------------------------------- MODULE Auth --------------------------------
(* One account: its password, second factor, sessions and API keys, and the  *)
(* requests that use or change them.  A handler is split where it lets go of *)
(* the database between reading a row and writing it back: a password is     *)
(* hashed there, for a second or more.                                       *)
(*                                                                           *)
(* A one-time code is <<secret, step>>.  A recovery code belongs to the      *)
(* batch it was printed with.                                                *)
EXTENDS Naturals, FiniteSets

CONSTANTS
    Passwords,     \* passwords somebody knows
    Unknown,       \* the generated password of a legacy account
    Secrets,       \* authenticator secrets the server may draw
    Batches,       \* bound: batches of recovery codes it may draw
    None,          \* no secret, no code
    Sessions,      \* bound: session ids
    ApiKeys,       \* bound: API key ids
    Requests,      \* requests in progress
    Scenarios,     \* bound: the operations and faults met in one behaviour
    maxFailures,   \* failed attempts that lock a scope (5)
    recoveryCASAttempts,
    MaxUncounted,  \* bound: counts of the failures that cannot be read
    MaxTime        \* bound: time steps of a behaviour

Times == 1..MaxTime
Codes == UNION Batches
OneTime == Secrets \X Times
Factors == OneTime \cup Codes
Scopes == {"login", "reauth"}

ASSUME AuthAssumption ==
    /\ Passwords # {} /\ Unknown \notin Passwords
    /\ None \notin Secrets \cup Factors
    /\ OneTime \cap Codes = {}
    /\ Sessions \cap ApiKeys = {}
    /\ \A b, c \in Batches : b # c => b \cap c = {}
    /\ IsFiniteSet(Requests)
    /\ maxFailures \in Nat \ {0}
    /\ recoveryCASAttempts \in Nat \ {0}
    /\ MaxUncounted \in Nat
    /\ MaxTime \in Nat \ {0}

VARIABLES
    doors,      \* the scenario of this behaviour
    user,       \* the users row
    policy,     \* settings require_totp
    session,    \* sessions, and the iat of the token of each
    key,        \* api_keys
    fails,      \* failed login_attempts of the last 15 minutes, per scope
    uncounted,  \* history: attempts let in at the limit, as the count could not be read
    now,        \* the clock
    req,        \* what each request has read and is about to do
    drawn,      \* secrets and batches drawn so far
    spent,      \* history: one-time and recovery codes accepted
    reused,     \* history: one was accepted twice
    dead        \* history: sessions a completed revocation was about

settings == <<doors, policy>>
history == <<spent, reused, dead>>
vars == <<doors, user, policy, session, key, fails, uncounted, now, req, drawn, spent, reused, dead>>

Users ==
    [hash : Passwords \cup {Unknown}, legacy : BOOLEAN, passwordSet : BOOLEAN,
     disabled : BOOLEAN, enabled : BOOLEAN, secret : Secrets \cup {None},
     codes : SUBSET Codes, lastStep : 0..MaxTime, validAfter : 0..MaxTime]

Idle == [pc |-> "idle"]
Revoking == {"valid_after", "rows", "keys"}
Reqs ==
    {Idle}
    \cup [pc : {"refused"}, scope : Scopes]
    \cup [pc : {"rehash", "state"}, pw : Passwords, code : Factors \cup {None},
          era : SUBSET Batches]
    \cup [pc : {"spend"}, scope : Scopes, code : Factors, secret : Secrets \cup {None},
          era : SUBSET Batches]
    \cup [pc : {"recover"}, scope : Scopes, code : Factors, tries : 0..recoveryCASAttempts,
          era : SUBSET Batches]
    \cup [pc : {"swap"}, scope : Scopes, code : Codes, tries : 0..recoveryCASAttempts,
          seen : SUBSET Codes, era : SUBSET Batches]
    \cup [pc : {"mint"}, era : SUBSET Batches, paid : BOOLEAN]
    \cup [pc : {"set"}, pw : Passwords, mints : BOOLEAN]
    \cup [pc : Revoking, old : SUBSET Sessions, missed : BOOLEAN, mints : BOOLEAN]
    \cup [pc : {"initial"}, pw : Passwords]
    \cup [pc : {"setup", "enable", "unenrol", "key"}]
    \cup [pc : {"check"}, code : Factors]

(* Every variable holds a value of the column or the local it models. *)
TypeOK ==
    /\ doors \in Scenarios
    /\ user \in Users
    /\ policy \in BOOLEAN
    /\ session \in [Sessions -> [state : {"unborn", "live", "revoked", "lapsed"},
                                 iat : 0..MaxTime]]
    /\ key \in [ApiKeys -> {"unborn", "live", "revoked", "lapsed", "deleted"}]
    /\ fails \in [Scopes -> Nat]
    /\ uncounted \in Nat
    /\ now \in Times
    /\ req \in [Requests -> Reqs]
    /\ drawn \in [secrets : SUBSET Secrets, batches : SUBSET Batches]
    /\ spent \subseteq Factors
    /\ reused \in BOOLEAN
    /\ dead \subseteq Sessions

(* An account of today, one whose hash is still bcrypt, and one an older     *)
(* release created with a password nobody was told and an extension's key.   *)
Accounts ==
    [hash : Passwords, legacy : IF "legacy" \in doors THEN BOOLEAN ELSE {FALSE},
     passwordSet : {TRUE}, disabled : {FALSE}, enabled : {FALSE}, secret : {None},
     codes : {{}}, lastStep : {0}, validAfter : {0}]
    \cup [hash : {Unknown : d \in doors \cap {"initial"}}, legacy : {FALSE},
          passwordSet : {FALSE}, disabled : {FALSE}, enabled : {FALSE}, secret : {None},
          codes : {{}}, lastStep : {0}, validAfter : {0}]

Init ==
    /\ doors \in Scenarios
    /\ user \in Accounts
    /\ policy = FALSE
    /\ session = [s \in Sessions |-> [state |-> "unborn", iat |-> 0]]
    /\ key \in {[k \in ApiKeys |-> IF k \in K THEN "live" ELSE "unborn"] :
                    K \in {k \in SUBSET ApiKeys : ~user.passwordSet => k # {}}}
    /\ fails = [s \in Scopes |-> 0]
    /\ uncounted = 0
    /\ now = 1
    /\ req = [r \in Requests |-> Idle]
    /\ drawn = [secrets |-> {}, batches |-> {}]
    /\ spent = {} /\ reused = FALSE /\ dead = {}

-----------------------------------------------------------------------------
(* The middleware. *)

(* Mutant: a token of the second of the cut is refused too. *)
RefusesTheSameSecond(iat) == user.validAfter > 0 /\ iat > 0 /\ iat <= user.validAfter
sessionRevoked(iat) == user.validAfter > 0 /\ iat > 0 /\ iat < user.validAfter

validateSession(s) == session[s].state = "live"

(* Mutant: only the session row is looked at. *)
RowOnly(s) == ~user.disabled /\ validateSession(s)
SessionAccepted(s) == ~user.disabled /\ ~sessionRevoked(session[s].iat) /\ validateSession(s)

KeyAccepted(k) == key[k] = "live" /\ ~user.disabled

(* A request under /auth carries either credential. *)
Authenticated == (\E s \in Sessions : SessionAccepted(s)) \/ (\E k \in ApiKeys : KeyAccepted(k))

(* The routes beyond /auth are also behind the enrolment policy. *)
RequireTOTPEnrollment == policy => user.enabled

-----------------------------------------------------------------------------
(* Steps several handlers share. *)

Goes(r, to) == req' = [req EXCEPT ![r] = to]
(* Mutant: the attempt that reaches the limit is let through once more. *)
LateLock(scope) == fails[scope] > maxFailures
TooManyFailures(scope) == fails[scope] >= maxFailures

(* A count that cannot be read refuses a login, and locks nobody out of the  *)
(* re-authentication of a session; below the limit it makes no difference.   *)
reauthOpen ==
    \/ ~TooManyFailures("reauth") /\ UNCHANGED uncounted
    \/ /\ TooManyFailures("reauth")
       /\ "uncounted" \in doors /\ uncounted < MaxUncounted
       /\ uncounted' = uncounted + 1

(* recordFailure; an error of the insert is only logged. *)
RecordFailure(r) ==
    /\ req[r].pc = "refused"
    /\ \/ fails' = [fails EXCEPT ![req[r].scope] = @ + 1]
       \/ "unrecorded" \in doors /\ UNCHANGED fails
    /\ Goes(r, Idle)
    /\ UNCHANGED <<user, settings, session, key, uncounted, now, drawn, history>>

(* The code of this step and of the one before it are accepted. *)
ValidateCodeStep(secret, code) ==
    code \in OneTime /\ code[1] = secret /\ code[2] \in {now, now - 1}

ClaimTOTPStep(step) == step > user.lastStep

Accept(code) ==
    /\ spent' = spent \cup {code}
    /\ reused' = (reused \/ code \in spent)
    /\ UNCHANGED dead

(* What a login or a disable does once its code is spent. *)
Paid(q) == IF q.scope = "login" THEN [pc |-> "mint", era |-> q.era, paid |-> TRUE]
           ELSE [pc |-> "unenrol"]

spendTOTPStep(r) ==
    /\ req[r].pc = "spend"
    /\ LET q == req[r] IN
       IF ValidateCodeStep(q.secret, q.code) /\ ClaimTOTPStep(q.code[2])
       THEN /\ user' = [user EXCEPT !.lastStep = q.code[2]]
            /\ Accept(q.code)
            /\ Goes(r, Paid(q))
       ELSE /\ Goes(r, [pc |-> "recover", scope |-> q.scope, code |-> q.code,
                        tries |-> 0, era |-> q.era])
            /\ UNCHANGED <<user, history>>
    /\ UNCHANGED <<settings, session, key, fails, uncounted, now, drawn>>

(* The read of consumeRecoveryCode, and its give-up after the last attempt. *)
ReadRecoveryCodes(r) ==
    /\ req[r].pc = "recover"
    /\ LET q == req[r] IN
       Goes(r, IF q.code \in user.codes /\ q.tries < recoveryCASAttempts
               THEN [pc |-> "swap", scope |-> q.scope, code |-> q.code,
                     tries |-> q.tries + 1, seen |-> user.codes, era |-> q.era]
               ELSE [pc |-> "refused", scope |-> q.scope])
    /\ UNCHANGED <<user, settings, session, key, fails, uncounted, now, drawn, history>>

(* Mutant: the remaining codes are written whatever is stored now. *)
PlainUpdate(seen) == TRUE
CASRecoveryCodes(seen) == user.codes = seen

consumeRecoveryCode(r) ==
    /\ req[r].pc = "swap"
    /\ LET q == req[r] IN
       IF CASRecoveryCodes(q.seen)
       THEN /\ user' = [user EXCEPT !.codes = q.seen \ {q.code}]
            /\ Accept(q.code)
            /\ Goes(r, Paid(q))
       ELSE /\ Goes(r, [pc |-> "recover", scope |-> q.scope, code |-> q.code,
                        tries |-> q.tries, era |-> q.era])
            /\ UNCHANGED <<user, history>>
    /\ UNCHANGED <<settings, session, key, fails, uncounted, now, drawn>>

(* generateToken: the session row, and a token issued now. *)
generateToken(r) ==
    /\ req[r].pc = "mint"
    /\ \E s \in Sessions :
          /\ session[s].state = "unborn"
          /\ session' = [session EXCEPT ![s] = [state |-> "live", iat |-> now]]
    /\ Goes(r, Idle)
    /\ UNCHANGED <<user, settings, key, fails, uncounted, now, drawn, history>>

(* invalidateCredentials is three writes of their own; an error of one is    *)
(* logged and the next is made.                                              *)
Revoke(mints) == [pc |-> "valid_after", missed |-> FALSE, mints |-> mints,
                  old |-> {s \in Sessions : session[s].state # "unborn" /\ session[s].iat < now}]

InvalidateUserSessions(r) ==
    /\ req[r].pc = "valid_after"
    /\ \/ /\ user' = [user EXCEPT !.validAfter = now]
          /\ Goes(r, [req[r] EXCEPT !.pc = "rows"])
       \/ /\ "half_revoked" \in doors
          /\ Goes(r, [req[r] EXCEPT !.pc = "rows", !.missed = TRUE])
          /\ UNCHANGED user
    /\ UNCHANGED <<settings, session, key, fails, uncounted, now, drawn, history>>

RevokeUserSessions(r) ==
    /\ req[r].pc = "rows"
    /\ \/ /\ session' = [s \in Sessions |-> IF session[s].state = "live"
                            THEN [session[s] EXCEPT !.state = "revoked"] ELSE session[s]]
          /\ Goes(r, [req[r] EXCEPT !.pc = "keys"])
       \/ /\ "half_revoked" \in doors /\ ~req[r].missed
          /\ Goes(r, [req[r] EXCEPT !.pc = "keys", !.missed = TRUE])
          /\ UNCHANGED session
    /\ UNCHANGED <<user, settings, key, fails, uncounted, now, drawn, history>>

KeysRevoked == [k \in ApiKeys |-> IF key[k] \in {"live", "lapsed"} THEN "revoked" ELSE key[k]]

RevokeAPIKeysByUser(r) ==
    /\ req[r].pc = "keys"
    /\ \/ key' = KeysRevoked
       \/ "half_revoked" \in doors /\ ~req[r].missed /\ UNCHANGED key
    /\ dead' = dead \cup req[r].old
    /\ Goes(r, IF req[r].mints THEN [pc |-> "mint", era |-> {}, paid |-> FALSE] ELSE Idle)
    /\ UNCHANGED <<user, settings, session, fails, uncounted, now, drawn, spent, reused>>

-----------------------------------------------------------------------------
(* Signing in and out. *)

Era == IF user.enabled THEN drawn.batches ELSE {}

(* The row is read once: its hash and its disabled flag decide. *)
Login(r, pw, code) ==
    /\ req[r] = Idle
    /\ code = None \/ "totp" \in doors
    /\ ~TooManyFailures("login")
    /\ Goes(r, IF pw = user.hash /\ ~user.disabled
               THEN [pc |-> IF user.legacy THEN "rehash" ELSE "state",
                     pw |-> pw, code |-> code, era |-> Era]
               ELSE [pc |-> "refused", scope |-> "login"])
    /\ UNCHANGED <<user, settings, session, key, fails, uncounted, now, drawn, history>>

(* The upgrade of a bcrypt hash writes whatever the row holds by then; its   *)
(* failure does not stop the login.                                          *)
UpdatePasswordHash(r) ==
    /\ req[r].pc = "rehash"
    /\ \/ user' = [user EXCEPT !.hash = req[r].pw, !.legacy = FALSE]
       \/ UNCHANGED user
    /\ Goes(r, [req[r] EXCEPT !.pc = "state"])
    /\ UNCHANGED <<settings, session, key, fails, uncounted, now, drawn, history>>

(* Mutant: a login that sends no code is let in instead of asked for one. *)
NoCodeNoQuestion(q) ==
    IF ~user.enabled \/ q.code = None THEN [pc |-> "mint", era |-> q.era, paid |-> FALSE]
    ELSE [pc |-> "spend", scope |-> "login", code |-> q.code, secret |-> user.secret,
          era |-> q.era]

SecondFactor(q) ==
    IF ~user.enabled THEN [pc |-> "mint", era |-> q.era, paid |-> FALSE]
    ELSE IF q.code = None THEN Idle
    ELSE [pc |-> "spend", scope |-> "login", code |-> q.code, secret |-> user.secret,
          era |-> q.era]

GetUserTOTPState(r) ==
    /\ req[r].pc = "state"
    /\ Goes(r, SecondFactor(req[r]))
    /\ UNCHANGED <<user, settings, session, key, fails, uncounted, now, drawn, history>>

Logout(s) ==
    /\ "logout" \in doors
    /\ SessionAccepted(s)
    /\ session' = [session EXCEPT ![s].state = "revoked"]
    /\ UNCHANGED <<user, settings, key, fails, uncounted, now, req, drawn, history>>

-----------------------------------------------------------------------------
(* Passwords. *)

(* The old password is checked against the hash read here. *)
ChangePassword(r, pw, new) ==
    /\ req[r] = Idle
    /\ "change" \in doors
    /\ Authenticated /\ pw = user.hash
    /\ Goes(r, [pc |-> "set", pw |-> new, mints |-> TRUE])
    /\ UNCHANGED <<user, settings, session, key, fails, uncounted, now, drawn, history>>

(* An administrator, who needs no credential of this account. *)
ResetPassword(r, new) ==
    /\ req[r] = Idle
    /\ "reset" \in doors
    /\ Goes(r, [pc |-> "set", pw |-> new, mints |-> FALSE])
    /\ UNCHANGED <<user, settings, session, key, fails, uncounted, now, drawn, history>>

SetPasswordHash(r) ==
    /\ req[r].pc = "set"
    /\ user' = [user EXCEPT !.hash = req[r].pw, !.legacy = FALSE, !.passwordSet = TRUE]
    /\ Goes(r, Revoke(req[r].mints))
    /\ UNCHANGED <<settings, session, key, fails, uncounted, now, drawn, history>>

SetInitialPassword(r, new) ==
    /\ req[r] = Idle
    /\ "initial" \in doors
    /\ Authenticated /\ ~user.passwordSet
    /\ Goes(r, [pc |-> "initial", pw |-> new])
    /\ UNCHANGED <<user, settings, session, key, fails, uncounted, now, drawn, history>>

(* Mutant: the early read is trusted and the write is unconditional. *)
TrustsTheRead(r) ==
    /\ req[r].pc = "initial"
    /\ user' = [user EXCEPT !.hash = req[r].pw, !.legacy = FALSE, !.passwordSet = TRUE]
    /\ Goes(r, Idle)
    /\ UNCHANGED <<settings, session, key, fails, uncounted, now, drawn, history>>

(* The compare-and-set; the loser changes nothing. *)
SetInitialPasswordHash(r) ==
    /\ req[r].pc = "initial"
    /\ user' = IF user.passwordSet THEN user
               ELSE [user EXCEPT !.hash = req[r].pw, !.legacy = FALSE, !.passwordSet = TRUE]
    /\ Goes(r, Idle)
    /\ UNCHANGED <<settings, session, key, fails, uncounted, now, drawn, history>>

Disable(r) ==
    /\ req[r] = Idle
    /\ "disable" \in doors
    /\ user' = [user EXCEPT !.disabled = TRUE]
    /\ Goes(r, Revoke(FALSE))
    /\ UNCHANGED <<settings, session, key, fails, uncounted, now, drawn, history>>

Enable ==
    /\ user.disabled
    /\ user' = [user EXCEPT !.disabled = FALSE]
    /\ UNCHANGED <<settings, session, key, fails, uncounted, now, req, drawn, history>>

-----------------------------------------------------------------------------
(* Two-factor enrolment. *)

TOTPSetup(r) ==
    /\ req[r] = Idle
    /\ "totp" \in doors
    /\ Authenticated /\ ~user.enabled
    /\ Goes(r, [pc |-> "setup"])
    /\ UNCHANGED <<user, settings, session, key, fails, uncounted, now, drawn, history>>

StoreTOTPSecret(r) ==
    /\ req[r].pc = "setup"
    /\ \E s \in Secrets \ drawn.secrets :
          /\ user' = [user EXCEPT !.secret = s]
          /\ drawn' = [drawn EXCEPT !.secrets = @ \cup {s}]
    /\ Goes(r, Idle)
    /\ UNCHANGED <<settings, session, key, fails, uncounted, now, history>>

(* A legacy account without a password of its own proves none. *)
TOTPVerify(r, pw, code) ==
    /\ req[r] = Idle
    /\ "totp" \in doors
    /\ Authenticated
    /\ reauthOpen
    /\ Goes(r, IF user.passwordSet => pw = user.hash THEN [pc |-> "check", code |-> code]
               ELSE [pc |-> "refused", scope |-> "reauth"])
    /\ UNCHANGED <<user, settings, session, key, fails, now, drawn, history>>

(* The code is compared with the secret stored now; its step is not spent. *)
GetTOTPSecret(r) ==
    /\ req[r].pc = "check"
    /\ Goes(r, IF user.secret = None THEN Idle
               ELSE IF ValidateCodeStep(user.secret, req[r].code) THEN [pc |-> "enable"]
               ELSE [pc |-> "refused", scope |-> "reauth"])
    /\ UNCHANGED <<user, settings, session, key, fails, uncounted, now, drawn, history>>

EnableTOTP(r) ==
    /\ req[r].pc = "enable"
    /\ \E b \in Batches \ drawn.batches :
          /\ user' = [user EXCEPT !.enabled = TRUE, !.codes = b]
          /\ drawn' = [drawn EXCEPT !.batches = @ \cup {b}]
    /\ Goes(r, Idle)
    /\ UNCHANGED <<settings, session, key, fails, uncounted, now, history>>

(* Refused while the policy requires two factors; the code is spent first. *)
TOTPDisable(r, pw, code) ==
    /\ req[r] = Idle
    /\ "totp" \in doors
    /\ Authenticated
    /\ reauthOpen
    /\ pw = user.hash => ~policy
    /\ Goes(r, IF pw = user.hash
               THEN [pc |-> "spend", scope |-> "reauth", code |-> code,
                     secret |-> user.secret, era |-> {}]
               ELSE [pc |-> "refused", scope |-> "reauth"])
    /\ UNCHANGED <<user, settings, session, key, fails, now, drawn, history>>

DisableTOTP(r) ==
    /\ req[r].pc = "unenrol"
    /\ user' = [user EXCEPT !.enabled = FALSE, !.secret = None, !.codes = {}]
    /\ Goes(r, Idle)
    /\ UNCHANGED <<settings, session, key, fails, uncounted, now, drawn, history>>

-----------------------------------------------------------------------------
(* API keys. *)

(* Only an interactive session may make one. *)
CreateAPIKey(r) ==
    /\ req[r] = Idle
    /\ "keys" \in doors
    /\ RequireTOTPEnrollment
    /\ \E s \in Sessions : SessionAccepted(s)
    /\ Goes(r, [pc |-> "key"])
    /\ UNCHANGED <<user, settings, session, key, fails, uncounted, now, drawn, history>>

CreateAPIKeyForUser(r) ==
    /\ req[r].pc = "key"
    /\ \E k \in ApiKeys : key[k] = "unborn" /\ key' = [key EXCEPT ![k] = "live"]
    /\ Goes(r, Idle)
    /\ UNCHANGED <<user, settings, session, fails, uncounted, now, drawn, history>>

DeleteAPIKey(k) ==
    /\ "keys" \in doors
    /\ RequireTOTPEnrollment /\ Authenticated
    /\ key[k] \notin {"unborn", "deleted"}
    /\ key' = [key EXCEPT ![k] = "deleted"]
    /\ UNCHANGED <<user, settings, session, fails, uncounted, now, req, drawn, history>>

AdminRevoke(k) ==
    /\ "keys" \in doors
    /\ key[k] \in {"live", "lapsed"}
    /\ key' = [key EXCEPT ![k] = "revoked"]
    /\ UNCHANGED <<user, settings, session, fails, uncounted, now, req, drawn, history>>

AdminRevokeAll ==
    /\ "keys" \in doors
    /\ key' = KeysRevoked
    /\ UNCHANGED <<user, settings, session, fails, uncounted, now, req, drawn, history>>

-----------------------------------------------------------------------------
(* Time, and the administrator's policy. *)

Tick ==
    /\ now < MaxTime
    /\ now' = now + 1
    /\ UNCHANGED <<user, settings, session, key, fails, uncounted, req, drawn, history>>

(* A session idles out or meets its deadline; a key expires. *)
Lapse ==
    /\ "lapse" \in doors
    /\ \/ \E s \in Sessions :
             /\ session[s].state = "live"
             /\ session' = [session EXCEPT ![s].state = "lapsed"]
             /\ UNCHANGED key
       \/ \E k \in ApiKeys :
             /\ key[k] = "live"
             /\ key' = [key EXCEPT ![k] = "lapsed"]
             /\ UNCHANGED session
    /\ UNCHANGED <<user, settings, fails, uncounted, now, req, drawn, history>>

CountRecentFailed(scope) == fails[scope] - 1

(* The oldest failure leaves the fifteen minutes that are counted. *)
WindowPasses(scope) ==
    /\ "window" \in doors
    /\ fails[scope] > 0
    /\ fails' = [fails EXCEPT ![scope] = CountRecentFailed(scope)]
    /\ UNCHANGED <<user, settings, session, key, uncounted, now, req, drawn, history>>

SetPolicy ==
    /\ "policy" \in doors
    /\ policy' = ~policy
    /\ UNCHANGED <<doors, user, session, key, fails, uncounted, now, req, drawn, history>>

-----------------------------------------------------------------------------
Step(r) ==
    \/ \E pw \in Passwords, code \in Factors \cup {None} : Login(r, pw, code)
    \/ \E pw, new \in Passwords : ChangePassword(r, pw, new)
    \/ \E new \in Passwords : ResetPassword(r, new) \/ SetInitialPassword(r, new)
    \/ \E pw \in Passwords, code \in OneTime : TOTPVerify(r, pw, code)
    \/ \E pw \in Passwords, code \in Factors : TOTPDisable(r, pw, code)
    \/ TOTPSetup(r) \/ Disable(r) \/ CreateAPIKey(r)
    \/ UpdatePasswordHash(r) \/ GetUserTOTPState(r) \/ RecordFailure(r)
    \/ spendTOTPStep(r) \/ ReadRecoveryCodes(r) \/ consumeRecoveryCode(r)
    \/ generateToken(r)
    \/ SetPasswordHash(r) \/ SetInitialPasswordHash(r)
    \/ InvalidateUserSessions(r) \/ RevokeUserSessions(r) \/ RevokeAPIKeysByUser(r)
    \/ StoreTOTPSecret(r) \/ GetTOTPSecret(r) \/ EnableTOTP(r) \/ DisableTOTP(r)
    \/ CreateAPIKeyForUser(r)

Next ==
    \/ \E r \in Requests : Step(r)
    \/ \E s \in Sessions : Logout(s)
    \/ \E k \in ApiKeys : DeleteAPIKey(k) \/ AdminRevoke(k)
    \/ \E scope \in Scopes : WindowPasses(scope)
    \/ AdminRevokeAll \/ Enable \/ Tick \/ Lapse \/ SetPolicy

Spec == Init /\ [][Next]_vars

-----------------------------------------------------------------------------
(* A one-time code or a recovery code is accepted at most once, by whichever *)
(* of the logins and disables in progress: the time step is claimed          *)
(* monotonically, the recovery codes by compare-and-swap                     *)
(* (auth_totp_recovery.go).                                                  *)
FactorSpentOnce == ~reused

Excused(scope) == IF scope = "reauth" THEN uncounted ELSE 0

(* The counter is read before an attempt and written after it, so requests   *)
(* that overlap may overrun the limit, by as many as overlap and no more.  A *)
(* count that fails lets one attempt to re-authenticate past the limit       *)
(* (vault.go, reauthLocked), and none to log in (auth.go, Login).            *)
LockoutBounded ==
    \A scope \in Scopes :
        fails[scope] < maxFailures + Cardinality(Requests) + Excused(scope)

(* A session of before a password change, a reset or a disable is never      *)
(* accepted once that has run to its end, even when one of the two writes    *)
(* that revoke it failed: the row and the issue time are checked separately, *)
(* and an account that is enabled again does not revive it.                  *)
CutStaysDead == \A s \in dead : ~SessionAccepted(s)

(* A login that began while the account was enrolled, and finds it still     *)
(* under the same enrolment, holds a session only for a code it spent.       *)
EnrolledLoginPays ==
    \A r \in Requests :
        /\ req[r].pc = "mint" /\ user.enabled
        /\ req[r].era # {} /\ req[r].era = drawn.batches
        => req[r].paid

(* A token works from the second it is issued in, the one handed out by a    *)
(* password change included, whose cut falls in that very second.            *)
FreshSessionWorks ==
    [][\A s \in Sessions :
          session[s].state = "unborn" /\ session'[s].state = "live"
          => user'.disabled \/ SessionAccepted(s)']_vars

(* A password a human chose is never replaced by the initial-password door,  *)
(* which proves none: not when two requests passed its early read together,  *)
(* nor when a reset landed while the new one was being hashed.               *)
ChosenPasswordIsKept ==
    [][\A r \in Requests :
          req[r].pc = "initial" /\ req'[r] # req[r] /\ user.passwordSet
          => user'.hash = user.hash]_vars

-----------------------------------------------------------------------------
(* What the repository says and the code does not keep; no run checks it.    *)

(* users.sql.go says of the upgrade of a bcrypt hash that it rewrites the    *)
(* hash of a password and does not set a new one.                            *)
RehashKeepsPassword ==
    [][\A r \in Requests :
          req[r].pc = "rehash" /\ req'[r] # req[r] => user'.hash = user.hash]_vars
=============================================================================
