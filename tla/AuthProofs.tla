----------------------------- MODULE AuthProofs -----------------------------
(* What the handlers of an account promise for any number of requests at    *)
(* once, of sessions, codes and enrolments, and for any mix of operations   *)
(* and faults.                                                              *)
EXTENDS Auth, FiniteSetTheorems, TLAPS

----------------------------------------------------------------------------
(* The inductive invariant.  What a request knows is stated over the values *)
(* it is about, so that it can be carried from one state to the next.       *)

(* A session that will not be accepted again: its row is ended, or its      *)
(* token is older than the cut.                                             *)
Killed(s, S, u) ==
    \/ S[s].state \in {"revoked", "lapsed"}
    \/ S[s].state # "unborn" /\ 0 < S[s].iat /\ S[s].iat < u.validAfter

(* The states in which a login remembers the enrolment it began under. *)
Remembers == {"rehash", "state", "spend", "recover", "swap", "mint"}

(* What request q may rely on, of the users row u, the sessions S, the      *)
(* batches D drawn so far and the time t.                                   *)
Knows(q, u, S, D, t) ==
    /\ q.pc = "swap" => q.code \in q.seen
    /\ q.pc \in Remembers => q.era \subseteq D
    /\ q.pc = "mint" /\ u.enabled /\ q.era # {} /\ q.era = D => q.paid
    /\ q.pc \in Revoking => \A s \in q.old : S[s].state # "unborn" /\ S[s].iat < t
    /\ q.pc = "rows" /\ ~q.missed => \A s \in q.old : S[s].iat < u.validAfter
    /\ q.pc = "keys" => \A s \in q.old : Killed(s, S, u)

Informed == \A r \in Requests : Knows(req[r], user, session, drawn.batches, now)

(* A code that was accepted cannot be accepted again. *)
Spending ==
    /\ ~reused
    /\ \A c \in spent \cap OneTime : c[2] <= user.lastStep
    /\ spent \cap Codes \subseteq UNION drawn.batches
    /\ user.codes \subseteq UNION drawn.batches
    /\ spent \cap user.codes = {}

(* No cut lies in the future, and no token comes from there. *)
Dated ==
    /\ user.validAfter <= now
    /\ \A s \in Sessions : session[s].state # "unborn" => 1 <= session[s].iat /\ session[s].iat <= now

Buried == \A s \in dead : Killed(s, session, user)

(* Attempts of a scope that passed the test of the counter and may still    *)
(* be refused.                                                              *)
MayFail(q, scope) ==
    \/ scope = "login" /\ q.pc \in {"rehash", "state"}
    \/ scope = "reauth" /\ q.pc = "check"
    \/ q.pc \in {"spend", "recover", "swap", "refused"} /\ q.scope = scope
Pending(scope) == {r \in Requests : MayFail(req[r], scope)}

Counted ==
    \A scope \in Scopes :
        fails[scope] + Cardinality(Pending(scope))
            <= maxFailures - 1 + Cardinality(Requests) + Excused(scope)

Inv == TypeOK /\ Informed /\ Spending /\ Dated /\ Buried /\ Counted

----------------------------------------------------------------------------
(* What each state of a request carries. *)
LEMMA ReqForm ==
    ASSUME NEW q \in Reqs
    PROVE  /\ q.pc = "idle" => q = Idle
           /\ q.pc = "refused" => q.scope \in Scopes
           /\ q.pc \in {"rehash", "state"} =>
                q \in [pc : {"rehash", "state"}, pw : Passwords, code : Factors \cup {None},
                       era : SUBSET Batches]
           /\ q.pc = "spend" =>
                q \in [pc : {"spend"}, scope : Scopes, code : Factors,
                       secret : Secrets \cup {None}, era : SUBSET Batches]
           /\ q.pc = "recover" =>
                q \in [pc : {"recover"}, scope : Scopes, code : Factors,
                       tries : 0..recoveryCASAttempts, era : SUBSET Batches]
           /\ q.pc = "swap" =>
                q \in [pc : {"swap"}, scope : Scopes, code : Codes,
                       tries : 0..recoveryCASAttempts, seen : SUBSET Codes,
                       era : SUBSET Batches]
           /\ q.pc = "mint" => q \in [pc : {"mint"}, era : SUBSET Batches, paid : BOOLEAN]
           /\ q.pc = "set" => q \in [pc : {"set"}, pw : Passwords, mints : BOOLEAN]
           /\ q.pc \in Revoking =>
                q \in [pc : Revoking, old : SUBSET Sessions, missed : BOOLEAN, mints : BOOLEAN]
           /\ q.pc = "initial" => q.pw \in Passwords
           /\ q.pc = "check" => q.code \in Factors
<1>1. CASE q = Idle
  BY <1>1 DEF Idle, Revoking
<1>2. CASE q \in [pc : {"refused"}, scope : Scopes]
  BY <1>2 DEF Revoking
<1>3. CASE q \in [pc : {"rehash", "state"}, pw : Passwords, code : Factors \cup {None},
                  era : SUBSET Batches]
  BY <1>3 DEF Revoking
<1>4. CASE q \in [pc : {"spend"}, scope : Scopes, code : Factors,
                  secret : Secrets \cup {None}, era : SUBSET Batches]
  BY <1>4 DEF Revoking
<1>5. CASE q \in [pc : {"recover"}, scope : Scopes, code : Factors,
                  tries : 0..recoveryCASAttempts, era : SUBSET Batches]
  BY <1>5 DEF Revoking
<1>6. CASE q \in [pc : {"swap"}, scope : Scopes, code : Codes,
                  tries : 0..recoveryCASAttempts, seen : SUBSET Codes, era : SUBSET Batches]
  BY <1>6 DEF Revoking
<1>7. CASE q \in [pc : {"mint"}, era : SUBSET Batches, paid : BOOLEAN]
  BY <1>7 DEF Revoking
<1>8. CASE q \in [pc : {"set"}, pw : Passwords, mints : BOOLEAN]
  BY <1>8 DEF Revoking
<1>9. CASE q \in [pc : Revoking, old : SUBSET Sessions, missed : BOOLEAN, mints : BOOLEAN]
  BY <1>9 DEF Revoking
<1>10. CASE q \in [pc : {"initial"}, pw : Passwords]
  BY <1>10 DEF Revoking
<1>11. CASE q \in [pc : {"setup", "enable", "unenrol", "key"}]
  BY <1>11 DEF Revoking
<1>12. CASE q \in [pc : {"check"}, code : Factors]
  BY <1>12 DEF Revoking
<1> QED
  BY <1>1, <1>2, <1>3, <1>4, <1>5, <1>6, <1>7, <1>8, <1>9, <1>10, <1>11, <1>12 DEF Reqs

LEMMA ReqTyped ==
    ASSUME TypeOK, NEW r \in Requests
    PROVE  req[r] \in Reqs
  BY DEF TypeOK

----------------------------------------------------------------------------
(* What every step leaves true of the rest of the state, whoever takes it. *)
Evolves ==
    /\ user.validAfter <= user'.validAfter /\ now <= now'
    /\ \A s \in Sessions : session[s].state # "unborn" =>
         /\ session'[s].state # "unborn" /\ session'[s].iat = session[s].iat
         /\ session[s].state \in {"revoked", "lapsed"}
              => session'[s].state \in {"revoked", "lapsed"}
    /\ drawn.batches \subseteq drawn'.batches
    /\ drawn'.batches = drawn.batches /\ user'.enabled => user.enabled

LEMMA KilledStays ==
    ASSUME TypeOK, TypeOK', Evolves, NEW s \in Sessions, Killed(s, session, user)
    PROVE  Killed(s, session', user')
<1>1. user.validAfter \in Nat /\ user'.validAfter \in Nat /\ session[s].iat \in Nat
  BY DEF TypeOK, Users
<1> QED BY <1>1 DEF Killed, Evolves

(* What a request knows stays true while others move. *)
LEMMA KnowsStays ==
    ASSUME TypeOK, TypeOK', Evolves, NEW q \in Reqs,
           Knows(q, user, session, drawn.batches, now)
    PROVE  Knows(q, user', session', drawn'.batches, now')
<1>1. /\ user.validAfter \in Nat /\ user'.validAfter \in Nat /\ now \in Nat /\ now' \in Nat
      /\ \A s \in Sessions : session[s].iat \in Nat /\ session'[s].iat \in Nat
  BY DEF TypeOK, Users, Times
<1>2. q.pc = "swap" => q.code \in q.seen
  BY DEF Knows
<1>3. q.pc \in Remembers => q.era \subseteq drawn'.batches
  BY DEF Knows, Evolves
<1>4. q.pc = "mint" /\ user'.enabled /\ q.era # {} /\ q.era = drawn'.batches => q.paid
  <2> SUFFICES ASSUME q.pc = "mint", user'.enabled, q.era # {}, q.era = drawn'.batches
               PROVE  q.paid
    OBVIOUS
  <2>1. q.era \subseteq drawn.batches
    BY DEF Knows, Remembers
  <2>2. drawn'.batches = drawn.batches
    BY <2>1 DEF Evolves
  <2> QED BY <2>2 DEF Knows, Evolves
<1>5. q.pc \in Revoking => q.old \subseteq Sessions
  BY ReqForm
<1>6. q.pc \in Revoking =>
        \A s \in q.old : session'[s].state # "unborn" /\ session'[s].iat < now'
  BY <1>1, <1>5 DEF Knows, Evolves
<1>7. q.pc = "rows" /\ ~q.missed => \A s \in q.old : session'[s].iat < user'.validAfter
  BY <1>1, <1>5 DEF Knows, Evolves, Revoking
<1>8. q.pc = "keys" => \A s \in q.old : Killed(s, session', user')
  BY <1>5, KilledStays DEF Knows, Revoking
<1> QED BY <1>2, <1>3, <1>4, <1>6, <1>7, <1>8 DEF Knows

(* The attempts of a scope are as many as requests at most. *)
LEMMA PendingFinite ==
    ASSUME NEW scope \in Scopes
    PROVE  /\ IsFiniteSet(Pending(scope)) /\ Cardinality(Pending(scope)) \in Nat
           /\ Cardinality(Pending(scope)) <= Cardinality(Requests)
           /\ Cardinality(Requests) \in Nat
<1>1. Pending(scope) \subseteq Requests /\ IsFiniteSet(Requests)
  BY AuthAssumption DEF Pending
<1> QED BY <1>1, FS_Subset, FS_CardinalityType

(* Why an attempt may start: the count is below the limit, or was not read. *)
LetIn(scope) ==
    fails[scope] < maxFailures \/ (scope = "reauth" /\ uncounted' = uncounted + 1)

(* An attempt is let in, and leaves when its failure is counted.            *)
LEMMA CountedStep ==
    ASSUME TypeOK, Counted, NEW r \in Requests, NEW x \in Reqs,
           req' = [req EXCEPT ![r] = x],
           fails' \in [Scopes -> Nat], uncounted' \in {uncounted, uncounted + 1},
           \A scope \in Scopes :
             \/ /\ fails'[scope] <= fails[scope]
                /\ MayFail(x, scope) => MayFail(req[r], scope) \/ LetIn(scope)
             \/ fails'[scope] = fails[scope] + 1 /\ MayFail(req[r], scope) /\ ~MayFail(x, scope)
    PROVE  Counted'
<1> SUFFICES ASSUME NEW scope \in Scopes
             PROVE  fails'[scope] + Cardinality(Pending(scope)')
                      <= maxFailures - 1 + Cardinality(Requests) + Excused(scope)'
  BY DEF Counted
<1>0. /\ Excused(scope) \in Nat /\ Excused(scope)' \in Nat /\ Excused(scope) <= Excused(scope)'
      /\ LetIn(scope) /\ ~(fails[scope] < maxFailures) => Excused(scope)' = Excused(scope) + 1
  BY DEF TypeOK, Excused, LetIn
<1>1. /\ req'[r] = x
      /\ \A q \in Requests : q # r => req'[q] = req[q]
      /\ fails[scope] \in Nat /\ fails'[scope] \in Nat /\ maxFailures \in Nat \ {0}
  BY AuthAssumption DEF TypeOK
<1>2. /\ IsFiniteSet(Pending(scope)) /\ Cardinality(Pending(scope)) \in Nat
      /\ Cardinality(Requests) \in Nat /\ IsFiniteSet(Requests)
  BY PendingFinite, AuthAssumption
<1>3. Pending(scope)' \subseteq Requests
  BY DEF Pending
<1>4. Cardinality(Pending(scope)') \in Nat /\ Cardinality(Pending(scope)') <= Cardinality(Requests)
  BY <1>2, <1>3, FS_Subset, FS_CardinalityType
<1>5. fails[scope] + Cardinality(Pending(scope))
         <= maxFailures - 1 + Cardinality(Requests) + Excused(scope)
  BY DEF Counted
<1>6. CASE MayFail(x, scope) /\ ~MayFail(req[r], scope)
  <2>1. Pending(scope)' = Pending(scope) \cup {r} /\ r \notin Pending(scope)
    BY <1>1, <1>6 DEF Pending
  <2>2. Cardinality(Pending(scope)') = Cardinality(Pending(scope)) + 1
    BY <1>2, <2>1, FS_AddElement
  <2>3. fails'[scope] <= fails[scope] /\ LetIn(scope)
    BY <1>6
  <2> QED BY <1>0, <1>1, <1>2, <1>4, <1>5, <2>2, <2>3
<1>7. CASE fails'[scope] <= fails[scope] /\ (MayFail(x, scope) => MayFail(req[r], scope))
  <2>1. Pending(scope)' \subseteq Pending(scope)
    BY <1>1, <1>7 DEF Pending
  <2>2. Cardinality(Pending(scope)') <= Cardinality(Pending(scope))
    BY <1>2, <2>1, FS_Subset
  <2> QED BY <1>0, <1>1, <1>2, <1>4, <1>5, <1>7, <2>2
<1>8. CASE /\ fails'[scope] = fails[scope] + 1
           /\ MayFail(req[r], scope) /\ ~MayFail(x, scope)
  <2>1. Pending(scope)' = Pending(scope) \ {r} /\ r \in Pending(scope)
    BY <1>1, <1>8 DEF Pending
  <2>2. Cardinality(Pending(scope)') = Cardinality(Pending(scope)) - 1
    BY <1>2, <2>1, FS_RemoveElement
  <2> QED BY <1>0, <1>1, <1>2, <1>4, <1>5, <1>8, <2>2
<1> QED BY <1>1, <1>6, <1>7, <1>8

----------------------------------------------------------------------------
(* From the parts a step changes to the whole invariant. *)

RestTyped ==
    /\ doors \in Scenarios
    /\ user \in Users
    /\ policy \in BOOLEAN
    /\ session \in [Sessions -> [state : {"unborn", "live", "revoked", "lapsed"},
                                 iat : 0..MaxTime]]
    /\ key \in [ApiKeys -> {"unborn", "live", "revoked", "lapsed", "deleted"}]
    /\ fails \in [Scopes -> Nat]
    /\ uncounted \in Nat
    /\ now \in Times
    /\ drawn \in [secrets : SUBSET Secrets, batches : SUBSET Batches]
    /\ spent \subseteq Factors
    /\ reused \in BOOLEAN
    /\ dead \subseteq Sessions

(* A step of request r. *)
LEMMA ReqStep ==
    ASSUME Inv, NEW r \in Requests, NEW x \in Reqs, req' = [req EXCEPT ![r] = x],
           RestTyped', Evolves, Spending', Dated',
           Knows(x, user', session', drawn'.batches, now'),
           \A s \in dead' : s \in dead \/ Killed(s, session', user'),
           uncounted' \in {uncounted, uncounted + 1},
           \A scope \in Scopes :
             \/ /\ fails'[scope] <= fails[scope]
                /\ MayFail(x, scope) => MayFail(req[r], scope) \/ LetIn(scope)
             \/ fails'[scope] = fails[scope] + 1 /\ MayFail(req[r], scope) /\ ~MayFail(x, scope)
    PROVE  Inv'
<1>0. TypeOK /\ Informed /\ Buried /\ Counted
  BY DEF Inv
<1>1. TypeOK'
  BY <1>0 DEF TypeOK, RestTyped
<1>2. Informed'
  <2>1. req'[r] = x /\ \A q \in Requests : q # r => req'[q] = req[q]
    BY <1>0 DEF TypeOK
  <2>2. ASSUME NEW q \in Requests, q # r
        PROVE  Knows(req[q], user', session', drawn'.batches, now')
    BY <1>0, <1>1, ReqTyped, KnowsStays DEF Informed
  <2> QED BY <2>1, <2>2 DEF Informed
<1>3. Buried'
  <2>1. dead' \subseteq Sessions /\ dead \subseteq Sessions
    BY <1>0, <1>1 DEF TypeOK
  <2> QED BY <1>0, <1>1, <2>1, KilledStays DEF Buried
<1>4. Counted'
  <2>1. fails' \in [Scopes -> Nat]
    BY DEF RestTyped
  <2> QED BY <1>0, <2>1, CountedStep
<1> QED BY <1>1, <1>2, <1>3, <1>4 DEF Inv

(* A step that is no request's. *)
LEMMA AsideStep ==
    ASSUME Inv, UNCHANGED <<req, dead>>, RestTyped', Evolves, Spending', Dated',
           UNCHANGED uncounted,
           \A scope \in Scopes : fails'[scope] <= fails[scope]
    PROVE  Inv'
<1>0. TypeOK /\ Informed /\ Buried /\ Counted
  BY DEF Inv
<1>1. TypeOK'
  BY <1>0 DEF TypeOK, RestTyped
<1>2. Informed'
  BY <1>0, <1>1, ReqTyped, KnowsStays DEF Informed
<1>3. Buried'
  <2>1. dead \subseteq Sessions
    BY <1>0 DEF TypeOK
  <2> QED BY <1>0, <1>1, <2>1, KilledStays DEF Buried
<1>4. Counted'
  <2> SUFFICES ASSUME NEW scope \in Scopes
               PROVE  fails'[scope] + Cardinality(Pending(scope)')
                        <= maxFailures - 1 + Cardinality(Requests) + Excused(scope)'
    BY DEF Counted
  <2>1. Pending(scope)' = Pending(scope)
    BY DEF Pending
  <2>2. /\ fails[scope] \in Nat /\ fails'[scope] \in Nat /\ maxFailures \in Nat
        /\ Excused(scope)' = Excused(scope) /\ Excused(scope) \in Nat
        /\ fails[scope] + Cardinality(Pending(scope))
             <= maxFailures - 1 + Cardinality(Requests) + Excused(scope)
    BY <1>0, <1>1, AuthAssumption DEF TypeOK, Counted, Excused
  <2> QED BY <2>1, <2>2, PendingFinite
<1> QED BY <1>1, <1>2, <1>3, <1>4 DEF Inv

(* The row of the user changes in columns no invariant is about. *)
LEMMA EvolvesQuietly ==
    ASSUME Inv, user' \in Users, UNCHANGED <<session, now, spent, reused>>,
           drawn'.batches = drawn.batches,
           user'.enabled = user.enabled, user'.codes = user.codes,
           user'.lastStep = user.lastStep, user'.validAfter = user.validAfter
    PROVE  Evolves /\ Spending' /\ Dated'
<1>1. user.validAfter \in Nat /\ now \in Nat
  BY DEF Inv, TypeOK, Users, Times
<1>2. Evolves
  BY <1>1 DEF Evolves
<1>3. Spending'
  BY DEF Inv, Spending
<1>4. Dated'
  BY DEF Inv, Dated
<1> QED BY <1>2, <1>3, <1>4

LEMMA UserStep ==
    ASSUME Inv, NEW r \in Requests, NEW x \in Reqs, req' = [req EXCEPT ![r] = x],
           UNCHANGED <<doors, policy, session, fails, now, spent, reused, dead>>,
           uncounted' \in {uncounted, uncounted + 1},
           key' \in [ApiKeys -> {"unborn", "live", "revoked", "lapsed", "deleted"}],
           drawn' \in [secrets : SUBSET Secrets, batches : SUBSET Batches],
           drawn'.batches = drawn.batches,
           user' \in Users,
           user'.enabled = user.enabled, user'.codes = user.codes,
           user'.lastStep = user.lastStep, user'.validAfter = user.validAfter,
           Knows(x, user', session, drawn.batches, now),
           \A scope \in Scopes :
             MayFail(x, scope) => MayFail(req[r], scope) \/ LetIn(scope)
    PROVE  Inv'
<1>1. TypeOK /\ user.validAfter \in Nat /\ now \in Nat /\ fails \in [Scopes -> Nat]
  BY DEF Inv, TypeOK, Users, Times
<1>2. RestTyped'
  BY <1>1 DEF RestTyped, TypeOK
<1>3. Evolves /\ Spending' /\ Dated'
  BY EvolvesQuietly
<1>4. Knows(x, user', session', drawn'.batches, now')
  OBVIOUS
<1>5. \A scope \in Scopes : fails'[scope] <= fails[scope]
  BY <1>1
<1> QED BY <1>2, <1>3, <1>4, <1>5, ReqStep

(* Only the request moves. *)
LEMMA QuietStep ==
    ASSUME Inv, NEW r \in Requests, NEW x \in Reqs, req' = [req EXCEPT ![r] = x],
           UNCHANGED <<doors, user, policy, session, key, fails, now, drawn, spent, reused, dead>>,
           uncounted' \in {uncounted, uncounted + 1},
           Knows(x, user, session, drawn.batches, now),
           \A scope \in Scopes :
             MayFail(x, scope) => MayFail(req[r], scope) \/ LetIn(scope)
    PROVE  Inv'
<1>1. /\ user' \in Users
      /\ key' \in [ApiKeys -> {"unborn", "live", "revoked", "lapsed", "deleted"}]
      /\ drawn' \in [secrets : SUBSET Secrets, batches : SUBSET Batches]
  BY DEF Inv, TypeOK
<1> QED BY <1>1, UserStep

(* The states a request leaves for that rely on nothing. *)
Free == {"idle", "refused", "set", "initial", "setup", "enable", "unenrol", "key", "check"}

LEMMA FreeKnows ==
    ASSUME NEW x, x.pc \in Free, NEW u, NEW S, NEW D, NEW t
    PROVE  Knows(x, u, S, D, t)
  BY DEF Free, Knows, Remembers, Revoking

LEMMA FreeStates ==
    /\ Idle \in Reqs /\ Idle.pc = "idle" /\ \A scope : ~MayFail(Idle, scope)
    /\ \A scope \in Scopes :
         /\ [pc |-> "refused", scope |-> scope] \in Reqs
         /\ \A other : MayFail([pc |-> "refused", scope |-> scope], other) => other = scope
    /\ \A pw \in Passwords, m \in BOOLEAN :
         /\ [pc |-> "set", pw |-> pw, mints |-> m] \in Reqs
         /\ \A scope : ~MayFail([pc |-> "set", pw |-> pw, mints |-> m], scope)
    /\ \A pw \in Passwords :
         /\ [pc |-> "initial", pw |-> pw] \in Reqs
         /\ \A scope : ~MayFail([pc |-> "initial", pw |-> pw], scope)
    /\ \A pc \in {"setup", "enable", "unenrol", "key"} :
         [pc |-> pc] \in Reqs /\ \A scope : ~MayFail([pc |-> pc], scope)
    /\ \A code \in Factors :
         /\ [pc |-> "check", code |-> code] \in Reqs
         /\ \A scope : MayFail([pc |-> "check", code |-> code], scope) => scope = "reauth"
<1>1. Idle \in Reqs /\ Idle.pc = "idle" /\ \A scope : ~MayFail(Idle, scope)
  BY DEF Reqs, Idle, MayFail
<1>2. \A scope \in Scopes :
         /\ [pc |-> "refused", scope |-> scope] \in Reqs
         /\ \A other : MayFail([pc |-> "refused", scope |-> scope], other) => other = scope
  BY DEF Reqs, MayFail
<1>3. \A pw \in Passwords, m \in BOOLEAN :
         /\ [pc |-> "set", pw |-> pw, mints |-> m] \in Reqs
         /\ \A scope : ~MayFail([pc |-> "set", pw |-> pw, mints |-> m], scope)
  BY DEF Reqs, MayFail
<1>4. \A pw \in Passwords :
         /\ [pc |-> "initial", pw |-> pw] \in Reqs
         /\ \A scope : ~MayFail([pc |-> "initial", pw |-> pw], scope)
  BY DEF Reqs, MayFail
<1>5. \A pc \in {"setup", "enable", "unenrol", "key"} :
         [pc |-> pc] \in Reqs /\ \A scope : ~MayFail([pc |-> pc], scope)
  BY DEF Reqs, MayFail
<1>6. \A code \in Factors :
         /\ [pc |-> "check", code |-> code] \in Reqs
         /\ \A scope : MayFail([pc |-> "check", code |-> code], scope) => scope = "reauth"
  BY DEF Reqs, MayFail
<1> QED BY <1>1, <1>2, <1>3, <1>4, <1>5, <1>6

----------------------------------------------------------------------------
(* The steps that only move a request. *)

LEMMA FreeStep ==
    ASSUME Inv, NEW r \in Requests, NEW x \in Reqs, x.pc \in Free, req' = [req EXCEPT ![r] = x],
           UNCHANGED <<doors, user, policy, session, key, fails, now, drawn, spent, reused, dead>>,
           uncounted' \in {uncounted, uncounted + 1},
           \A scope \in Scopes :
             MayFail(x, scope) => MayFail(req[r], scope) \/ LetIn(scope)
    PROVE  Inv'
<1>1. Knows(x, user, session, drawn.batches, now)
  BY FreeKnows
<1> QED BY <1>1, QuietStep

(* The counter is tested before an attempt is begun. *)
LEMMA BelowLimit ==
    ASSUME TypeOK, NEW scope \in Scopes, ~TooManyFailures(scope)
    PROVE  LetIn(scope)
  BY AuthAssumption DEF TooManyFailures, TypeOK, LetIn

LEMMA ReauthLetsIn ==
    ASSUME TypeOK, reauthOpen
    PROVE  LetIn("reauth") /\ uncounted' \in {uncounted, uncounted + 1}
  BY BelowLimit DEF reauthOpen, LetIn, Scopes

LEMMA LoginInv ==
    ASSUME Inv, NEW r \in Requests, NEW pw \in Passwords, NEW code \in Factors \cup {None},
           Login(r, pw, code)
    PROVE  Inv'
<1>1. UNCHANGED <<doors, user, policy, session, key, fails, uncounted, now, drawn, spent, reused, dead>>
  BY DEF Login, settings, history
<1>2. TypeOK /\ "login" \in Scopes /\ LetIn("login")
  BY BelowLimit DEF Inv, Login, Scopes
<1>3. CASE pw = user.hash /\ ~user.disabled
  <2> DEFINE x == [pc |-> IF user.legacy THEN "rehash" ELSE "state",
                   pw |-> pw, code |-> code, era |-> Era]
  <2>1. req' = [req EXCEPT ![r] = x]
    BY <1>3 DEF Login, Goes
  <2>2. Era \subseteq drawn.batches /\ drawn.batches \subseteq Batches
    BY <1>2 DEF Era, TypeOK
  <2>3. x \in Reqs /\ x.pc \in {"rehash", "state"} /\ x.era \subseteq drawn.batches
    BY <2>2 DEF Reqs
  <2> HIDE DEF x
  <2>4. Knows(x, user, session, drawn.batches, now)
    BY <2>3 DEF Knows, Revoking
  <2>5. \A scope \in Scopes : MayFail(x, scope) => scope = "login"
    BY <2>3 DEF MayFail
  <2> QED BY <1>1, <1>2, <2>1, <2>3, <2>4, <2>5, QuietStep
<1>4. CASE ~(pw = user.hash /\ ~user.disabled)
  <2> DEFINE x == [pc |-> "refused", scope |-> "login"]
  <2>1. req' = [req EXCEPT ![r] = x]
    BY <1>4 DEF Login, Goes
  <2>2. x \in Reqs /\ x.pc \in Free /\ \A scope \in Scopes : MayFail(x, scope) => scope = "login"
    BY <1>2, FreeStates DEF Free
  <2> HIDE DEF x
  <2> QED BY <1>1, <1>2, <2>1, <2>2, FreeStep
<1> QED BY <1>3, <1>4

(* A password change, a reset, an initial password, a setup and a new key   *)
(* begin.                                                                   *)
LEMMA BeginInv ==
    ASSUME Inv, NEW r \in Requests, NEW pw \in Passwords, NEW new \in Passwords,
           \/ ChangePassword(r, pw, new) \/ ResetPassword(r, new)
           \/ SetInitialPassword(r, new) \/ TOTPSetup(r) \/ CreateAPIKey(r)
    PROVE  Inv'
<1>1. UNCHANGED <<doors, user, policy, session, key, fails, uncounted, now, drawn, spent, reused, dead>>
  BY DEF ChangePassword, ResetPassword, SetInitialPassword, TOTPSetup, CreateAPIKey,
         settings, history
<1>2. PICK x \in Reqs : /\ x.pc \in Free /\ \A scope : ~MayFail(x, scope)
                        /\ req' = [req EXCEPT ![r] = x]
  <2>1. CASE ChangePassword(r, pw, new)
    BY <2>1, FreeStates DEF ChangePassword, Goes, Free
  <2>2. CASE ResetPassword(r, new)
    BY <2>2, FreeStates DEF ResetPassword, Goes, Free
  <2>3. CASE SetInitialPassword(r, new)
    BY <2>3, FreeStates DEF SetInitialPassword, Goes, Free
  <2>4. CASE TOTPSetup(r)
    BY <2>4, FreeStates DEF TOTPSetup, Goes, Free
  <2>5. CASE CreateAPIKey(r)
    BY <2>5, FreeStates DEF CreateAPIKey, Goes, Free
  <2> QED BY <2>1, <2>2, <2>3, <2>4, <2>5
<1> QED BY <1>1, <1>2, FreeStep

LEMMA TOTPVerifyInv ==
    ASSUME Inv, NEW r \in Requests, NEW pw \in Passwords, NEW code \in OneTime,
           TOTPVerify(r, pw, code)
    PROVE  Inv'
<1>1. UNCHANGED <<doors, user, policy, session, key, fails, now, drawn, spent, reused, dead>>
  BY DEF TOTPVerify, settings, history
<1>2. TypeOK /\ "reauth" \in Scopes /\ LetIn("reauth") /\ uncounted' \in {uncounted, uncounted + 1} /\ code \in Factors
  BY ReauthLetsIn DEF Inv, TOTPVerify, Scopes, Factors
<1>3. PICK x \in Reqs : /\ x.pc \in Free /\ \A scope : MayFail(x, scope) => scope = "reauth"
                        /\ req' = [req EXCEPT ![r] = x]
  <2>1. CASE user.passwordSet => pw = user.hash
    BY <1>2, <2>1, FreeStates DEF TOTPVerify, Goes, Free
  <2>2. CASE ~(user.passwordSet => pw = user.hash)
    BY <1>2, <2>2, FreeStates DEF TOTPVerify, Goes, Free
  <2> QED BY <2>1, <2>2
<1> QED BY <1>1, <1>2, <1>3, FreeStep

LEMMA TOTPDisableInv ==
    ASSUME Inv, NEW r \in Requests, NEW pw \in Passwords, NEW code \in Factors,
           TOTPDisable(r, pw, code)
    PROVE  Inv'
<1>1. UNCHANGED <<doors, user, policy, session, key, fails, now, drawn, spent, reused, dead>>
  BY DEF TOTPDisable, settings, history
<1>2. TypeOK /\ "reauth" \in Scopes /\ LetIn("reauth") /\ uncounted' \in {uncounted, uncounted + 1}
  BY ReauthLetsIn DEF Inv, TOTPDisable, Scopes
<1>3. CASE pw = user.hash
  <2> DEFINE x == [pc |-> "spend", scope |-> "reauth", code |-> code,
                   secret |-> user.secret, era |-> {}]
  <2>1. req' = [req EXCEPT ![r] = x]
    BY <1>3 DEF TOTPDisable, Goes
  <2>2. user.secret \in Secrets \cup {None}
    BY <1>2 DEF TypeOK, Users
  <2>3. x \in Reqs /\ x.pc = "spend" /\ x.era = {} /\ x.scope = "reauth"
    BY <1>2, <2>2 DEF Reqs
  <2> HIDE DEF x
  <2>4. Knows(x, user, session, drawn.batches, now)
    BY <2>3 DEF Knows, Revoking
  <2>5. \A scope \in Scopes : MayFail(x, scope) => scope = "reauth"
    BY <2>3 DEF MayFail
  <2> QED BY <1>1, <1>2, <2>1, <2>3, <2>4, <2>5, QuietStep
<1>4. CASE pw # user.hash
  <2> DEFINE x == [pc |-> "refused", scope |-> "reauth"]
  <2>1. req' = [req EXCEPT ![r] = x]
    BY <1>4 DEF TOTPDisable, Goes
  <2>2. x \in Reqs /\ x.pc \in Free /\ \A scope \in Scopes : MayFail(x, scope) => scope = "reauth"
    BY <1>2, FreeStates DEF Free
  <2> HIDE DEF x
  <2> QED BY <1>1, <1>2, <2>1, <2>2, FreeStep
<1> QED BY <1>3, <1>4

(* The state of the second factor is read after the password was checked:   *)
(* a login is let through without a code only if the account is not         *)
(* enrolled at that moment.                                                 *)
LEMMA GetUserTOTPStateInv ==
    ASSUME Inv, NEW r \in Requests, GetUserTOTPState(r)
    PROVE  Inv'
<1> DEFINE q == req[r]
           x == SecondFactor(q)
<1>1. UNCHANGED <<doors, user, policy, session, key, fails, uncounted, now, drawn, spent, reused, dead>>
  BY DEF GetUserTOTPState, settings, history
<1>2. /\ TypeOK /\ q.pc = "state"
      /\ q \in [pc : {"rehash", "state"}, pw : Passwords, code : Factors \cup {None},
                era : SUBSET Batches]
  BY ReqForm, ReqTyped DEF GetUserTOTPState, Inv
<1>3. req' = [req EXCEPT ![r] = x]
  BY DEF GetUserTOTPState, Goes
<1>4. q.era \subseteq drawn.batches
  BY <1>2 DEF Inv, Informed, Knows, Remembers
<1>5. user.secret \in Secrets \cup {None}
  BY <1>2 DEF TypeOK, Users
<1>6. MayFail(q, "login")
  BY <1>2 DEF MayFail
<1> HIDE DEF q
<1>7. x \in Reqs
  BY <1>2, <1>5 DEF SecondFactor, Reqs, Scopes
<1>8. \A scope \in Scopes : MayFail(x, scope) => scope = "login"
  BY DEF SecondFactor, MayFail, Idle
<1>9. Knows(x, user, session, drawn.batches, now)
  <2>1. CASE ~user.enabled
    BY <1>4, <2>1 DEF SecondFactor, Knows, Revoking, Remembers
  <2>2. CASE user.enabled /\ q.code = None
    BY <2>2, FreeStates, FreeKnows DEF SecondFactor, Free
  <2>3. CASE user.enabled /\ q.code # None
    BY <1>4, <2>3 DEF SecondFactor, Knows, Revoking, Remembers
  <2> QED BY <2>1, <2>2, <2>3
<1> HIDE DEF x
<1> QED BY <1>1, <1>3, <1>6, <1>7, <1>8, <1>9, QuietStep DEF q

LEMMA GetTOTPSecretInv ==
    ASSUME Inv, NEW r \in Requests, GetTOTPSecret(r)
    PROVE  Inv'
<1>1. UNCHANGED <<doors, user, policy, session, key, fails, uncounted, now, drawn, spent, reused, dead>>
  BY DEF GetTOTPSecret, settings, history
<1>2. MayFail(req[r], "reauth") /\ "reauth" \in Scopes
  BY DEF GetTOTPSecret, MayFail, Scopes
<1>3. PICK x \in Reqs : /\ x.pc \in Free /\ \A scope : MayFail(x, scope) => scope = "reauth"
                        /\ req' = [req EXCEPT ![r] = x]
  <2>1. CASE user.secret = None
    BY <2>1, FreeStates DEF GetTOTPSecret, Goes, Free
  <2>2. CASE user.secret # None /\ ValidateCodeStep(user.secret, req[r].code)
    BY <2>2, FreeStates DEF GetTOTPSecret, Goes, Free
  <2>3. CASE user.secret # None /\ ~ValidateCodeStep(user.secret, req[r].code)
    BY <1>2, <2>3, FreeStates DEF GetTOTPSecret, Goes, Free
  <2> QED BY <2>1, <2>2, <2>3
<1> QED BY <1>1, <1>2, <1>3, FreeStep

(* The codes are read, to be swapped for the rest of them. *)
LEMMA ReadRecoveryCodesInv ==
    ASSUME Inv, NEW r \in Requests, ReadRecoveryCodes(r)
    PROVE  Inv'
<1> DEFINE q == req[r]
<1>1. UNCHANGED <<doors, user, policy, session, key, fails, uncounted, now, drawn, spent, reused, dead>>
  BY DEF ReadRecoveryCodes, settings, history
<1>2. /\ TypeOK /\ q.pc = "recover"
      /\ q \in [pc : {"recover"}, scope : Scopes, code : Factors,
                tries : 0..recoveryCASAttempts, era : SUBSET Batches]
  BY ReqForm, ReqTyped DEF ReadRecoveryCodes, Inv
<1>3. q.era \subseteq drawn.batches
  BY <1>2 DEF Inv, Informed, Knows, Remembers
<1>4. MayFail(q, q.scope) /\ q.scope \in Scopes
  BY <1>2 DEF MayFail
<1>5. CASE q.code \in user.codes /\ q.tries < recoveryCASAttempts
  <2> DEFINE x == [pc |-> "swap", scope |-> q.scope, code |-> q.code,
                   tries |-> q.tries + 1, seen |-> user.codes, era |-> q.era]
  <2>1. req' = [req EXCEPT ![r] = x]
    BY <1>5 DEF ReadRecoveryCodes, Goes
  <2>2. user.codes \subseteq Codes /\ q.code \in Codes
    BY <1>2, <1>5 DEF TypeOK, Users
  <2>3. q.tries + 1 \in 0..recoveryCASAttempts
    BY <1>2, <1>5, AuthAssumption
  <2> HIDE DEF q
  <2>4. x \in Reqs
    BY <1>2, <2>2, <2>3 DEF Reqs
  <2>5. Knows(x, user, session, drawn.batches, now)
    BY <1>3, <1>5 DEF Knows, Revoking
  <2>6. \A scope \in Scopes : MayFail(x, scope) => scope = q.scope
    BY DEF MayFail
  <2> HIDE DEF x
  <2> QED BY <1>1, <1>4, <2>1, <2>4, <2>5, <2>6, QuietStep DEF q
<1>6. CASE ~(q.code \in user.codes /\ q.tries < recoveryCASAttempts)
  <2> DEFINE x == [pc |-> "refused", scope |-> q.scope]
  <2>1. req' = [req EXCEPT ![r] = x]
    BY <1>6 DEF ReadRecoveryCodes, Goes
  <2>2. x \in Reqs /\ x.pc \in Free /\ \A scope \in Scopes : MayFail(x, scope) => scope = q.scope
    BY <1>4, FreeStates DEF Free
  <2> HIDE DEF x
  <2> QED BY <1>1, <1>4, <2>1, <2>2, FreeStep
<1> QED BY <1>5, <1>6

----------------------------------------------------------------------------
(* The second factor. *)

(* What follows a paid second factor. *)
LEMMA PaidFacts ==
    ASSUME NEW q, q.scope \in Scopes, q.era \subseteq drawn.batches, drawn.batches \subseteq Batches
    PROVE  /\ Paid(q) \in Reqs
           /\ \A scope : ~MayFail(Paid(q), scope)
           /\ \A u, S, t : Knows(Paid(q), u, S, drawn.batches, t)
<1>1. CASE q.scope = "login"
  BY <1>1 DEF Paid, Reqs, MayFail, Knows, Remembers, Revoking
<1>2. CASE q.scope # "login"
  BY <1>2, FreeStates, FreeKnows DEF Paid, Free
<1> QED BY <1>1, <1>2

(* The search goes on among the recovery codes. *)
LEMMA RecoverInv ==
    ASSUME Inv, NEW r \in Requests, req[r].pc \in {"spend", "swap"},
           NEW n \in 0..recoveryCASAttempts,
           req' = [req EXCEPT ![r] = [pc |-> "recover", scope |-> req[r].scope,
                      code |-> req[r].code, tries |-> n, era |-> req[r].era]],
           UNCHANGED <<doors, user, policy, session, key, fails, uncounted, now, drawn, spent, reused, dead>>
    PROVE  Inv'
<1> DEFINE q == req[r]
           x == [pc |-> "recover", scope |-> q.scope, code |-> q.code, tries |-> n,
                 era |-> q.era]
<1>1. /\ q.pc \in {"spend", "swap"} /\ q.scope \in Scopes /\ q.code \in Factors
      /\ q.era \subseteq Batches
  BY ReqForm, ReqTyped DEF Inv, Factors
<1>2. q.era \subseteq drawn.batches
  BY <1>1 DEF Inv, Informed, Knows, Remembers
<1>3. MayFail(q, q.scope)
  BY <1>1 DEF MayFail
<1> HIDE DEF q
<1>4. x \in Reqs
  BY <1>1 DEF Reqs
<1>5. Knows(x, user, session, drawn.batches, now)
  BY <1>2 DEF Knows, Revoking
<1>6. \A scope \in Scopes : MayFail(x, scope) => scope = q.scope
  BY DEF MayFail
<1>7. req' = [req EXCEPT ![r] = x]
  BY DEF q
<1> HIDE DEF x
<1> QED BY <1>3, <1>4, <1>5, <1>6, <1>7, QuietStep DEF q

(* A time step is spent only above the last one spent. *)
LEMMA SpendTOTPStepInv ==
    ASSUME Inv, NEW r \in Requests, spendTOTPStep(r)
    PROVE  Inv'
<1> DEFINE q == req[r]
<1>0. TypeOK /\ Spending /\ Dated
  BY DEF Inv
<1>1. /\ q.pc = "spend" /\ q.scope \in Scopes /\ q.code \in Factors
      /\ q.era \subseteq drawn.batches /\ drawn.batches \subseteq Batches
  BY <1>0, ReqForm, ReqTyped DEF spendTOTPStep, Inv, Informed, Knows, Remembers, TypeOK
<1>2. UNCHANGED <<doors, policy, session, key, fails, uncounted, now, drawn, dead>>
  BY DEF spendTOTPStep, settings, history, Accept
<1>3. CASE ~(ValidateCodeStep(q.secret, q.code) /\ ClaimTOTPStep(q.code[2]))
  <2>1. 0 \in 0..recoveryCASAttempts
    BY AuthAssumption
  <2>2. /\ req' = [req EXCEPT ![r] = [pc |-> "recover", scope |-> q.scope, code |-> q.code,
                                      tries |-> 0, era |-> q.era]]
        /\ UNCHANGED <<user, spent, reused>>
    BY <1>3 DEF spendTOTPStep, Goes, history
  <2> QED BY <1>1, <1>2, <2>1, <2>2, RecoverInv
<1>4. CASE ValidateCodeStep(q.secret, q.code) /\ ClaimTOTPStep(q.code[2])
  <2> DEFINE c == q.code
  <2>1. /\ user' = [user EXCEPT !.lastStep = c[2]]
        /\ spent' = spent \cup {c} /\ reused' = (reused \/ c \in spent)
        /\ req' = [req EXCEPT ![r] = Paid(q)]
    BY <1>4 DEF spendTOTPStep, Goes, Accept
  <2>2. c \in OneTime /\ c[2] \in Times /\ c[2] > user.lastStep
    BY <1>4 DEF ValidateCodeStep, ClaimTOTPStep, OneTime
  <2> HIDE DEF c, q
  <2>3. /\ c[2] \in 0..MaxTime /\ user.lastStep \in 0..MaxTime /\ MaxTime \in Nat
        /\ user.validAfter \in Nat /\ now \in Nat
    BY <1>0, <2>2, AuthAssumption DEF Times, TypeOK, Users
  <2>4. /\ user' \in Users
        /\ user'.lastStep = c[2] /\ user'.codes = user.codes
        /\ user'.enabled = user.enabled /\ user'.validAfter = user.validAfter
    BY <1>0, <2>1, <2>3 DEF TypeOK, Users
  <2>5. c \notin spent
    BY <1>0, <2>2, <2>3 DEF Spending
  <2>6. Spending'
    <3>1. \A d \in spent' \cap OneTime : d[2] <= user'.lastStep
      <4>1. \A d \in spent \cap OneTime : d[2] <= user.lastStep /\ d[2] \in Nat
        BY <1>0 DEF Spending, OneTime, Times
      <4> QED BY <2>1, <2>2, <2>3, <2>4, <4>1
    <3>2. c \notin Codes
      BY <2>2, AuthAssumption
    <3>3. spent' \cap Codes = spent \cap Codes /\ user.codes \subseteq Codes
      BY <1>0, <2>1, <3>2 DEF TypeOK, Users
    <3>4. spent' \cap user'.codes = {}
      BY <1>0, <2>1, <2>4, <3>2, <3>3 DEF Spending
    <3>5. ~reused'
      BY <1>0, <2>1, <2>5 DEF Spending
    <3> QED BY <1>0, <1>2, <2>4, <3>1, <3>3, <3>4, <3>5 DEF Spending
  <2>7. Evolves
    BY <1>2, <2>3, <2>4 DEF Evolves
  <2>8. Dated'
    BY <1>0, <1>2, <2>4 DEF Dated
  <2>9. RestTyped'
    <3>1. spent' \subseteq Factors /\ reused' \in BOOLEAN
      BY <1>0, <2>1, <2>2 DEF TypeOK, Factors
    <3> QED BY <1>0, <1>2, <2>4, <3>1 DEF TypeOK, RestTyped
  <2>10. /\ Paid(q) \in Reqs
         /\ \A scope : ~MayFail(Paid(q), scope)
         /\ Knows(Paid(q), user', session', drawn'.batches, now')
    BY <1>1, <1>2, PaidFacts
  <2>11. \A scope \in Scopes : fails'[scope] <= fails[scope]
    BY <1>0, <1>2 DEF TypeOK
  <2>12. dead' = dead /\ uncounted' = uncounted
    BY <1>2
  <2> QED BY <2>1, <2>6, <2>7, <2>8, <2>9, <2>10, <2>11, <2>12, ReqStep
<1> QED BY <1>3, <1>4

(* A recovery code is taken from the very set it was read in. *)
LEMMA ConsumeRecoveryCodeInv ==
    ASSUME Inv, NEW r \in Requests, consumeRecoveryCode(r)
    PROVE  Inv'
<1> DEFINE q == req[r]
<1>0. TypeOK /\ Spending /\ Dated
  BY DEF Inv
<1>1. /\ q.pc = "swap" /\ q.scope \in Scopes /\ q.code \in Codes /\ q.code \in q.seen
      /\ q.tries \in 0..recoveryCASAttempts
      /\ q.era \subseteq drawn.batches /\ drawn.batches \subseteq Batches
  BY <1>0, ReqForm, ReqTyped DEF consumeRecoveryCode, Inv, Informed, Knows, Remembers, TypeOK
<1>2. UNCHANGED <<doors, policy, session, key, fails, uncounted, now, drawn, dead>>
  BY DEF consumeRecoveryCode, settings, history, Accept
<1>3. CASE user.codes # q.seen
  <2>1. /\ req' = [req EXCEPT ![r] = [pc |-> "recover", scope |-> q.scope, code |-> q.code,
                                      tries |-> q.tries, era |-> q.era]]
        /\ UNCHANGED <<user, spent, reused>>
    BY <1>3 DEF consumeRecoveryCode, CASRecoveryCodes, Goes, history
  <2> QED BY <1>1, <1>2, <2>1, RecoverInv
<1>4. CASE user.codes = q.seen
  <2> DEFINE c == q.code
  <2>1. /\ user' = [user EXCEPT !.codes = user.codes \ {c}]
        /\ spent' = spent \cup {c} /\ reused' = (reused \/ c \in spent)
        /\ req' = [req EXCEPT ![r] = Paid(q)]
        /\ c \in user.codes /\ c \in Codes
    BY <1>1, <1>4 DEF consumeRecoveryCode, CASRecoveryCodes, Goes, Accept
  <2> HIDE DEF c, q
  <2>2. user.validAfter \in Nat /\ now \in Nat /\ user.codes \subseteq Codes
    BY <1>0 DEF Times, TypeOK, Users
  <2>3. /\ user' \in Users
        /\ user'.lastStep = user.lastStep /\ user'.codes = user.codes \ {c}
        /\ user'.enabled = user.enabled /\ user'.validAfter = user.validAfter
    BY <1>0, <2>1, <2>2 DEF TypeOK, Users
  <2>4. c \notin spent /\ c \notin OneTime /\ c \in UNION drawn.batches
    BY <1>0, <2>1, AuthAssumption DEF Spending
  <2>5. Spending'
    BY <1>0, <1>2, <2>1, <2>3, <2>4 DEF Spending
  <2>6. Evolves
    BY <1>2, <2>2, <2>3 DEF Evolves
  <2>7. Dated'
    BY <1>0, <1>2, <2>3 DEF Dated
  <2>8. RestTyped'
    <3>1. spent' \subseteq Factors /\ reused' \in BOOLEAN
      BY <1>0, <2>1 DEF TypeOK, Factors
    <3> QED BY <1>0, <1>2, <2>3, <3>1 DEF TypeOK, RestTyped
  <2>9. /\ Paid(q) \in Reqs
        /\ \A scope : ~MayFail(Paid(q), scope)
        /\ Knows(Paid(q), user', session', drawn'.batches, now')
    BY <1>1, <1>2, PaidFacts
  <2>10. \A scope \in Scopes : fails'[scope] <= fails[scope]
    BY <1>0, <1>2 DEF TypeOK
  <2>11. dead' = dead /\ uncounted' = uncounted
    BY <1>2
  <2> QED BY <2>1, <2>5, <2>6, <2>7, <2>8, <2>9, <2>10, <2>11, ReqStep
<1> QED BY <1>3, <1>4

(* A new secret; the batches stay. *)
LEMMA StoreTOTPSecretInv ==
    ASSUME Inv, NEW r \in Requests, StoreTOTPSecret(r)
    PROVE  Inv'
<1>0. TypeOK
  BY DEF Inv
<1>1. PICK s \in Secrets : /\ user' = [user EXCEPT !.secret = s]
                           /\ drawn' = [drawn EXCEPT !.secrets = @ \cup {s}]
  BY DEF StoreTOTPSecret
<1>2. /\ req' = [req EXCEPT ![r] = Idle]
      /\ UNCHANGED <<doors, policy, session, key, fails, uncounted, now, spent, reused, dead>>
  BY DEF StoreTOTPSecret, Goes, settings, history
<1>3. /\ user' \in Users
      /\ user'.enabled = user.enabled /\ user'.codes = user.codes
      /\ user'.lastStep = user.lastStep /\ user'.validAfter = user.validAfter
  BY <1>0, <1>1 DEF TypeOK, Users
<1>4. /\ drawn' \in [secrets : SUBSET Secrets, batches : SUBSET Batches]
      /\ drawn'.batches = drawn.batches
      /\ key' \in [ApiKeys -> {"unborn", "live", "revoked", "lapsed", "deleted"}]
  BY <1>0, <1>1, <1>2 DEF TypeOK
<1>5. /\ Idle \in Reqs /\ \A scope : ~MayFail(Idle, scope)
      /\ Knows(Idle, user', session, drawn.batches, now)
  BY FreeStates, FreeKnows DEF Free
<1> QED BY <1>2, <1>3, <1>4, <1>5, UserStep

(* A batch that was never printed replaces the codes. *)
LEMMA EnableTOTPInv ==
    ASSUME Inv, NEW r \in Requests, EnableTOTP(r)
    PROVE  Inv'
<1>0. TypeOK /\ Spending /\ Dated
  BY DEF Inv
<1>1. PICK b \in Batches \ drawn.batches :
        /\ user' = [user EXCEPT !.enabled = TRUE, !.codes = b]
        /\ drawn' = [drawn EXCEPT !.batches = @ \cup {b}]
  BY DEF EnableTOTP
<1>2. /\ req' = [req EXCEPT ![r] = Idle]
      /\ UNCHANGED <<doors, policy, session, key, fails, uncounted, now, spent, reused, dead>>
  BY DEF EnableTOTP, Goes, settings, history
<1>3. b \subseteq Codes /\ user.validAfter \in Nat /\ now \in Nat
  BY <1>0, <1>1 DEF Codes, TypeOK, Users, Times
<1>4. /\ user' \in Users /\ user'.codes = b
      /\ user'.lastStep = user.lastStep /\ user'.validAfter = user.validAfter
  BY <1>0, <1>1, <1>3 DEF TypeOK, Users
<1>5. /\ drawn' \in [secrets : SUBSET Secrets, batches : SUBSET Batches]
      /\ drawn'.batches = drawn.batches \cup {b} /\ drawn.batches \subseteq Batches
  BY <1>0, <1>1 DEF TypeOK
<1>6. Spending'
  <2>1. (UNION drawn.batches) \cap b = {}
    <3>1. \A d \in drawn.batches : d \cap b = {}
      BY <1>1, <1>5, AuthAssumption
    <3> QED BY <3>1
  <2>2. UNION (drawn'.batches) = (UNION drawn.batches) \cup b
    BY <1>5
  <2>3. spent \cap b = {}
    BY <1>0, <1>3, <2>1 DEF Spending
  <2> QED BY <1>0, <1>2, <1>4, <2>2, <2>3 DEF Spending
<1>7. Evolves
  BY <1>1, <1>2, <1>3, <1>4, <1>5 DEF Evolves
<1>8. Dated'
  BY <1>0, <1>2, <1>4 DEF Dated
<1>9. RestTyped'
  BY <1>0, <1>2, <1>4, <1>5 DEF TypeOK, RestTyped
<1>10. /\ Idle \in Reqs /\ \A scope : ~MayFail(Idle, scope)
       /\ Knows(Idle, user', session', drawn'.batches, now')
  BY FreeStates, FreeKnows DEF Free
<1>11. \A scope \in Scopes : fails'[scope] <= fails[scope]
  BY <1>0, <1>2 DEF TypeOK
<1> QED BY <1>2, <1>6, <1>7, <1>8, <1>9, <1>10, <1>11, ReqStep

LEMMA DisableTOTPInv ==
    ASSUME Inv, NEW r \in Requests, DisableTOTP(r)
    PROVE  Inv'
<1>0. TypeOK /\ Spending /\ Dated
  BY DEF Inv
<1>1. /\ user' = [user EXCEPT !.enabled = FALSE, !.secret = None, !.codes = {}]
      /\ req' = [req EXCEPT ![r] = Idle]
      /\ UNCHANGED <<doors, policy, session, key, fails, uncounted, now, drawn, spent, reused, dead>>
  BY DEF DisableTOTP, Goes, settings, history
<1>2. /\ user' \in Users /\ user'.codes = {} /\ ~user'.enabled
      /\ user'.lastStep = user.lastStep /\ user'.validAfter = user.validAfter
      /\ user.validAfter \in Nat /\ now \in Nat
  <2>1. user \in Users /\ now \in Nat
    BY <1>0 DEF TypeOK, Times
  <2>2. {} \in SUBSET Codes /\ None \in Secrets \cup {None} /\ FALSE \in BOOLEAN
    OBVIOUS
  <2>3. user' \in Users
    BY <1>1, <2>1, <2>2 DEF Users
  <2>4. user'.enabled = FALSE /\ user'.codes = {}
    BY <1>1, <2>1 DEF Users
  <2> QED BY <1>1, <2>1, <2>3, <2>4 DEF Users
<1>3. Spending'
  BY <1>0, <1>1, <1>2 DEF Spending
<1>4. Evolves
  BY <1>1, <1>2 DEF Evolves
<1>5. Dated'
  BY <1>0, <1>1, <1>2 DEF Dated
<1>6. RestTyped'
  BY <1>0, <1>1, <1>2 DEF TypeOK, RestTyped
<1>7. /\ Idle \in Reqs /\ \A scope : ~MayFail(Idle, scope)
      /\ Knows(Idle, user', session', drawn'.batches, now')
  BY FreeStates, FreeKnows DEF Free
<1>8. \A scope \in Scopes : fails'[scope] <= fails[scope]
  BY <1>0, <1>1 DEF TypeOK
<1> QED BY <1>1, <1>3, <1>4, <1>5, <1>6, <1>7, <1>8, ReqStep

----------------------------------------------------------------------------
(* Passwords, tokens and revocations. *)

(* What a revocation knows when it begins: the sessions it is about. *)
LEMMA RevokeFacts ==
    ASSUME NEW m \in BOOLEAN
    PROVE  /\ Revoke(m) \in Reqs /\ \A scope : ~MayFail(Revoke(m), scope)
           /\ \A u : Knows(Revoke(m), u, session, drawn.batches, now)
  BY DEF Revoke, Reqs, Revoking, MayFail, Knows, Remembers

(* The password columns and the disabled flag. *)
LEMMA PasswordColumns ==
    ASSUME TypeOK, NEW pw \in Passwords
    PROVE  LET u1 == [user EXCEPT !.hash = pw, !.legacy = FALSE]
               u2 == [user EXCEPT !.hash = pw, !.legacy = FALSE, !.passwordSet = TRUE]
               u3 == [user EXCEPT !.disabled = TRUE]
               u4 == [user EXCEPT !.disabled = FALSE]
           IN  \A u \in {user, u1, u2, u3, u4} :
                 /\ u \in Users /\ u.enabled = user.enabled /\ u.codes = user.codes
                 /\ u.lastStep = user.lastStep /\ u.validAfter = user.validAfter
<1>1. user \in Users
  BY DEF TypeOK
<1> QED BY <1>1 DEF Users

LEMMA PasswordInv ==
    ASSUME Inv, NEW r \in Requests,
           \/ UpdatePasswordHash(r) \/ SetPasswordHash(r) \/ SetInitialPasswordHash(r) \/ Disable(r)
    PROVE  Inv'
<1>0. TypeOK /\ req[r] \in Reqs
  BY ReqTyped DEF Inv
<1>1. /\ UNCHANGED <<doors, policy, session, fails, uncounted, now, spent, reused, dead, key, drawn>>
      /\ drawn' \in [secrets : SUBSET Secrets, batches : SUBSET Batches]
      /\ drawn'.batches = drawn.batches
      /\ key' \in [ApiKeys -> {"unborn", "live", "revoked", "lapsed", "deleted"}]
  BY <1>0 DEF UpdatePasswordHash, SetPasswordHash, SetInitialPasswordHash, Disable,
              settings, history, TypeOK
<1>2. /\ user' \in Users
      /\ user'.enabled = user.enabled /\ user'.codes = user.codes
      /\ user'.lastStep = user.lastStep /\ user'.validAfter = user.validAfter
  <2>1. CASE UpdatePasswordHash(r)
    <3>1. req[r].pw \in Passwords
      BY <1>0, <2>1, ReqForm DEF UpdatePasswordHash
    <3> QED BY <1>0, <2>1, <3>1, PasswordColumns DEF UpdatePasswordHash
  <2>2. CASE SetPasswordHash(r)
    <3>1. req[r].pw \in Passwords
      BY <1>0, <2>2, ReqForm DEF SetPasswordHash
    <3> QED BY <1>0, <2>2, <3>1, PasswordColumns DEF SetPasswordHash
  <2>3. CASE SetInitialPasswordHash(r)
    <3>1. req[r].pw \in Passwords
      BY <1>0, <2>3, ReqForm DEF SetInitialPasswordHash
    <3> QED BY <1>0, <2>3, <3>1, PasswordColumns DEF SetInitialPasswordHash
  <2>4. CASE Disable(r)
    <3>1. PICK pw \in Passwords : TRUE
      BY AuthAssumption
    <3> QED BY <1>0, <2>4, <3>1, PasswordColumns DEF Disable
  <2> QED BY <2>1, <2>2, <2>3, <2>4
<1>3. CASE UpdatePasswordHash(r)
  <2> DEFINE x == [req[r] EXCEPT !.pc = "state"]
  <2>1. /\ req[r].pc = "rehash" /\ req' = [req EXCEPT ![r] = x]
        /\ req[r] \in [pc : {"rehash", "state"}, pw : Passwords, code : Factors \cup {None},
                       era : SUBSET Batches]
    BY <1>0, <1>3, ReqForm DEF UpdatePasswordHash, Goes
  <2>2. x \in Reqs /\ x.pc = "state" /\ x.era = req[r].era
    BY <2>1 DEF Reqs
  <2>3. req[r].era \subseteq drawn.batches
    BY <2>1 DEF Inv, Informed, Knows, Remembers
  <2>4. MayFail(req[r], "login")
    BY <2>1 DEF MayFail
  <2> HIDE DEF x
  <2>5. Knows(x, user', session, drawn.batches, now)
    BY <2>2, <2>3 DEF Knows, Revoking
  <2>6. \A scope : MayFail(x, scope) => scope = "login"
    BY <2>2 DEF MayFail
  <2>7. \A scope \in Scopes :
          MayFail(x, scope) => MayFail(req[r], scope) \/ LetIn(scope)
    BY <2>4, <2>6
  <2> QED BY <1>1, <1>2, <2>1, <2>2, <2>5, <2>7, UserStep
<1>4. CASE SetInitialPasswordHash(r)
  <2>1. /\ Idle \in Reqs /\ \A scope : ~MayFail(Idle, scope)
        /\ Knows(Idle, user', session, drawn.batches, now)
    BY FreeStates, FreeKnows DEF Free
  <2>2. req' = [req EXCEPT ![r] = Idle]
    BY <1>4 DEF SetInitialPasswordHash, Goes
  <2> QED BY <1>1, <1>2, <2>1, <2>2, UserStep
<1>5. CASE SetPasswordHash(r) \/ Disable(r)
  <2>1. PICK m \in BOOLEAN : req' = [req EXCEPT ![r] = Revoke(m)]
    <3>1. CASE SetPasswordHash(r)
      <4>1. req[r].mints \in BOOLEAN
        BY <1>0, <3>1, ReqForm DEF SetPasswordHash
      <4> QED BY <3>1, <4>1 DEF SetPasswordHash, Goes
    <3>2. CASE Disable(r)
      BY <3>2 DEF Disable, Goes
    <3> QED BY <1>5, <3>1, <3>2
  <2>2. /\ Revoke(m) \in Reqs /\ \A scope : ~MayFail(Revoke(m), scope)
        /\ Knows(Revoke(m), user', session, drawn.batches, now)
    BY RevokeFacts
  <2> QED BY <1>1, <1>2, <2>1, <2>2, UserStep
<1> QED BY <1>3, <1>4, <1>5

LEMMA CreateAPIKeyForUserInv ==
    ASSUME Inv, NEW r \in Requests, CreateAPIKeyForUser(r)
    PROVE  Inv'
<1>1. /\ key' \in [ApiKeys -> {"unborn", "live", "revoked", "lapsed", "deleted"}]
      /\ user' \in Users /\ drawn' \in [secrets : SUBSET Secrets, batches : SUBSET Batches]
  BY DEF Inv, TypeOK, CreateAPIKeyForUser
<1>2. /\ UNCHANGED <<doors, user, policy, session, fails, uncounted, now, drawn, spent, reused, dead>>
      /\ req' = [req EXCEPT ![r] = Idle]
  BY DEF CreateAPIKeyForUser, Goes, settings, history
<1>3. /\ Idle \in Reqs /\ \A scope : ~MayFail(Idle, scope)
      /\ Knows(Idle, user', session, drawn.batches, now)
  BY FreeStates, FreeKnows DEF Free
<1> QED BY <1>1, <1>2, <1>3, UserStep

(* A failure is counted, or its insert fails. *)
LEMMA RecordFailureInv ==
    ASSUME Inv, NEW r \in Requests, RecordFailure(r)
    PROVE  Inv'
<1> DEFINE scope == req[r].scope
<1>0. TypeOK /\ Spending /\ Dated
  BY DEF Inv
<1>1. req[r].pc = "refused" /\ scope \in Scopes /\ MayFail(req[r], scope)
  BY <1>0, ReqForm, ReqTyped DEF RecordFailure, MayFail
<1>2. /\ req' = [req EXCEPT ![r] = Idle]
      /\ UNCHANGED <<doors, user, policy, session, key, uncounted, now, drawn, spent, reused, dead>>
      /\ fails' = [fails EXCEPT ![scope] = @ + 1] \/ fails' = fails
  BY DEF RecordFailure, Goes, settings, history
<1> HIDE DEF scope
<1>3. /\ fails' \in [Scopes -> Nat]
      /\ \A s \in Scopes : \/ fails'[s] <= fails[s]
                           \/ fails'[s] = fails[s] + 1 /\ s = scope
  BY <1>0, <1>1, <1>2 DEF TypeOK
<1>4. RestTyped'
  BY <1>0, <1>2, <1>3 DEF TypeOK, RestTyped
<1>5. Evolves /\ Spending' /\ Dated'
  BY <1>0, <1>2, EvolvesQuietly DEF TypeOK
<1>6. /\ Idle \in Reqs /\ \A s : ~MayFail(Idle, s)
      /\ Knows(Idle, user', session', drawn'.batches, now')
  BY FreeStates, FreeKnows DEF Free
<1>7. \A s \in Scopes :
         \/ /\ fails'[s] <= fails[s]
            /\ MayFail(Idle, s) => MayFail(req[r], s) \/ LetIn(s)
         \/ fails'[s] = fails[s] + 1 /\ MayFail(req[r], s) /\ ~MayFail(Idle, s)
  BY <1>1, <1>3, <1>6
<1>8. dead' = dead /\ uncounted' = uncounted
  BY <1>2
<1> QED BY <1>2, <1>4, <1>5, <1>6, <1>7, <1>8, ReqStep

(* A token is issued now, never before the cut. *)
LEMMA GenerateTokenInv ==
    ASSUME Inv, NEW r \in Requests, generateToken(r)
    PROVE  Inv'
<1>0. TypeOK /\ Spending /\ Dated
  BY DEF Inv
<1>1. PICK s \in Sessions :
        /\ session[s].state = "unborn"
        /\ session' = [session EXCEPT ![s] = [state |-> "live", iat |-> now]]
  BY DEF generateToken
<1>2. /\ req' = [req EXCEPT ![r] = Idle]
      /\ UNCHANGED <<doors, user, policy, key, fails, uncounted, now, drawn, spent, reused, dead>>
  BY DEF generateToken, Goes, settings, history
<1>3. now \in 0..MaxTime /\ now \in Nat /\ 1 <= now /\ user.validAfter \in Nat
  BY <1>0, AuthAssumption DEF TypeOK, Times, Users
<1>4. /\ session' \in [Sessions -> [state : {"unborn", "live", "revoked", "lapsed"},
                                    iat : 0..MaxTime]]
      /\ session'[s].iat = now
      /\ \A t \in Sessions : t # s => session'[t] = session[t]
  BY <1>0, <1>1, <1>3 DEF TypeOK
<1>5. RestTyped'
  BY <1>0, <1>2, <1>4 DEF TypeOK, RestTyped
<1>6. Evolves
  BY <1>1, <1>2, <1>3, <1>4 DEF Evolves
<1>7. Spending'
  BY <1>0, <1>2 DEF Spending
<1>8. Dated'
  BY <1>0, <1>2, <1>3, <1>4 DEF Dated
<1>9. /\ Idle \in Reqs /\ \A scope : ~MayFail(Idle, scope)
      /\ Knows(Idle, user', session', drawn'.batches, now')
  BY FreeStates, FreeKnows DEF Free
<1>10. \A scope \in Scopes : fails'[scope] <= fails[scope]
  BY <1>0, <1>2 DEF TypeOK
<1> QED BY <1>2, <1>5, <1>6, <1>7, <1>8, <1>9, <1>10, ReqStep

(* The first write of a revocation: the cut, which is now, or nothing. *)
LEMMA InvalidateUserSessionsInv ==
    ASSUME Inv, NEW r \in Requests, InvalidateUserSessions(r)
    PROVE  Inv'
<1> DEFINE q == req[r]
<1>0. TypeOK /\ Spending /\ Dated
  BY DEF Inv
<1>1. /\ q \in [pc : Revoking, old : SUBSET Sessions, missed : BOOLEAN, mints : BOOLEAN]
      /\ \A s \in q.old : session[s].state # "unborn" /\ session[s].iat < now
  BY <1>0, ReqForm, ReqTyped DEF InvalidateUserSessions, Revoking, Inv, Informed, Knows
<1>2. UNCHANGED <<doors, policy, session, key, fails, uncounted, now, drawn, spent, reused, dead>>
  BY DEF InvalidateUserSessions, settings, history
<1>3. user.validAfter \in Nat /\ now \in Nat /\ now \in 0..MaxTime
  BY <1>0, AuthAssumption DEF TypeOK, Times, Users
<1>4. CASE user' = [user EXCEPT !.validAfter = now] /\ Goes(r, [q EXCEPT !.pc = "rows"])
  <2> DEFINE x == [q EXCEPT !.pc = "rows"]
  <2>1. req' = [req EXCEPT ![r] = x]
    BY <1>4 DEF Goes
  <2> HIDE DEF q
  <2>2. x \in Reqs /\ x.pc = "rows" /\ x.old = q.old
    BY <1>1 DEF Reqs, Revoking
  <2> HIDE DEF x
  <2>3. /\ user' \in Users
        /\ user'.enabled = user.enabled /\ user'.codes = user.codes
        /\ user'.lastStep = user.lastStep /\ user'.validAfter = now
    BY <1>0, <1>3, <1>4 DEF TypeOK, Users
  <2>4. RestTyped'
    BY <1>0, <1>2, <2>3 DEF TypeOK, RestTyped
  <2>5. Evolves
    BY <1>0, <1>2, <1>3, <2>3 DEF Evolves, Dated
  <2>6. Spending'
    BY <1>0, <1>2, <2>3 DEF Spending
  <2>7. Dated'
    BY <1>0, <1>2, <1>3, <2>3 DEF Dated
  <2>8. Knows(x, user', session', drawn'.batches, now')
    BY <1>1, <1>2, <2>2, <2>3 DEF Knows, Remembers, Revoking
  <2>9. \A scope : ~MayFail(x, scope)
    BY <2>2 DEF MayFail
  <2>10. \A scope \in Scopes : fails'[scope] <= fails[scope]
    BY <1>0, <1>2 DEF TypeOK
  <2>11. dead' = dead /\ uncounted' = uncounted
    BY <1>2
  <2> QED BY <2>1, <2>2, <2>4, <2>5, <2>6, <2>7, <2>8, <2>9, <2>10, <2>11, ReqStep
<1>5. CASE user' = user /\ Goes(r, [q EXCEPT !.pc = "rows", !.missed = TRUE])
  <2> DEFINE x == [q EXCEPT !.pc = "rows", !.missed = TRUE]
  <2>1. req' = [req EXCEPT ![r] = x]
    BY <1>5 DEF Goes
  <2> HIDE DEF q
  <2>2. x \in Reqs /\ x.pc = "rows" /\ x.old = q.old /\ x.missed = TRUE
    BY <1>1 DEF Reqs, Revoking
  <2> HIDE DEF x
  <2>3. Knows(x, user, session, drawn.batches, now)
    BY <1>1, <2>2 DEF Knows, Remembers, Revoking
  <2>4. \A scope : ~MayFail(x, scope)
    BY <2>2 DEF MayFail
  <2> QED BY <1>2, <1>5, <2>1, <2>2, <2>3, <2>4, QuietStep
<1> QED BY <1>4, <1>5 DEF InvalidateUserSessions

(* The second: the rows; one of the two writes is made. *)
LEMMA RevokeUserSessionsInv ==
    ASSUME Inv, NEW r \in Requests, RevokeUserSessions(r)
    PROVE  Inv'
<1> DEFINE q == req[r]
<1>0. TypeOK /\ Spending /\ Dated
  BY DEF Inv
<1>1. /\ q.pc = "rows"
      /\ q \in [pc : Revoking, old : SUBSET Sessions, missed : BOOLEAN, mints : BOOLEAN]
      /\ \A s \in q.old : session[s].state # "unborn" /\ session[s].iat < now
      /\ ~q.missed => \A s \in q.old : session[s].iat < user.validAfter
  BY <1>0, ReqForm, ReqTyped DEF RevokeUserSessions, Revoking, Inv, Informed, Knows
<1>2. UNCHANGED <<doors, user, policy, key, fails, uncounted, now, drawn, spent, reused, dead>>
  BY DEF RevokeUserSessions, settings, history
<1>3. user.validAfter \in Nat /\ now \in Nat
  BY <1>0 DEF TypeOK, Times, Users
<1>4. CASE /\ session' = [s \in Sessions |-> IF session[s].state = "live"
                            THEN [session[s] EXCEPT !.state = "revoked"] ELSE session[s]]
           /\ Goes(r, [q EXCEPT !.pc = "keys"])
  <2> DEFINE x == [q EXCEPT !.pc = "keys"]
  <2>1. req' = [req EXCEPT ![r] = x]
    BY <1>4 DEF Goes
  <2> HIDE DEF q
  <2>2. x \in Reqs /\ x.pc = "keys" /\ x.old = q.old
    BY <1>1 DEF Reqs, Revoking
  <2> HIDE DEF x
  <2>3. \A s \in Sessions :
          /\ session'[s] \in [state : {"unborn", "live", "revoked", "lapsed"}, iat : 0..MaxTime]
          /\ session'[s].iat = session[s].iat
          /\ session'[s].state = IF session[s].state = "live" THEN "revoked"
                                 ELSE session[s].state
    BY <1>0, <1>4 DEF TypeOK
  <2>4. RestTyped'
    <3>1. session' \in [Sessions -> [state : {"unborn", "live", "revoked", "lapsed"},
                                     iat : 0..MaxTime]]
      BY <1>4, <2>3
    <3> QED BY <1>0, <1>2, <3>1 DEF TypeOK, RestTyped
  <2>5. Evolves
    BY <1>2, <1>3, <2>3 DEF Evolves
  <2>6. Spending'
    BY <1>0, <1>2 DEF Spending
  <2>7. Dated'
    BY <1>0, <1>2, <2>3 DEF Dated
  <2>8. Knows(x, user', session', drawn'.batches, now')
    <3>1. \A s \in Sessions : session[s].state \in {"unborn", "live", "revoked", "lapsed"}
      BY <1>0 DEF TypeOK
    <3>2. \A s \in q.old : s \in Sessions
      BY <1>1
    <3>3. \A s \in q.old : Killed(s, session', user') /\ session'[s].iat < now'
                            /\ session'[s].state # "unborn"
      BY <1>1, <1>2, <2>3, <3>1, <3>2 DEF Killed
    <3> QED BY <2>2, <3>3 DEF Knows, Remembers, Revoking
  <2>9. \A scope : ~MayFail(x, scope)
    BY <2>2 DEF MayFail
  <2>10. \A scope \in Scopes : fails'[scope] <= fails[scope]
    BY <1>0, <1>2 DEF TypeOK
  <2>11. dead' = dead /\ uncounted' = uncounted
    BY <1>2
  <2> QED BY <2>1, <2>2, <2>4, <2>5, <2>6, <2>7, <2>8, <2>9, <2>10, <2>11, ReqStep
<1>5. CASE session' = session /\ ~q.missed /\ Goes(r, [q EXCEPT !.pc = "keys", !.missed = TRUE])
  <2> DEFINE x == [q EXCEPT !.pc = "keys", !.missed = TRUE]
  <2>1. req' = [req EXCEPT ![r] = x]
    BY <1>5 DEF Goes
  <2> HIDE DEF q
  <2>2. x \in Reqs /\ x.pc = "keys" /\ x.old = q.old
    BY <1>1 DEF Reqs, Revoking
  <2> HIDE DEF x
  <2>3. \A s \in q.old : Killed(s, session, user)
    <3>1. \A s \in q.old : s \in Sessions /\ session[s].iat \in Nat /\ 1 <= session[s].iat
      BY <1>0, <1>1 DEF Dated, TypeOK
    <3> QED BY <1>1, <1>5, <3>1 DEF Killed
  <2>4. Knows(x, user, session, drawn.batches, now)
    BY <1>1, <2>2, <2>3 DEF Knows, Remembers, Revoking
  <2>5. \A scope : ~MayFail(x, scope)
    BY <2>2 DEF MayFail
  <2> QED BY <1>2, <1>5, <2>1, <2>2, <2>4, <2>5, QuietStep
<1> QED BY <1>4, <1>5 DEF RevokeUserSessions

(* The last: the keys; the revocation has run to its end. *)
LEMMA RevokeAPIKeysByUserInv ==
    ASSUME Inv, NEW r \in Requests, RevokeAPIKeysByUser(r)
    PROVE  Inv'
<1>0. TypeOK /\ Spending /\ Dated
  BY DEF Inv
<1>1. /\ req[r] \in [pc : Revoking, old : SUBSET Sessions, missed : BOOLEAN, mints : BOOLEAN]
      /\ \A s \in req[r].old : Killed(s, session, user)
  BY <1>0, ReqForm, ReqTyped DEF RevokeAPIKeysByUser, Revoking, Inv, Informed, Knows
<1>2. /\ UNCHANGED <<doors, user, policy, session, fails, uncounted, now, drawn, spent, reused>>
      /\ dead' = dead \cup req[r].old
      /\ key' \in [ApiKeys -> {"unborn", "live", "revoked", "lapsed", "deleted"}]
  BY <1>0 DEF RevokeAPIKeysByUser, settings, KeysRevoked, TypeOK
<1>3. PICK x \in Reqs : /\ req' = [req EXCEPT ![r] = x] /\ \A scope : ~MayFail(x, scope)
                        /\ Knows(x, user', session', drawn'.batches, now')
  <2>1. CASE req[r].mints
    <3> DEFINE x == [pc |-> "mint", era |-> {}, paid |-> FALSE]
    <3>1. x \in Reqs /\ \A scope : ~MayFail(x, scope)
      BY DEF Reqs, MayFail
    <3>2. Knows(x, user', session', drawn'.batches, now')
      BY DEF Knows, Remembers, Revoking
    <3>3. req' = [req EXCEPT ![r] = x]
      BY <2>1 DEF RevokeAPIKeysByUser, Goes
    <3> HIDE DEF x
    <3> QED BY <3>1, <3>2, <3>3
  <2>2. CASE ~req[r].mints
    <3>1. /\ Idle \in Reqs /\ \A scope : ~MayFail(Idle, scope)
          /\ Knows(Idle, user', session', drawn'.batches, now')
      BY FreeStates, FreeKnows DEF Free
    <3>2. req' = [req EXCEPT ![r] = Idle]
      BY <2>2 DEF RevokeAPIKeysByUser, Goes
    <3> QED BY <3>1, <3>2
  <2> QED BY <2>1, <2>2
<1>4. RestTyped'
  BY <1>0, <1>1, <1>2 DEF TypeOK, RestTyped
<1>5. Evolves /\ Spending' /\ Dated'
  BY <1>0, <1>2, EvolvesQuietly DEF TypeOK
<1>6. \A s \in dead' : s \in dead \/ Killed(s, session', user')
  BY <1>1, <1>2
<1>7. uncounted' = uncounted /\ \A scope \in Scopes : fails'[scope] <= fails[scope]
  BY <1>0, <1>2 DEF TypeOK
<1> QED BY <1>3, <1>4, <1>5, <1>6, <1>7, ReqStep

----------------------------------------------------------------------------
(* The steps that are no request's. *)

(* A row of a session ends. *)
LEMMA SessionEndsInv ==
    ASSUME Inv, NEW s \in Sessions, NEW end \in {"revoked", "lapsed"}, session[s].state = "live",
           session' = [session EXCEPT ![s].state = end],
           UNCHANGED <<doors, user, policy, key, fails, uncounted, now, req, drawn, spent, reused, dead>>
    PROVE  Inv'
<1>0. TypeOK /\ Spending /\ Dated
  BY DEF Inv
<1>1. /\ session' \in [Sessions -> [state : {"unborn", "live", "revoked", "lapsed"},
                                    iat : 0..MaxTime]]
      /\ \A t \in Sessions : session'[t].iat = session[t].iat
      /\ \A t \in Sessions : session'[t].state = IF t = s THEN end ELSE session[t].state
      /\ user.validAfter \in Nat /\ now \in Nat
  BY <1>0 DEF TypeOK, Users, Times
<1>2. RestTyped'
  BY <1>0, <1>1 DEF TypeOK, RestTyped
<1>3. Evolves
  BY <1>1 DEF Evolves
<1>4. Spending'
  BY <1>0 DEF Spending
<1>5. Dated'
  BY <1>0, <1>1 DEF Dated
<1>6. \A scope \in Scopes : fails'[scope] <= fails[scope]
  BY <1>0 DEF TypeOK
<1> QED BY <1>2, <1>3, <1>4, <1>5, <1>6, AsideStep

(* A key, the policy, the disabled flag or the counter changes. *)
LEMMA ElsewhereInv ==
    ASSUME Inv, UNCHANGED <<doors, session, now, req, drawn, spent, reused, dead>>,
           user' \in Users,
           user'.enabled = user.enabled, user'.codes = user.codes,
           user'.lastStep = user.lastStep, user'.validAfter = user.validAfter,
           policy' \in BOOLEAN,
           key' \in [ApiKeys -> {"unborn", "live", "revoked", "lapsed", "deleted"}],
           fails' \in [Scopes -> Nat], UNCHANGED uncounted, \A scope \in Scopes : fails'[scope] <= fails[scope]
    PROVE  Inv'
<1>1. RestTyped'
  BY DEF Inv, TypeOK, RestTyped
<1>2. Evolves /\ Spending' /\ Dated'
  BY EvolvesQuietly
<1> QED BY <1>1, <1>2, AsideStep

LEMMA TickInv ==
    ASSUME Inv, Tick
    PROVE  Inv'
<1>0. TypeOK /\ Spending /\ Dated
  BY DEF Inv
<1>1. /\ UNCHANGED <<doors, user, policy, session, key, fails, uncounted, req, drawn, spent, reused, dead>>
      /\ now' = now + 1 /\ now' \in Times /\ now \in Nat /\ user.validAfter \in Nat
  BY <1>0, AuthAssumption DEF Tick, settings, history, TypeOK, Times, Users
<1>2. RestTyped'
  BY <1>0, <1>1 DEF TypeOK, RestTyped
<1>3. Evolves
  BY <1>1 DEF Evolves
<1>4. Spending'
  BY <1>0, <1>1 DEF Spending
<1>5. Dated'
  <2>1. \A s \in Sessions : session[s].iat \in Nat
    BY <1>0 DEF TypeOK
  <2> QED BY <1>0, <1>1, <2>1 DEF Dated
<1>6. \A scope \in Scopes : fails'[scope] <= fails[scope]
  BY <1>0, <1>1 DEF TypeOK
<1> QED BY <1>1, <1>2, <1>3, <1>4, <1>5, <1>6, AsideStep

LEMMA OthersInv ==
    ASSUME Inv,
           \/ \E s \in Sessions : Logout(s)
           \/ \E k \in ApiKeys : DeleteAPIKey(k) \/ AdminRevoke(k)
           \/ \E scope \in Scopes : WindowPasses(scope)
           \/ AdminRevokeAll \/ Enable \/ Lapse \/ SetPolicy \/ UNCHANGED vars
    PROVE  Inv'
<1>0. /\ TypeOK /\ user \in Users /\ policy \in BOOLEAN
      /\ key \in [ApiKeys -> {"unborn", "live", "revoked", "lapsed", "deleted"}]
      /\ fails \in [Scopes -> Nat] /\ \A scope \in Scopes : fails[scope] <= fails[scope]
  BY DEF Inv, TypeOK
<1>1. ASSUME NEW s \in Sessions, Logout(s) PROVE Inv'
  <2>1. /\ session[s].state = "live"
        /\ session' = [session EXCEPT ![s].state = "revoked"]
        /\ UNCHANGED <<doors, user, policy, key, fails, uncounted, now, req, drawn, spent, reused, dead>>
    BY <1>1 DEF Logout, SessionAccepted, validateSession, settings, history
  <2> QED BY <2>1, SessionEndsInv
<1>2. ASSUME NEW k \in ApiKeys, DeleteAPIKey(k) \/ AdminRevoke(k) PROVE Inv'
  <2>1. UNCHANGED <<doors, user, policy, session, fails, uncounted, now, req, drawn, spent, reused, dead>>
    BY <1>2 DEF DeleteAPIKey, AdminRevoke, settings, history
  <2>2. key' \in [ApiKeys -> {"unborn", "live", "revoked", "lapsed", "deleted"}]
    BY <1>0, <1>2 DEF DeleteAPIKey, AdminRevoke
  <2> QED BY <1>0, <2>1, <2>2, ElsewhereInv
<1>3. ASSUME NEW scope \in Scopes, WindowPasses(scope) PROVE Inv'
  <2>1. /\ UNCHANGED <<doors, user, policy, session, key, uncounted, now, req, drawn, spent, reused, dead>>
        /\ fails[scope] > 0 /\ fails' = [fails EXCEPT ![scope] = fails[scope] - 1]
    BY <1>3 DEF WindowPasses, CountRecentFailed, settings, history
  <2>2. fails' \in [Scopes -> Nat] /\ \A s \in Scopes : fails'[s] <= fails[s]
    BY <1>0, <2>1
  <2> QED BY <1>0, <2>1, <2>2, ElsewhereInv
<1>4. CASE AdminRevokeAll
  <2>1. UNCHANGED <<doors, user, policy, session, fails, uncounted, now, req, drawn, spent, reused, dead>>
    BY <1>4 DEF AdminRevokeAll, settings, history
  <2>2. key' \in [ApiKeys -> {"unborn", "live", "revoked", "lapsed", "deleted"}]
    BY <1>0, <1>4 DEF AdminRevokeAll, KeysRevoked
  <2> QED BY <1>0, <2>1, <2>2, ElsewhereInv
<1>5. CASE Enable
  <2>1. /\ UNCHANGED <<doors, policy, session, key, fails, uncounted, now, req, drawn, spent, reused, dead>>
        /\ user' = [user EXCEPT !.disabled = FALSE]
    BY <1>5 DEF Enable, settings, history
  <2>2. /\ user' \in Users /\ user'.enabled = user.enabled /\ user'.codes = user.codes
        /\ user'.lastStep = user.lastStep /\ user'.validAfter = user.validAfter
    BY <1>0, <2>1 DEF Users
  <2> QED BY <1>0, <2>1, <2>2, ElsewhereInv
<1>6. CASE Lapse
  <2>1. UNCHANGED <<doors, user, policy, fails, uncounted, now, req, drawn, spent, reused, dead>>
    BY <1>6 DEF Lapse, settings, history
  <2>2. ASSUME NEW s \in Sessions, session[s].state = "live",
               session' = [session EXCEPT ![s].state = "lapsed"], UNCHANGED key
        PROVE  Inv'
    BY <2>1, <2>2, SessionEndsInv
  <2>3. ASSUME NEW k \in ApiKeys, key' = [key EXCEPT ![k] = "lapsed"], UNCHANGED session
        PROVE  Inv'
    <3>1. key' \in [ApiKeys -> {"unborn", "live", "revoked", "lapsed", "deleted"}]
      BY <1>0, <2>3
    <3> QED BY <1>0, <2>1, <2>3, <3>1, ElsewhereInv
  <2> QED BY <1>6, <2>2, <2>3 DEF Lapse
<1>7. CASE SetPolicy
  <2>1. /\ UNCHANGED <<doors, user, session, key, fails, uncounted, now, req, drawn, spent, reused, dead>>
        /\ policy' \in BOOLEAN
    BY <1>7 DEF SetPolicy, history
  <2> QED BY <1>0, <2>1, ElsewhereInv
<1>8. CASE UNCHANGED vars
  <2>1. UNCHANGED <<doors, user, policy, session, key, fails, uncounted, now, req, drawn, spent, reused, dead>>
    BY <1>8 DEF vars
  <2> QED BY <1>0, <2>1, ElsewhereInv
<1> QED BY <1>1, <1>2, <1>3, <1>4, <1>5, <1>6, <1>7, <1>8

----------------------------------------------------------------------------
LEMMA InitInv == Init => Inv
<1> SUFFICES ASSUME Init PROVE Inv
  OBVIOUS
<1>1. /\ user \in Users /\ user.codes = {} /\ user.validAfter = 0 /\ user.enabled = FALSE
  <2>1. 0 \in 0..MaxTime /\ {} \in SUBSET Codes
    BY AuthAssumption
  <2>2. user \in Accounts
    BY DEF Init
  <2>3. CASE user \in [hash : Passwords, legacy : IF "legacy" \in doors THEN BOOLEAN ELSE {FALSE},
                       passwordSet : {TRUE}, disabled : {FALSE}, enabled : {FALSE},
                       secret : {None}, codes : {{}}, lastStep : {0}, validAfter : {0}]
    BY <2>1, <2>3 DEF Users
  <2>4. CASE user \in [hash : {Unknown : d \in doors \cap {"initial"}}, legacy : {FALSE},
                       passwordSet : {FALSE}, disabled : {FALSE}, enabled : {FALSE},
                       secret : {None}, codes : {{}}, lastStep : {0}, validAfter : {0}]
    <3>1. user.hash = Unknown
      BY <2>4
    <3> QED BY <2>1, <2>4, <3>1 DEF Users
  <2> QED BY <2>2, <2>3, <2>4 DEF Accounts
<1>2. 1 \in Times /\ 0 \in 0..MaxTime
  BY AuthAssumption DEF Times
<1>3. TypeOK
  <2>1. key \in [ApiKeys -> {"unborn", "live", "revoked", "lapsed", "deleted"}]
    BY DEF Init
  <2>2. session \in [Sessions -> [state : {"unborn", "live", "revoked", "lapsed"},
                                  iat : 0..MaxTime]]
    BY <1>2 DEF Init
  <2>3. drawn \in [secrets : SUBSET Secrets, batches : SUBSET Batches]
    BY DEF Init
  <2>4. req \in [Requests -> Reqs]
    BY DEF Init, Reqs
  <2> QED BY <1>1, <1>2, <2>1, <2>2, <2>3, <2>4 DEF Init, TypeOK
<1>4. \A r \in Requests : req[r] = Idle
  BY DEF Init
<1>5. Informed
  BY <1>4, FreeStates, FreeKnows DEF Informed, Free
<1>6. Spending
  BY <1>1 DEF Init, Spending
<1>7. Dated
  BY <1>1 DEF Init, Dated
<1>8. Buried
  BY DEF Init, Buried
<1>9. Counted
  <2> SUFFICES ASSUME NEW scope \in Scopes
               PROVE  fails[scope] + Cardinality(Pending(scope))
                        <= maxFailures - 1 + Cardinality(Requests) + Excused(scope)
    BY DEF Counted
  <2>1. Pending(scope) = {}
    BY <1>4, FreeStates DEF Pending
  <2>2. fails[scope] = 0 /\ Cardinality(Pending(scope)) = 0 /\ Excused(scope) = 0
    BY <2>1, FS_EmptySet DEF Init, Excused
  <2> QED BY <2>2, PendingFinite, AuthAssumption
<1> QED BY <1>3, <1>5, <1>6, <1>7, <1>8, <1>9 DEF Inv

LEMMA NextInv == Inv /\ [Next]_vars => Inv'
<1> SUFFICES ASSUME Inv, [Next]_vars PROVE Inv'
  OBVIOUS
<1>1. ASSUME NEW r \in Requests, Step(r) PROVE Inv'
  <2>1. PICK pw \in Passwords : TRUE
    BY AuthAssumption
  <2>2. CASE \E p \in Passwords, code \in Factors \cup {None} : Login(r, p, code)
    BY <2>2, LoginInv
  <2>3. CASE \/ \E p, new \in Passwords : ChangePassword(r, p, new)
             \/ \E new \in Passwords : ResetPassword(r, new) \/ SetInitialPassword(r, new)
             \/ TOTPSetup(r) \/ CreateAPIKey(r)
    BY <2>1, <2>3, BeginInv
  <2>4. CASE \/ \E p \in Passwords, code \in OneTime : TOTPVerify(r, p, code)
             \/ \E p \in Passwords, code \in Factors : TOTPDisable(r, p, code)
    BY <2>4, TOTPVerifyInv, TOTPDisableInv
  <2>5. CASE \/ UpdatePasswordHash(r) \/ SetPasswordHash(r) \/ SetInitialPasswordHash(r)
             \/ Disable(r)
    BY <2>5, PasswordInv
  <2>6. CASE \/ GetUserTOTPState(r) \/ RecordFailure(r) \/ spendTOTPStep(r)
             \/ ReadRecoveryCodes(r) \/ consumeRecoveryCode(r) \/ generateToken(r)
    BY <2>6, GetUserTOTPStateInv, RecordFailureInv, SpendTOTPStepInv, ReadRecoveryCodesInv,
       ConsumeRecoveryCodeInv, GenerateTokenInv
  <2>7. CASE \/ InvalidateUserSessions(r) \/ RevokeUserSessions(r) \/ RevokeAPIKeysByUser(r)
    BY <2>7, InvalidateUserSessionsInv, RevokeUserSessionsInv, RevokeAPIKeysByUserInv
  <2>8. CASE \/ StoreTOTPSecret(r) \/ GetTOTPSecret(r) \/ EnableTOTP(r) \/ DisableTOTP(r)
             \/ CreateAPIKeyForUser(r)
    BY <2>8, StoreTOTPSecretInv, GetTOTPSecretInv, EnableTOTPInv, DisableTOTPInv,
       CreateAPIKeyForUserInv
  <2> QED BY <1>1, <2>2, <2>3, <2>4, <2>5, <2>6, <2>7, <2>8 DEF Step
<1> QED BY <1>1, OthersInv, TickInv DEF Next

LEMMA Invariance == Spec => []Inv
  BY InitInv, NextInv, PTL DEF Spec

----------------------------------------------------------------------------
(* The theorems. *)

(* Every column and every local of the handlers keeps its type. *)
THEOREM TypeCorrect == Spec => []TypeOK
<1>1. Inv => TypeOK
  BY DEF Inv
<1> QED BY <1>1, Invariance, PTL

(* No one-time code and no recovery code is accepted twice, by however many *)
(* logins and disables at once and across enrolments: spendTOTPStep claims  *)
(* steps upwards, consumeRecoveryCode swaps the very set it read            *)
(* (auth_totp_recovery.go).                                                 *)
THEOREM FactorsAreSpentOnce == Spec => []FactorSpentOnce
<1>1. Inv => FactorSpentOnce
  BY DEF Inv, Spending, FactorSpentOnce
<1> QED BY <1>1, Invariance, PTL

(* The lockout counters overrun their limit by no more attempts than run at *)
(* once, and that of re-authentication by one more for each count that      *)
(* failed: an attempt is let in below the limit, or by a count that could   *)
(* not be read, and is counted once (auth.go, Login; vault.go,              *)
(* reauthLocked).                                                           *)
THEOREM LockoutsAreBounded == Spec => []LockoutBounded
<1>1. Inv => LockoutBounded
  <2> SUFFICES ASSUME Inv, NEW scope \in Scopes
               PROVE  fails[scope] < maxFailures + Cardinality(Requests) + Excused(scope)
    BY DEF LockoutBounded
  <2>1. fails[scope] + Cardinality(Pending(scope))
           <= maxFailures - 1 + Cardinality(Requests) + Excused(scope)
    BY DEF Inv, Counted
  <2>2. fails[scope] \in Nat /\ maxFailures \in Nat /\ Excused(scope) \in Nat
    BY AuthAssumption DEF Inv, TypeOK, Excused
  <2> QED BY <2>1, <2>2, PendingFinite
<1> QED BY <1>1, Invariance, PTL

(* A session that a completed password change, reset or disable was about   *)
(* is never accepted again, although either of the writes of                *)
(* invalidateCredentials may have failed and the account may be enabled     *)
(* again: SessionAccepted asks for the row and for the issue time.          *)
THEOREM CutSessionsStayDead == Spec => []CutStaysDead
<1>1. Inv => CutStaysDead
  <2> SUFFICES ASSUME Inv, NEW s \in dead PROVE ~SessionAccepted(s)
    BY DEF CutStaysDead
  <2>1. Killed(s, session, user) /\ s \in Sessions
    BY DEF Inv, Buried, TypeOK
  <2>2. user.validAfter \in Nat /\ session[s].iat \in Nat
    BY <2>1 DEF Inv, TypeOK, Users
  <2> QED BY <2>1, <2>2 DEF Killed, SessionAccepted, sessionRevoked, validateSession
<1> QED BY <1>1, Invariance, PTL

(* A login that began under an enrolment and ends under the same one mints  *)
(* a session only for a code it spent, whatever enrolments, disables and    *)
(* password changes ran meanwhile (auth.go, Login).                         *)
THEOREM EnrolledLoginsPay == Spec => []EnrolledLoginPays
<1>1. Inv => EnrolledLoginPays
  BY DEF Inv, Informed, Knows, EnrolledLoginPays
<1> QED BY <1>1, Invariance, PTL

(* A token works from the second it is issued in: no cut is later than the  *)
(* clock, and sessionRevoked spares the second of the cut.                  *)
THEOREM FreshSessionsWork == Spec => FreshSessionWorks
<1>1. ASSUME Inv, [Next]_vars, NEW s \in Sessions,
             session[s].state = "unborn", session'[s].state = "live"
      PROVE  user'.disabled \/ SessionAccepted(s)'
  <2>0. TypeOK /\ Dated
    BY <1>1 DEF Inv
  <2>1. session' # session
    BY <1>1
  <2>2. CASE \E r \in Requests : generateToken(r)
    <3>1. PICK t \in Sessions :
            /\ session' = [session EXCEPT ![t] = [state |-> "live", iat |-> now]]
            /\ UNCHANGED <<user, now>>
      BY <2>2 DEF generateToken
    <3>2. t = s /\ session'[s].iat = now
      BY <1>1, <2>0, <3>1 DEF TypeOK
    <3>3. user.validAfter \in Nat /\ now \in Nat /\ user.validAfter <= now
      BY <2>0 DEF TypeOK, Users, Times, Dated
    <3> QED BY <1>1, <3>1, <3>2, <3>3 DEF SessionAccepted, sessionRevoked, validateSession
  <2>3. ASSUME NEW t \in Sessions, NEW end \in {"revoked", "lapsed"}, session[t].state = "live",
               session' = [session EXCEPT ![t].state = end]
        PROVE  FALSE
    BY <1>1, <2>0, <2>3 DEF TypeOK
  <2>4. ASSUME NEW r \in Requests, RevokeUserSessions(r) PROVE FALSE
    BY <1>1, <2>1, <2>4 DEF RevokeUserSessions
  <2>5. ~\E t \in Sessions : Logout(t)
    BY <2>3 DEF Logout, SessionAccepted, validateSession
  <2>6. ~Lapse
    BY <2>1, <2>3 DEF Lapse
  <2>7. ~UNCHANGED vars
    BY <2>1 DEF vars
  <2>8. ASSUME NEW r \in Requests, Step(r) PROVE generateToken(r)
    BY <2>1, <2>4, <2>8 DEF Step, Login, ChangePassword, ResetPassword, SetInitialPassword,
       TOTPVerify, TOTPDisable, TOTPSetup, Disable, CreateAPIKey, UpdatePasswordHash,
       GetUserTOTPState, RecordFailure, spendTOTPStep, ReadRecoveryCodes, consumeRecoveryCode,
       SetPasswordHash, SetInitialPasswordHash, InvalidateUserSessions, RevokeAPIKeysByUser,
       StoreTOTPSecret, GetTOTPSecret, EnableTOTP, DisableTOTP, CreateAPIKeyForUser
  <2> QED BY <1>1, <2>1, <2>2, <2>5, <2>6, <2>7, <2>8 DEF Next, DeleteAPIKey, AdminRevoke,
          WindowPasses, AdminRevokeAll, Enable, Tick, SetPolicy
<1>2. Inv /\ [Next]_vars =>
        \A s \in Sessions : session[s].state = "unborn" /\ session'[s].state = "live"
                            => user'.disabled \/ SessionAccepted(s)'
  BY <1>1
<1> QED BY <1>2, Invariance, PTL DEF Spec, FreshSessionWorks

(* A password somebody chose survives the initial-password door: the        *)
(* compare-and-set of SetInitialPasswordHash is the only write of a request *)
(* that came through it.                                                    *)
THEOREM ChosenPasswordsAreKept == Spec => ChosenPasswordIsKept
<1>1. ASSUME Inv, [Next]_vars, NEW r \in Requests,
             req[r].pc = "initial", req'[r] # req[r], user.passwordSet
      PROVE  user'.hash = user.hash
  <2>0. req \in [Requests -> Reqs]
    BY <1>1 DEF Inv, TypeOK
  <2>1. req' # req
    BY <1>1
  <2>2. ASSUME NEW q \in Requests, NEW x, req' = [req EXCEPT ![q] = x] PROVE q = r
    BY <1>1, <2>0, <2>2
  <2>3. ASSUME NEW q \in Requests, Step(q) PROVE q = r
    BY <2>2, <2>3 DEF Step, Goes, Login, ChangePassword, ResetPassword, SetInitialPassword,
       TOTPVerify, TOTPDisable, TOTPSetup, Disable, CreateAPIKey, UpdatePasswordHash,
       GetUserTOTPState, RecordFailure, spendTOTPStep, ReadRecoveryCodes, consumeRecoveryCode,
       SetPasswordHash, SetInitialPasswordHash, InvalidateUserSessions, RevokeUserSessions,
       RevokeAPIKeysByUser, generateToken,
       StoreTOTPSecret, GetTOTPSecret, EnableTOTP, DisableTOTP, CreateAPIKeyForUser
  <2>4. req[r] # Idle
    BY <1>1 DEF Idle
  <2>5. ASSUME Step(r) PROVE SetInitialPasswordHash(r)
    BY <1>1, <2>4, <2>5 DEF Step, Login, ChangePassword, ResetPassword, SetInitialPassword,
       TOTPVerify, TOTPDisable, TOTPSetup, Disable, CreateAPIKey, UpdatePasswordHash,
       GetUserTOTPState, RecordFailure, spendTOTPStep, ReadRecoveryCodes, consumeRecoveryCode,
       SetPasswordHash, InvalidateUserSessions, RevokeUserSessions, RevokeAPIKeysByUser,
       generateToken, StoreTOTPSecret, GetTOTPSecret, EnableTOTP, DisableTOTP,
       CreateAPIKeyForUser
  <2>6. \E q \in Requests : Step(q)
    BY <1>1, <2>1 DEF Next, vars, Logout, DeleteAPIKey, AdminRevoke, WindowPasses,
       AdminRevokeAll, Enable, Tick, Lapse, SetPolicy
  <2> QED BY <1>1, <2>3, <2>5, <2>6 DEF SetInitialPasswordHash
<1>2. Inv /\ [Next]_vars =>
        \A r \in Requests : req[r].pc = "initial" /\ req'[r] # req[r] /\ user.passwordSet
                            => user'.hash = user.hash
  BY <1>1
<1> QED BY <1>2, Invariance, PTL DEF Spec, ChosenPasswordIsKept
=============================================================================
