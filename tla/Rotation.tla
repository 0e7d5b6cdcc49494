----------------------------- MODULE Rotation -----------------------------
(* One provider-backed vault entry and everything that may rotate it or     *)
(* touch its revoke queue at the same time:                                 *)
(*   - rotations, manual (VaultHandler.Rotate) and swept (rotateOneEntry),  *)
(*     from the snapshot of the row to the recorded outcome;                *)
(*   - the retry and resolve endpoints of the pending revoke;               *)
(*   - the entry editor (VaultHandler.Update);                              *)
(*   - a crash of the server, which loses every handler in flight.          *)
(*                                                                          *)
(* Every database statement and every provider call is a step of its own:   *)
(* nothing in the code holds a lock across them.  Ciphertexts are sealed    *)
(* with a fresh nonce, so a compare-and-swap on one asks "has anybody       *)
(* written since I read".  For provider_meta that is the set metaTok of the *)
(* handlers whose copy is still the stored one; for the value it is the key *)
(* itself, because a stored key never returns once it is replaced.          *)
EXTENDS RevokeQueue, FiniteSets

CONSTANTS
    Rotators,   \* rotation passes that may be in flight on this entry
    Manual,     \* the rotators that are HTTP requests; the others are sweeps
    Retriers,   \* requests to the pending-revoke retry endpoint
    Editors,    \* operators with the entry editor open
    Provider,   \* provider names an entry may carry
    RoleOf,     \* classifyProvider
    SchemeOf,   \* how the provider's adapter revokes a predecessor
    HomeOf,     \* the provider that issues a key
    Fault,      \* the faults the environment may inject
    rotationLogCASAttempts

Role == {"none", "auto", "reminder", "unknown"}

(* bearer and careful: the key id is in the URL and 404 means gone; the two *)
(* differ in what they make of a mint whose answer carries no id.  basic    *)
(* and b2: the id is half of the credential, and b2 reads no status but     *)
(* success as success.  keep: the adapter mints without recording an id and *)
(* leaves the predecessor alone.  in_place: predecessorDestroysInPlace.     *)
Scheme == {"bearer", "careful", "basic", "b2", "keep", "in_place"}

FaultName == {"crash", "panic", "decrypt", "egress", "mint", "no_id", "encrypt", "cas",
              "revoke", "write_back", "delivery", "unreadable", "record", "stale_form"}

ASSUME RotationAssumption ==
    /\ Manual \subseteq Rotators
    /\ RoleOf \in [Provider -> Role]
    /\ SchemeOf \in [Provider -> Scheme]
    /\ \A p \in Provider : RoleOf[p] = "none" => SchemeOf[p] = "keep"
    /\ HomeOf \in [Key -> Provider]
    /\ Fault \subseteq FaultName
    /\ rotationLogCASAttempts \in Nat \ {0}
    /\ Retriers \cap Editors = {}

VARIABLES
    row,        \* the vault_entries row: value, provider, meta, err
    live,       \* keys that still authenticate
    minted,     \* keys ever issued
    rot,        \* rotation passes
    retry,      \* retry requests
    edit,       \* editor requests
    metaTok,    \* handlers whose provider_meta ciphertext is the stored one
    former,     \* history: keys that are or were the stored value
    managed,    \* history: keys whose id was recorded in provider_meta
    disclosed   \* history: keys the operator was told of, or gave up on

vars == <<row, live, minted, rot, retry, edit, metaTok, former, managed, disclosed>>

upstream == <<live, minted>>
history  == <<former, managed, disclosed>>

IdleRot ==
    [pc |-> "idle", prov |-> "", old |-> NoKey, new |-> NoKey, m |-> NoMeta,
     warn |-> FALSE, refused |-> NoKey, clause |-> "", reason |-> ""]

IdleRetry ==
    [pc |-> "idle", prov |-> "", val |-> NoKey, m |-> NoMeta,
     target |-> NoKey, err |-> Clean, tries |-> 0]

IdleEdit ==
    [pc |-> "idle", kid |-> NoKey, from |-> Clean, discarded |-> {}]

(* The entry as created: with the id of its credential recorded, or, where  *)
(* the adapter does not need one (requiredProviderMeta), without.           *)
Init ==
    \E k \in Key, tracked \in BOOLEAN :
        /\ SchemeOf[HomeOf[k]] = "b2" => tracked
        /\ row = [value |-> k, provider |-> HomeOf[k], err |-> Clean,
                  meta |-> [NoMeta EXCEPT !.keyID = IF tracked THEN k ELSE NoKey]]
        /\ live = {k}
        /\ minted = {k}
        /\ former = {k}
        /\ managed = IF tracked THEN {k} ELSE {}
        /\ disclosed = {}
        /\ rot = [w \in Rotators |-> IdleRot]
        /\ retry = [t \in Retriers |-> IdleRetry]
        /\ edit = [e \in Editors |-> IdleEdit]
        /\ metaTok = {}

----------------------------------------------------------------------------
(* The provider, as the adapters use it. *)

Fresh(p) == {k \in Key \ minted : HomeOf[k] = p}

(* Does the pair (recorded id, value) authenticate at p?  Twilio's account  *)
(* token has no sid yet, so a basic mint may go without one.                *)
Authenticates(p, m, v) ==
    /\ v \in live
    /\ HomeOf[v] = p
    /\ SchemeOf[p] \in {"basic", "b2"} => m.keyID = v

MayMint(p, m, v) ==
    \/ Authenticates(p, m, v)
    \/ SchemeOf[p] = "basic" /\ m.keyID = NoKey /\ v \in live /\ HomeOf[v] = p

(* Can the head be revoked with v?  The egress check lets the request go    *)
(* only to the entry's own provider; b2 answers an error for a key that is  *)
(* already gone.                                                            *)
MayRevoke(p, m, v) ==
    /\ Authenticates(p, m, v)
    /\ HomeOf[m.head] = p
    /\ SchemeOf[p] = "b2" => m.head \in live

(* performPendingRevoke: one attempt at the head.  A call that reports a    *)
(* failure may have taken effect when only its answer was lost.             *)
performPendingRevoke(p, m, v, ok) ==
    \/ /\ ok
       /\ MayRevoke(p, m, v)
       /\ live' = live \ {m.head}
    \/ /\ ~ok
       /\ "revoke" \in Fault
       /\ MayRevoke(p, m, v)
       /\ live' \in {live, live \ {m.head}}
    \/ /\ ~ok
       /\ ~MayRevoke(p, m, v)
       /\ live' = live

AfterRevoke(m, ok) == IF ok THEN dischargePendingRevokeHead(m) ELSE m

----------------------------------------------------------------------------
(* Rotation passes. *)

Step(w, r) == rot' = [rot EXCEPT ![w] = r]

Fail(w, reason) == Step(w, [rot[w] EXCEPT !.pc = "fail", !.reason = reason])

(* The snapshot and the checks before anything is sent upstream: an unknown *)
(* provider and one that destroys its predecessor in place are recorded as  *)
(* failures, a value that does not open is too, and only an entry without a *)
(* provider may have its value generated locally, by a manual rotation.     *)
(* A reminder-only provider changes nothing but the log.                    *)
Snapshot(w) ==
    LET p == row.provider
        seen == [IdleRot EXCEPT !.prov = p, !.old = row.value, !.m = row.meta]
        refuse(reason) == [seen EXCEPT !.pc = "fail", !.reason = reason]
    IN  /\ rot[w].pc = "idle"
        /\ \/ /\ RoleOf[p] = "unknown"
              /\ Step(w, refuse("unknown_provider"))
           \/ /\ RoleOf[p] = "auto"
              /\ SchemeOf[p] = "in_place"
              /\ Step(w, refuse("destroys_in_place"))
           \/ /\ RoleOf[p] = "auto"
              /\ SchemeOf[p] # "in_place"
              /\ Step(w, [seen EXCEPT !.pc = "retry"])
           \/ /\ RoleOf[p] = "none"
              /\ w \in Manual
              /\ Step(w, [seen EXCEPT !.pc = "generate"])
           \/ /\ "decrypt" \in Fault
              /\ w \in Manual \/ (RoleOf[p] = "auto" /\ SchemeOf[p] # "in_place")
              /\ Step(w, refuse("decrypt"))
        /\ UNCHANGED <<row, upstream, retry, edit, metaTok, history>>

(* spendProviderSecret refuses the destination: the sweep records it, the   *)
(* manual handler answers 403 and records nothing.                          *)
RefuseSpend(w) ==
    /\ rot[w].pc = "retry"
    /\ "egress" \in Fault
    /\ IF w \in Manual THEN Step(w, IdleRot) ELSE Fail(w, "provider")
    /\ UNCHANGED <<row, upstream, retry, edit, metaTok, history>>

(* retryOutstandingRevoke: a head left by an earlier pass gets one attempt  *)
(* with the current value before the mint buries it.                        *)
retryOutstandingRevoke(w) ==
    LET r == rot[w]
    IN  /\ r.pc = "retry"
        /\ \/ /\ r.m.head = NoKey
              /\ live' = live
              /\ Step(w, [r EXCEPT !.pc = "mint"])
           \/ /\ r.m.head # NoKey
              /\ \E ok \in BOOLEAN :
                   /\ performPendingRevoke(r.prov, r.m, r.old, ok)
                   /\ Step(w, [r EXCEPT !.pc = "mint", !.warn = ~ok,
                                        !.m = AfterRevoke(r.m, ok)])
        /\ UNCHANGED <<row, minted, retry, edit, metaTok, history>>

(* Mutants: the revoke before the store, the write-back before the store,   *)
(* and the defer of the id that was just recorded.                          *)
MintedRevokesFirst(r, k) ==
    [r EXCEPT !.pc = "revoke", !.new = k,
              !.m = [deferRevokeOldProviderKey(@, r.old) EXCEPT !.keyID = k]]
MintedSavesFirst(r, k) ==
    [r EXCEPT !.pc = "read_back", !.new = k,
              !.m = [deferRevokeOldProviderKey(@, r.old) EXCEPT !.keyID = k]]
MintedQueuesSuccessor(r, k) ==
    [r EXCEPT !.pc = "store", !.new = k,
              !.m = [deferRevokeOldProviderKey(@, k) EXCEPT !.keyID = k]]

(* The pass after provider.Rotate issued k: the recorded predecessor is     *)
(* queued for revocation and the successor's id recorded, in this pass's    *)
(* own map.  An adapter that keeps the predecessor touches no id.           *)
Minted(r, k) ==
    LET pred == r.m.keyID
        tracks == SchemeOf[r.prov] # "keep"
        declined == tracks /\ pred # NoKey /\ Refused(r.m, pred)
        queued == IF pred = NoKey THEN r.m ELSE deferRevokeOldProviderKey(r.m, pred)
    IN  [r EXCEPT !.pc = "store",
                  !.new = k,
                  !.m = IF tracks THEN [queued EXCEPT !.keyID = k] ELSE @,
                  !.warn = @ \/ declined,
                  !.refused = IF declined THEN pred ELSE NoKey]

(* The same when the answer carries the key and no id.  Resend and SendGrid *)
(* queue the predecessor and blank the id.  Neon leaves the predecessor     *)
(* where it is and says so.  Backblaze leaves it too and says nothing: the  *)
(* new secret goes beside the old id.                                       *)
MintedWithoutId(r, k) ==
    CASE SchemeOf[r.prov] = "bearer" ->
           LET q == Minted(r, k) IN [q EXCEPT !.m = [q.m EXCEPT !.keyID = NoKey]]
      [] SchemeOf[r.prov] = "careful" ->
           [r EXCEPT !.pc = "store", !.new = k, !.warn = TRUE, !.refused = r.m.keyID]
      [] OTHER -> [r EXCEPT !.pc = "store", !.new = k]

(* provider.Rotate issues a successor with the value that was read. *)
Mint(w) ==
    LET r == rot[w]
    IN  /\ r.pc = "mint"
        /\ MayMint(r.prov, r.m, r.old)
        /\ \E k \in Fresh(r.prov) :
             /\ minted' = minted \cup {k}
             /\ live' = live \cup {k}
             /\ \/ /\ managed' = IF SchemeOf[r.prov] = "keep" THEN managed ELSE managed \cup {k}
                   /\ Step(w, Minted(r, k))
                \/ /\ "no_id" \in Fault
                   /\ SchemeOf[r.prov] \in {"bearer", "careful", "b2"}
                   /\ managed' = managed
                   /\ Step(w, MintedWithoutId(r, k))
        /\ UNCHANGED <<row, retry, edit, metaTok, former, disclosed>>

(* The provider refuses (a dead credential, its key quota used up, an       *)
(* outage), or issues a key whose answer never arrives, or whose answer has *)
(* no id and is refused for it (Twilio).                                    *)
MintFails(w) ==
    LET r == rot[w]
    IN  /\ r.pc = "mint"
        /\ \/ /\ ~MayMint(r.prov, r.m, r.old) \/ Fresh(r.prov) = {} \/ "mint" \in Fault
              /\ UNCHANGED upstream
           \/ /\ "mint" \in Fault \/ ("no_id" \in Fault /\ SchemeOf[r.prov] = "basic")
              /\ MayMint(r.prov, r.m, r.old)
              /\ \E k \in Fresh(r.prov) :
                   /\ minted' = minted \cup {k}
                   /\ live' = live \cup {k}
        /\ Fail(w, "provider")
        /\ UNCHANGED <<row, retry, edit, metaTok, history>>

(* An entry without a provider gets a value of this server's own making. *)
Generate(w) ==
    LET r == rot[w]
    IN  /\ r.pc = "generate"
        /\ \E k \in Fresh(r.prov) :
             /\ minted' = minted \cup {k}
             /\ live' = live \cup {k}
             /\ Step(w, [r EXCEPT !.pc = "store", !.new = k])
        /\ UNCHANGED <<row, retry, edit, metaTok, history>>

(* encryptEntrySecret fails: only the sweep records it. *)
EncryptFails(w) ==
    /\ rot[w].pc = "store"
    /\ "encrypt" \in Fault
    /\ IF w \in Manual THEN Step(w, IdleRot) ELSE Fail(w, "encrypt")
    /\ UNCHANGED <<row, upstream, retry, edit, metaTok, history>>

(* persistRotatedValue: the value is replaced only if it is still the one   *)
(* this pass read.  A miss is a conflict, a database error is not, and a    *)
(* manual rotation without a provider records no conflict.                  *)
persistRotatedValue(w) ==
    LET r == rot[w]
    IN  /\ r.pc = "store"
        /\ \/ /\ row.value = r.old
              /\ row' = [row EXCEPT !.value = r.new]
              /\ former' = former \cup {r.new}
              /\ Step(w, [r EXCEPT !.pc = IF RoleOf[r.prov] = "auto" THEN "revoke"
                                                                    ELSE "record"])
           \/ /\ row.value # r.old
              /\ IF RoleOf[r.prov] = "none" THEN Step(w, IdleRot) ELSE Fail(w, "conflict")
              /\ UNCHANGED <<row, former>>
           \/ /\ "cas" \in Fault
              /\ Fail(w, "persist")
              /\ UNCHANGED <<row, former>>
        /\ UNCHANGED <<upstream, retry, edit, metaTok, managed, disclosed>>

(* revokeOldKeyAndPersistMeta, first half: the successor is stored, so the  *)
(* head (the predecessor, or an older key if the defer was refused) is      *)
(* revoked with it.                                                         *)
RevokeOld(w) ==
    LET r == rot[w]
    IN  /\ r.pc = "revoke"
        /\ \/ /\ r.m.head = NoKey
              /\ live' = live
              /\ Step(w, [r EXCEPT !.pc = "read_back"])
           \/ /\ r.m.head # NoKey
              /\ \E ok \in BOOLEAN :
                   /\ performPendingRevoke(r.prov, r.m, r.new, ok)
                   /\ Step(w, [r EXCEPT !.pc = "read_back", !.warn = @ \/ ~ok,
                                        !.m = AfterRevoke(r.m, ok)])
        /\ UNCHANGED <<row, minted, retry, edit, metaTok, history>>

(* What the write-back stores: the pass's map over the stored one, with the *)
(* server-owned keys the pass no longer has deleted.  An id the pass does   *)
(* not have is the stored one, but one that a bearer mint blanked is blank. *)
MergedMeta(p, stored, m) ==
    [m EXCEPT !.keyID = IF @ = NoKey /\ SchemeOf[p] # "bearer" THEN stored.keyID ELSE @]

(* persistProviderMetaAfterRevoke, the read and the merge: the read may     *)
(* fail, and a provider that changed since the snapshot means write nothing. *)
ReadBack(w) ==
    LET r == rot[w]
        skip(clause) == Step(w, [r EXCEPT !.pc = "record", !.clause = clause])
    IN  /\ r.pc = "read_back"
        /\ \/ /\ row.provider = r.prov
              /\ Step(w, [r EXCEPT !.pc = "write_back", !.m = MergedMeta(r.prov, row.meta, @)])
           \/ row.provider # r.prov /\ skip("provider_changed")
           \/ "write_back" \in Fault /\ skip("write_back_failed")
        /\ UNCHANGED <<row, upstream, retry, edit, metaTok, history>>

(* persistProviderMetaAfterRevoke, the write: unconditional. *)
WriteBack(w) ==
    LET r == rot[w]
    IN  /\ r.pc = "write_back"
        /\ \/ /\ row' = [row EXCEPT !.meta = r.m]
              /\ metaTok' = {}
              /\ Step(w, [r EXCEPT !.pc = "record"])
           \/ /\ "write_back" \in Fault
              /\ Step(w, [r EXCEPT !.pc = "record", !.clause = "write_back_failed"])
              /\ UNCHANGED <<row, metaTok>>
        /\ UNCHANGED <<upstream, retry, edit, history>>

(* The keys an outcome tells the operator about beyond the row's queue: a   *)
(* predecessor that could not be queued, and, when the map was not saved,   *)
(* the successor whose id was lost and everything only the map named.       *)
Told(r) ==
    ({r.refused} \cup IF r.clause = "" THEN {} ELSE {r.new} \cup outstandingRevokeKeyIDs(r.m))
    \ {NoKey}

(* Every recorder overwrites last_rotation_error; an error of that write is *)
(* only logged.                                                             *)
RecordError(e) ==
    \/ row' = [row EXCEPT !.err = e]
    \/ "record" \in Fault /\ UNCHANGED row

(* recordRotationOutcome: deliver, fold in the revoke and write-back        *)
(* warnings, record.  A manual rotation with targets runs this in a         *)
(* goroutine of its own, up to 15 minutes later.                            *)
recordRotationOutcome(w) ==
    LET r == rot[w]
    IN  /\ r.pc = "record"
        /\ \E delivery \in {""} \cup (Fault \cap {"delivery"}) :
             RecordError(foldMetaWriteOutcome(
                             foldRevokeOutcome(FailureOf(delivery), r.warn,
                                               outstandingRevokeKeyIDs(r.m)),
                             r.clause))
        /\ disclosed' = disclosed \cup Told(r)
        /\ Step(w, IdleRot)
        /\ UNCHANGED <<upstream, retry, edit, metaTok, former, managed>>

(* recordRotationOutcomeUndeliverable: the targets did not decrypt.  The    *)
(* revoke warning is not part of what it records.                           *)
recordRotationOutcomeUndeliverable(w) ==
    LET r == rot[w]
    IN  /\ r.pc = "record"
        /\ "unreadable" \in Fault
        /\ RecordError(foldMetaWriteOutcome(FailureOf("undeliverable"), r.clause))
        /\ disclosed' = disclosed \cup Told([r EXCEPT !.refused = NoKey])
        /\ Step(w, IdleRot)
        /\ UNCHANGED <<upstream, retry, edit, metaTok, former, managed>>

(* recordRotationFailure: the reasons it records say that a replacement key *)
(* may have been issued.                                                    *)
recordRotationFailure(w) ==
    LET r == rot[w]
    IN  /\ r.pc = "fail"
        /\ RecordError(FailureOf(r.reason))
        /\ disclosed' = disclosed \cup ({r.new} \ {NoKey})
        /\ Step(w, IdleRot)
        /\ UNCHANGED <<upstream, retry, edit, metaTok, former, managed>>

(* A panic is contained to the pass: rotateOneEntry recovers and records    *)
(* it, the HTTP server recovers a manual rotation and records nothing.      *)
Panic(w) ==
    /\ "panic" \in Fault
    /\ rot[w].pc \notin {"idle", "fail"}
    /\ IF w \in Manual THEN Step(w, IdleRot) ELSE Fail(w, "internal")
    /\ UNCHANGED <<row, upstream, retry, edit, metaTok, history>>

RotateStep(w) ==
    \/ RefuseSpend(w)
    \/ retryOutstandingRevoke(w)
    \/ Mint(w)
    \/ MintFails(w)
    \/ Generate(w)
    \/ EncryptFails(w)
    \/ persistRotatedValue(w)
    \/ RevokeOld(w)
    \/ ReadBack(w)
    \/ WriteBack(w)
    \/ recordRotationOutcome(w)
    \/ recordRotationOutcomeUndeliverable(w)
    \/ recordRotationFailure(w)
----------------------------------------------------------------------------
(* The retry endpoint. *)

RetryStep(t, r) == retry' = [retry EXCEPT ![t] = r]

(* RetryPendingRevoke, admission: the row is read in one transaction.  An   *)
(* unknown provider and an entry without a pending revoke are refused.      *)
RetrySnapshot(t) ==
    /\ retry[t].pc = "idle"
    /\ RoleOf[row.provider] # "unknown"
    /\ row.meta.head # NoKey
    /\ RetryStep(t, [pc |-> "call", prov |-> row.provider, val |-> row.value,
                     m |-> row.meta, target |-> row.meta.head, err |-> row.err,
                     tries |-> 0])
    /\ metaTok' = metaTok \cup {t}
    /\ UNCHANGED <<row, upstream, rot, edit, history>>

(* The network call.  A failed attempt edits nothing, so nothing is written. *)
RetryCall(t) ==
    LET r == retry[t]
    IN  /\ r.pc = "call"
        /\ \E ok \in BOOLEAN :
             /\ performPendingRevoke(r.prov, r.m, r.val, ok)
             /\ RetryStep(t, IF ok THEN [r EXCEPT !.pc = "cas", !.m = AfterRevoke(@, ok)]
                                   ELSE IdleRetry)
             /\ metaTok' = IF ok THEN metaTok ELSE metaTok \ {t}
        /\ UNCHANGED <<row, minted, rot, edit, history>>

(* casEditProviderMeta, one attempt.  The map was discharged in place after *)
(* the call, so the transform acts again only on a map whose head is still  *)
(* the key that was settled.                                                *)
Settled(m, target) == IF m.head = target THEN dischargePendingRevokeHead(m) ELSE m

RetryCAS(t) ==
    LET r == retry[t]
    IN  /\ r.pc = "cas"
        /\ \/ /\ t \in metaTok
              /\ row' = [row EXCEPT !.meta = Settled(r.m, r.target)]
              /\ metaTok' = {}
              /\ RetryStep(t, [r EXCEPT !.pc = "recheck"])
           \/ /\ t \notin metaTok
              /\ RetryStep(t, [r EXCEPT !.pc = "refetch", !.tries = @ + 1])
              /\ UNCHANGED <<row, metaTok>>
           \/ /\ "cas" \in Fault
              /\ RetryStep(t, IdleRetry)
              /\ metaTok' = metaTok \ {t}
              /\ UNCHANGED row
        /\ UNCHANGED <<upstream, rot, edit, history>>

(* Mutants: the attempts not bounded, and the count started over. *)
RetryRefetchUnbounded(t) ==
    LET r == retry[t]
        again == row.meta.head = r.target
    IN  /\ r.pc = "refetch"
        /\ RetryStep(t, IF again THEN [r EXCEPT !.pc = "cas", !.m = row.meta] ELSE IdleRetry)
        /\ metaTok' = IF again THEN metaTok \cup {t} ELSE metaTok \ {t}
        /\ UNCHANGED <<row, upstream, rot, edit, history>>
RetryRefetchStartsOver(t) ==
    LET r == retry[t]
        again == row.meta.head = r.target /\ r.tries < rotationLogCASAttempts
    IN  /\ r.pc = "refetch"
        /\ RetryStep(t, IF again THEN [r EXCEPT !.pc = "cas", !.m = row.meta, !.tries = 0]
                                 ELSE IdleRetry)
        /\ metaTok' = IF again THEN metaTok \cup {t} ELSE metaTok \ {t}
        /\ UNCHANGED <<row, upstream, rot, edit, history>>

(* casEditProviderMeta after a miss: give up when the head is another key   *)
(* by now, or when the attempts are used up.                                *)
RetryRefetch(t) ==
    LET r == retry[t]
        again == row.meta.head = r.target /\ r.tries < rotationLogCASAttempts
    IN  /\ r.pc = "refetch"
        /\ RetryStep(t, IF again THEN [r EXCEPT !.pc = "cas", !.m = row.meta] ELSE IdleRetry)
        /\ metaTok' = IF again THEN metaTok \cup {t} ELSE metaTok \ {t}
        /\ UNCHANGED <<row, upstream, rot, edit, history>>

(* The alarm is cleared only if it still says what it said at admission. *)
RetryRecheck(t) ==
    LET r == retry[t]
    IN  /\ r.pc = "recheck"
        /\ IF row.err = r.err
             THEN RetryStep(t, [r EXCEPT !.pc = "clear"]) /\ metaTok' = metaTok \cup {t}
             ELSE RetryStep(t, IdleRetry) /\ UNCHANGED metaTok
        /\ UNCHANGED <<row, upstream, rot, edit, history>>

(* Mutant: the alarm as it was read, less the clause, is written whatever   *)
(* it says by now.                                                          *)
clearUnconditionally(h, current, settled) ==
    row' = [row EXCEPT !.err = withoutRevokeStillLiveKeys(current, settled)]

(* clearRevokeHalfOfRotationError: a compare-and-swap on the alarm and on   *)
(* provider_meta together.                                                  *)
clearRevokeHalfOfRotationError(h, current, settled) ==
    LET matches == row.err = current /\ h \in metaTok
    IN  \/ matches /\ row' = [row EXCEPT !.err = withoutRevokeStillLiveKeys(@, settled)]
        \/ (~matches \/ "record" \in Fault) /\ UNCHANGED row

RetryClear(t) ==
    LET r == retry[t]
    IN  /\ r.pc = "clear"
        /\ clearRevokeHalfOfRotationError(t, r.err, {r.target})
        /\ RetryStep(t, IdleRetry)
        /\ metaTok' = metaTok \ {t}
        /\ UNCHANGED <<upstream, rot, edit, history>>

RetryProgress(t) ==
    \/ RetryCall(t)
    \/ RetryCAS(t)
    \/ RetryRefetch(t)
    \/ RetryRecheck(t)
    \/ RetryClear(t)

(* ResolvePendingRevoke: one write transaction.  The caller names the key   *)
(* the row shows; the acknowledgement settles that key and no other.        *)
ResolvePendingRevoke ==
    LET k == row.meta.head
    IN  /\ k # NoKey
        /\ row' = [row EXCEPT !.meta = dischargePendingRevokeHead(@),
                              !.err = withoutRevokeStillLiveKeys(@, {k})]
        /\ disclosed' = disclosed \cup {k}
        /\ metaTok' = {}
        /\ UNCHANGED <<upstream, rot, retry, edit, former, managed>>

----------------------------------------------------------------------------
(* The entry editor: VaultHandler.Update is one transaction, followed by    *)
(* compare-and-swap clears of the alarms it settled.                        *)

EditStep(e, r) == edit' = [edit EXCEPT ![e] = r]

(* The editor shows the recorded key id; an operator who knows better types *)
(* the id of the stored credential instead.                                 *)
OpenEditor(e) ==
    /\ edit[e].pc = "idle"
    /\ \E kid \in {row.meta.keyID, row.value} :
         EditStep(e, [IdleEdit EXCEPT !.pc = "open", !.kid = kid])
    /\ UNCHANGED <<row, upstream, rot, retry, metaTok, history>>

(* Mutant: the client's map replaces the server's own keys too. *)
reconcileDropsMarkers(stored, kid, keep) == [NoMeta EXCEPT !.keyID = kid]

(* reconcileProviderMetaForStorage: the column is replaced by the client's  *)
(* map; the server's own keys are carried across only if the provider is    *)
(* the same.                                                                *)
reconcileProviderMetaForStorage(stored, kid, keep) ==
    IF keep THEN [stored EXCEPT !.keyID = kid] ELSE [NoMeta EXCEPT !.keyID = kid]

(* The transaction, for a new provider, value and key id, and what it       *)
(* leaves for after the commit: the write-back alarm is settled by a save   *)
(* of the map that changed something in it, the id or another field, and    *)
(* left the fields the adapter requires; the revoke alarm by one that       *)
(* discarded the markers.  A column the request does not reach is carried   *)
(* forward as stored, ciphertext and all.                                   *)
Commit(e, p, v, kid, metaSent, touched) ==
    LET meta == reconcileProviderMetaForStorage(row.meta, kid, p = row.provider)
        discarded == IF p # row.provider /\ row.meta.head # NoKey
                       THEN outstandingRevokeKeyIDs(row.meta) ELSE {}
        eligible == /\ metaSent
                    /\ touched \/ meta # row.meta
                    /\ SchemeOf[p] = "b2" => kid # NoKey
        todo == eligible \/ discarded # {}
        resealed == metaSent \/ meta # row.meta
    IN  /\ row' = [row EXCEPT !.provider = p, !.value = v, !.meta = meta]
        /\ metaTok' = (IF resealed THEN {} ELSE metaTok) \cup (IF todo THEN {e} ELSE {})
        /\ EditStep(e, IF todo
                         THEN [pc |-> IF eligible THEN "clear_meta" ELSE "recheck",
                               kid |-> NoKey, from |-> row.err, discarded |-> discarded]
                         ELSE IdleEdit)
        /\ disclosed' = disclosed \cup discarded \cup ({row.value} \ {v})
        /\ UNCHANGED <<rot, retry>>

(* Save the configuration form.  Without the stale_form fault the form is   *)
(* one that still agrees with the row.                                      *)
SaveConfig(e) ==
    /\ edit[e].pc = "open"
    /\ "stale_form" \in Fault \/ edit[e].kid \in {row.meta.keyID, row.value}
    /\ \E touched \in BOOLEAN :
         Commit(e, row.provider, row.value, edit[e].kid, TRUE, touched)
    /\ UNCHANGED <<upstream, former, managed>>

(* Change the provider and nothing else. *)
ChangeProvider(e) ==
    /\ edit[e].pc = "open"
    /\ \E p \in Provider \ {row.provider} :
         Commit(e, p, row.value, row.meta.keyID, FALSE, FALSE)
    /\ UNCHANGED <<upstream, former, managed>>

(* Paste a credential issued by hand, with or without its id. *)
PasteCredential(e) ==
    /\ edit[e].pc = "open"
    /\ \E k \in Key \ minted, tracked \in BOOLEAN :
         /\ minted' = minted \cup {k}
         /\ live' = live \cup {k}
         /\ former' = former \cup {k}
         /\ managed' = IF tracked THEN managed \cup {k} ELSE managed
         /\ Commit(e, HomeOf[k], k, IF tracked THEN k ELSE row.meta.keyID, tracked, FALSE)

(* clearMetaWriteHalfOfRotationError, with the pre-image of the transaction. *)
ClearMetaWrite(e) ==
    LET r == edit[e]
        matches == row.err = r.from /\ e \in metaTok
        cleared == withoutMetaWriteClauses(r.from)
        then(from) == EditStep(e, IF r.discarded = {} THEN IdleEdit
                                  ELSE [r EXCEPT !.pc = "recheck", !.from = from])
    IN  /\ r.pc = "clear_meta"
        /\ \/ matches /\ row' = [row EXCEPT !.err = cleared] /\ then(cleared)
           \/ (~matches \/ "record" \in Fault) /\ UNCHANGED row /\ then(r.from)
        /\ metaTok' = IF r.discarded = {} THEN metaTok \ {e} ELSE metaTok
        /\ UNCHANGED <<upstream, rot, retry, history>>

(* The discard's own re-read: an alarm that changed since is left alone. *)
EditRecheck(e) ==
    LET r == edit[e]
    IN  /\ r.pc = "recheck"
        /\ IF row.err = r.from
             THEN EditStep(e, [r EXCEPT !.pc = "clear_revoke"]) /\ UNCHANGED metaTok
             ELSE EditStep(e, IdleEdit) /\ metaTok' = metaTok \ {e}
        /\ UNCHANGED <<row, upstream, rot, retry, history>>

EditClear(e) ==
    LET r == edit[e]
    IN  /\ r.pc = "clear_revoke"
        /\ clearRevokeHalfOfRotationError(e, r.from, r.discarded)
        /\ EditStep(e, IdleEdit)
        /\ metaTok' = metaTok \ {e}
        /\ UNCHANGED <<upstream, rot, retry, history>>

----------------------------------------------------------------------------
(* The server stops: the row and the provider keep what they have. *)
Crash ==
    /\ "crash" \in Fault
    /\ rot' = [w \in Rotators |-> IdleRot]
    /\ retry' = [t \in Retriers |-> IdleRetry]
    /\ edit' = [e \in Editors |-> IdleEdit]
    /\ metaTok' = {}
    /\ UNCHANGED <<row, upstream, history>>

Next ==
    \/ \E w \in Rotators : Snapshot(w) \/ RotateStep(w) \/ Panic(w)
    \/ \E t \in Retriers : RetrySnapshot(t) \/ RetryProgress(t)
    \/ ResolvePendingRevoke
    \/ \E e \in Editors : \/ OpenEditor(e)
                          \/ SaveConfig(e)
                          \/ ChangeProvider(e)
                          \/ PasteCredential(e)
                          \/ ClearMetaWrite(e)
                          \/ EditRecheck(e)
                          \/ EditClear(e)
    \/ Crash

Spec == Init /\ [][Next]_vars

(* A handler that has begun is run to its end: nothing the code waits for   *)
(* is unbounded, every provider call carries a deadline.                    *)
Fairness ==
    /\ \A w \in Rotators : WF_vars(RotateStep(w))
    /\ \A t \in Retriers : WF_vars(RetryProgress(t))

FairSpec == Spec /\ Fairness

----------------------------------------------------------------------------
Row == [value : Key, provider : Provider, meta : Meta, err : RotationError]

RotState ==
    [pc : {"idle", "retry", "mint", "generate", "store", "revoke", "read_back",
           "write_back", "record", "fail"},
     prov : Provider \cup {""}, old : OptKey, new : OptKey, m : Meta,
     warn : BOOLEAN, refused : OptKey, clause : MetaClause, reason : Reason]

RetryState ==
    [pc : {"idle", "call", "cas", "refetch", "recheck", "clear"},
     prov : Provider \cup {""}, val : OptKey, m : Meta, target : OptKey,
     err : RotationError, tries : 0 .. rotationLogCASAttempts]

EditState ==
    [pc : {"idle", "open", "clear_meta", "recheck", "clear_revoke"},
     kid : OptKey, from : RotationError, discarded : SUBSET Key]

(* Types of the row, of the handlers in flight and of the histories.        *)
TypeOK ==
    /\ row \in Row
    /\ live \subseteq Key
    /\ minted \subseteq Key
    /\ rot \in [Rotators -> RotState]
    /\ retry \in [Retriers -> RetryState]
    /\ edit \in [Editors -> EditState]
    /\ metaTok \subseteq Retriers \cup Editors
    /\ former \subseteq Key
    /\ managed \subseteq Key
    /\ disclosed \subseteq Key

(* Whatever rotations, retries, edits, lost answers and crashes overlap,    *)
(* the credential the vault hands out still authenticates: the successor is *)
(* stored before the predecessor is revoked, and no revoke (of a rotation,  *)
(* of a stale head before a mint, of the retry endpoint) reaches the key    *)
(* that is stored by then.                                                  *)
CredentialInUseIsLive == row.value \in live

(* The revoke queue of the row only ever names keys that were stored and    *)
(* have been replaced, so neither the sweep nor an operator pressing Retry  *)
(* can be led to revoke the credential in use.                              *)
QueueNamesOnlyDisplacedKeys ==
    outstandingRevokeKeyIDs(row.meta) \subseteq former \ {row.value}

(* The abstract credential that this entry is. *)
Cred == INSTANCE Credential WITH value <- row.value, used <- former

(* The entry implements the abstract credential: every mint, store, revoke, *)
(* retry and paste is an issue, an adoption or the retirement of a key that *)
(* was in use and has been replaced; in particular no revoke reaches a key  *)
(* that another rotation has minted and not yet stored.                     *)
ImplementsCredential == Cred!Spec

(* Keys a rotation in flight still knows of. *)
InFlight(k) ==
    \E w \in Rotators :
        /\ rot[w].new # NoKey
        /\ \/ k \in {rot[w].new, rot[w].refused}
           \/ k \in outstandingRevokeKeyIDs(rot[w].m)

(* "It never FORGETS one" (vault_pending_revoke_history.go): a key whose id *)
(* the engine recorded and that still authenticates is the stored value, is *)
(* on the row's queue, is held by a rotation in flight, is one that the     *)
(* operator was told about or gave up on, or is still the recorded id of a  *)
(* value whose own id the provider never answered (Backblaze, Neon).        *)
NeverForgotten ==
    \A k \in managed \cap live :
        \/ k = row.value
        \/ k = row.meta.keyID /\ row.value \notin managed
        \/ k \in outstandingRevokeKeyIDs(row.meta)
        \/ k \in disclosed
        \/ InFlight(k)

(* The same of the stored queue, also while an operator edits the entry and *)
(* the server stops: whatever writes provider_meta (a write-back of an old  *)
(* copy, a discharge, a save, a change of provider) leaves out of the queue *)
(* only keys that are dead, or that the operator was told about or gave up. *)
QueueForgetsNothing ==
    [][\A k \in outstandingRevokeKeyIDs(row.meta) \ outstandingRevokeKeyIDs(row'.meta) :
         k \in live' => k \in disclosed']_vars

(* Where the adapter records ids, a stored id that is not the id of the     *)
(* stored value queues the wrong predecessor, and where the id is half of   *)
(* the credential the pair authenticates as nobody.  If the provider        *)
(* answered the id of the stored value at all, then once no rotation is     *)
(* between its store and its record such a pair is never behind a clean     *)
(* last_rotation_error.                                                     *)
MismatchedPairIsAlarmed ==
    \/ SchemeOf[row.provider] = "keep"
    \/ row.value \notin managed
    \/ row.meta.keyID \in {row.value, NoKey}
    \/ row.err # Clean
    \/ \E w \in Rotators : rot[w].pc \in {"revoke", "read_back", "write_back", "record", "fail"}

(* An id leaves the revoke alarm only when its key is dead or the operator  *)
(* gave it up; a rotation recording its own outcome may also drop the id of *)
(* a key that is still on the queue, where the entry goes on showing it.  So *)
(* no retry, acknowledgement or provider change settles another key's       *)
(* alarm, and no outcome makes a live key disappear.                        *)
AlarmSettlesOnlyItsKey ==
    [][\A k \in row.err.keys \ row'.err.keys :
         \/ k \notin live
         \/ k \in disclosed'
         \/ k \in outstandingRevokeKeyIDs(row'.meta) /\ rot' # rot]_vars

(* No run checks this one; the README tells how TLC refutes it.             *)
(* "The value IS rotated and the predecessor IS revoked" (vault.go): a      *)
(* rotation recorded as undeliverable, which drops the revoke warning,      *)
(* replaced a key the engine manages and that key is dead.                  *)
UndeliverablePredecessorIsDead ==
    [][\A w \in Rotators :
         recordRotationOutcomeUndeliverable(w) =>
           rot[w].old \notin live \cap managed]_vars

(* A retry request ends however many writers keep changing the column under *)
(* it, because its compare-and-swap attempts are bounded.                   *)
RetryEnds == \A t \in Retriers : retry[t].pc # "idle" ~> retry[t].pc = "idle"

----------------------------------------------------------------------------
(* Why CredentialInUseIsLive and QueueNamesOnlyDisplacedKeys hold: what a   *)
(* handler's own copy of provider_meta may name at each of its steps, while *)
(* any number of other handlers run.  v is the stored value, f the keys     *)
(* ever stored and l the live ones.                                         *)

(* A copy that may be stored: it leads nobody to the value in use. *)
CopySafe(m, v, f) ==
    /\ outstandingRevokeKeyIDs(m) \subseteq f \ {v}
    /\ m.keyID \in f \cup {NoKey}

(* Between the mint and the store the predecessor in a pass's copy is still *)
(* the stored value, and the successor is live and was never stored.        *)
PassSafe(r, v, f, l) ==
    /\ r.pc \in {"retry", "mint", "generate", "revoke", "read_back", "write_back"} =>
         CopySafe(r.m, v, f)
    /\ r.pc = "store" =>
         /\ r.new \in l \ f
         /\ outstandingRevokeKeyIDs(r.m) \subseteq f
         /\ r.m.keyID \in f \cup {NoKey, r.new}

RequestSafe(r, v, f) ==
    r.pc \in {"call", "cas"} => CopySafe(r.m, v, f) /\ r.tries < rotationLogCASAttempts

SuccessorsDiffer ==
    \A w, x \in Rotators :
        rot[w].pc = "store" /\ rot[x].pc = "store" /\ w # x => rot[w].new # rot[x].new

(* The inductive invariant. *)
Safe ==
    /\ row.value \in live \cap former
    /\ former \subseteq minted
    /\ live \subseteq minted
    /\ CopySafe(row.meta, row.value, former)
    /\ SuccessorsDiffer
    /\ \A w \in Rotators : PassSafe(rot[w], row.value, former, live)
    /\ \A t \in Retriers : RequestSafe(retry[t], row.value, former)
    /\ \A e \in Editors : edit[e].kid \in former \cup {NoKey}
============================================================================
