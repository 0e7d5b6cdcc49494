# trustissues in TLA+

A verification development for trustissues, a self-hosted vault that stores
secrets, rotates the ones that belong to a provider, and lets agents use them
without seeing them.  It holds TLA+ models translated from the Go sources under
`src/`, TLC instances of them, and TLAPS proofs.  `PROJECT.json` maps every
definition to the lines it models and lists runs, mutants, hazards and theorems.

## 1. The system

The server is one Go process over one SQLite database (`BEGIN IMMEDIATE`
transactions), with HTTP handlers, a rotation sweep, and detached delivery
goroutines running at the same time.  No lock is held across two statements or
across a network call unless a transaction says so.  What is hard in it comes
from that: state read by one statement and written by another, provider calls
whose answers are lost, restarts in between, and authority that was checked
before it was taken away.

| Component | State | Operations | Hard behaviour | What makes it correct |
|---|---|---|---|---|
| Rotation engine (`vault_rotation*.go`, `VaultHandler.Rotate`) | value, provider, `provider_meta`, `last_rotation_error` of a row; keys at the provider | snapshot, retry of the old revoke, mint, store (CAS), revoke, write-back, deliver, record | sweeps and clicks overlap; mint or revoke answers lost; stop between store and write-back | the stored credential authenticates; no live key is lost track of; a broken entry is not shown as clean |
| Pending-revoke queue and alarm (`vault_pending_revoke*.go`, `vault_providers.go`) | head marker and stranded backlog inside `provider_meta`; clauses of the alarm | defer, veto, discharge and promote, retry endpoint, resolve endpoint, clear | bounded backlog; alarm read before a network call and cleared after it | the queue never names the key in use; an alarm is settled only by its own key |
| Rotation log (`appendRotationLog`) | `rotation_log` column | read, append, CAS, give up | several writers, equal texts, bounded attempts | recent history, nothing lost but under real contention |
| Entry editor (`VaultHandler.Update`) | the same row | save configuration, change provider, paste a value, clear alarms after commit | stale forms; a rotation between commit and clear | an edit never settles what it did not fix |
| Delivery (`vault_targets.go`) | `rotation_targets`, a wait group | deliver to each target, summarise, alert | detached for up to 15 minutes, cut by a stop | every rotation reaches a recorded outcome |
| Capability tokens, proxy, other exits (`capability.go`, `capability/token.go`, `secret_exit_authority.go`) | spent nonces, a request's released secret | issue, verify, spend, release, forward, prune | two uses of one nonce; pruning against expiry; revocation after issue | a token is used at most once; a secret goes only where somebody entitled directed it |
| Vault key (`vault_rekey.go`, `vault_keycheck.go`, `audit_name_crypto.go`, the boot migrations) | every sealed column, the key sentinel | gate, migrate, sweep, reseal, report; every sealed write | a boot that stops half way; two keys at once; a mistyped key | nothing becomes unreadable; "remove the old key" is said only when it is safe |
| Authentication (`auth.go`, `auth_totp_recovery.go`, `middleware/auth.go`, `totp_enrollment.go`) | users, sessions, login attempts, TOTP step, recovery codes | register, login, logout, change password, enrol, disable | one code spent twice; revocation against a request in flight; lockout windows | codes are single-use; a revoked session is dead; the first user alone becomes admin |
| Users, invitations, offboarding (`users.go`, `collection_invitation_claim.go`, `user_offboard.go`) | users, invitations, collection invitations | invite, redeem, claim, delete, transfer | two redemptions; last admin; writes during an offboarding | codes are single-use; one admin remains; no entry is left to a deleted owner |
| Collections and private access (`collections.go`, `private_access.go`) | members, roles, policy | add, remove, accept, decline, promote | promotion against moves and reads | a protected collection is never reached from the public listener |
| Ownership repair and egress authority (`vault_ownership_repair.go`, `vaultegress`, `egressgate`, `secretexit`) | secret owner, host-choosing columns | claim, restore, decide a ticket, exit | a ticket spent on another entry; stale authority | a value leaves only to a host its owner authorised |
| Rate limiter (`middleware/rate_limit.go`) | a visitor per address, a counter, a mutex | allow, admit, evict, recount, sweep | admission at the cap against a sweep without a lock | no more than the limit in a window; the map stays bounded; every request is answered |
| Shield, AI gateway, MCP (`shield`, `ai_gateway.go`, `mcp.go`) | placeholder map, provider pin | redact, restore, forward | streams split inside a placeholder | what is redacted never leaves; what is restored is what was redacted |
| Service secrets, API keys | identities, keys, audit | fetch, create, revoke | revocation races | a revoked identity reads nothing |
| Import, settings, alerts, activity log, configuration, migrations, front end, scripts | rows and files | conversion, I/O | none of a protocol | not candidates, see section 8 |

Interactions.  The sweep and the manual handler share the rotation core
(`vault_rotation_core.go`); the retry and resolve endpoints and the editor write
the same two columns the core writes; all of them meet only in the database.
Delivery and alerts are called by the core; the egress gate is asked before any
of them sends a value or stores a destination.

## 2. Modules

| Module | What it is |
|---|---|
| `RevokeQueue` | The queue in `provider_meta` and the alarm text, as pure operators. |
| `Rotation` | One entry and every handler that can be running on it. |
| `Credential` | What rotating a credential promises; `Rotation` implements it. |
| `RotationLog` | The `rotation_log` column and its overlapping appenders. |
| `Team` | Accounts, invitation codes, collections and their members, with the requests that change them. |
| `Custody` | Who holds an entry, who answers for its secret, which hosts are recorded on it; ownership repair and offboarding. |
| `Capability` | `Custody` composed with the ways a secret leaves: capability tokens, provider calls, deliveries, the AI gateway. |
| `Rekey` | The vault key: the gate at boot, the migrations, the sweep, the operator, and the writers beside them. |
| `Auth` | One account: password, second factor, sessions, API keys, lockout. |
| `RateLimiter` | The per-address limiter, one step per operation on its map, counter and mutexes. |
| `MCRotation`, `MCRotationLog`, `MCTeam`, `MCCapability`, `MCRekey`, `MCAuth`, `MCRateLimiter` | Instances for TLC. |
| `RotationProofs`, `RotationLogProofs`, `TeamProofs`, `SeatProofs`, `CustodyProofs`, `RekeyProofs`, `AuthProofs`, `LimiterProofs` | Theorems. `SeatProofs` extends `TeamProofs`; `CustodyProofs` is about `Custody` and `Capability`. |

`Rotation` uses `RevokeQueue` and refines `Credential`; `Capability` extends
`Custody`.  `Team` and `Custody` meet in accounts and memberships: `Team` says
how they change and keeps the requests that change them, `Custody` keeps only
what a grant reads of them and lets them change by any step `Team` has.
`Rotation`, `Rekey` and `Auth` share no row with each other that both write,
except that a sweep of `Rekey` reseals `provider_meta` and the value: a rotation
in flight then loses its compare-and-swap, as it does to another rotation.

### State of `Rotation` and the code

- `row` is the `vault_entries` row: value, provider, the decrypted
  `provider_meta` (`keyID`, the head marker set, the backlog) and
  `last_rotation_error` by the clauses the code tells apart (structural failure,
  revoke clause with its key list, write-back clause).
- `live`, `minted` are the providers' side: which keys authenticate, which were
  issued.  Providers are external and are modelled from what the adapters send
  and how they read the answer.
- `rot[w]`, `retry[t]`, `edit[e]` are the handlers' local variables: a program
  counter, the snapshot taken at admission, the pass's own copy of the map.
  Between two steps of a handler anything may happen.
- `metaTok` is the compare-and-swap on the `provider_meta` ciphertext: each
  sealing draws a new nonce, so two ciphertexts are equal only when nobody wrote
  in between.  A handler is in `metaTok` while the ciphertext it read is the
  stored one.  The value's swap compares `encrypted_value`; a replaced key never
  becomes the value again, so comparing keys is the same comparison.
- `former`, `managed`, `disclosed` are histories for the properties.

### Actions

| Code | Actions |
|---|---|
| `rotateOneEntry`, `VaultHandler.Rotate` up to the mint | `Snapshot`, `RefuseSpend`, `retryOutstandingRevoke`, `Mint`, `MintFails`, `Generate` |
| `encryptEntrySecret`, `persistRotatedValue` | `EncryptFails`, `persistRotatedValue` |
| `revokeOldKeyAndPersistMeta`, `persistProviderMetaAfterRevoke` | `RevokeOld`, `ReadBack`, `WriteBack` |
| `recordRotationOutcome`, `...Undeliverable`, `recordRotationFailure`, the `recover` | the actions of those names, `Panic` |
| `RetryPendingRevoke`, `casEditProviderMeta`, `clearRevokeHalfOfRotationError` | `RetrySnapshot`, `RetryCall`, `RetryCAS`, `RetryRefetch`, `RetryRecheck`, `RetryClear` |
| `ResolvePendingRevoke` | one action: it is one write transaction |
| `VaultHandler.Update` | `OpenEditor`, then `SaveConfig`, `ChangeProvider` or `PasteCredential` (each the whole transaction, `Commit`), then `ClearMetaWrite`, `EditRecheck`, `EditClear` |
| a stop of the server | `Crash` |

Provider adapters are grouped by how they mint and revoke: `bearer` and
`careful` (id in the URL, 404 counts as gone), `basic` and `b2` (the id is half
of the credential; b2 counts only success as success), `keep` (the predecessor
is left alone), `in_place` (the mint destroys its predecessor and is refused).
They also differ when the answer to a mint has the key and no id
(`MintedWithoutId`, the fault `no_id`): Resend and SendGrid (`bearer`) queue the
predecessor and blank the id, Neon (`careful`) leaves the predecessor live and
says so, Backblaze (`b2`) keeps the old id beside the new secret and says
nothing, and Twilio (`basic`) refuses.

Abstractions.  A key stands for its id, its secret and its revoke URL.  The
backlog is written only by the server, so an unparseable backlog is left out.
Where a recorded id is required at creation (`requiredProviderMeta`) `Init` has
it.  Names, folders, custom fields and sharing of the editor are left out: no
rotation reads them.  A manual rotation's key is visible to its caller, but a
caller is not counted as having been told of a key that has to be revoked.
`managed` has the keys whose id the server was given: a key whose mint answer was
lost, or came without an id, is outside it.  A queued key always has an id, so
the refusal of `ResolvePendingRevoke` for an empty one
(`vault_pending_revoke.go:368`) cannot be expressed.  A key id typed into the
editor is the stored one or that of the pasted value; other strings name no key.

### State of `Team` and the code

- `status`, `role` are the `users` row; `code` is `invitations`; `policy`,
  `member`, `seat` are `collections`, `collection_members` and
  `collection_invitations`.  A seat belongs to an address and may be older than
  the account; a membership belongs to an account, and counts once accepted.
- `via` is a history: which code, the setup or an administrator made an account.
- `req[r]` is a request after the middleware: who it is for, whether the caller
  was an administrator then, by which listener it came, or how far a handler of
  several statements has got.

A transaction is one step, because the DSN asks for `_txlock=immediate`
(`database/db.go`), and so is a statement outside a transaction.  What a handler
learned before its transaction is in `req` and may be stale.  `Doors` names the
routes whose callers an instance has, so that a run can ask its question with
the routes that matter to it.

| Code | Actions |
|---|---|
| `enrichUserContext`; any refusal, error, rollback or stop | `Authenticate`; `Abandon` |
| `AuthHandler.Register` | `Register` (the count), `CreateFirstAdmin`, then the claim |
| `UserHandler.Create`, `claimCollectionInvitationsBestEffort` | `CreateUser`, `ListCollectionInvitationsForEmail`, `ClaimSeat` per seat |
| `UserHandler.Update` | `UpdateUser` (the role), `SetUserDisabled` |
| `UserHandler.Delete` | `DeleteUser`, with the cascade |
| `CreateInvitation`, `DeleteInvitation`, expiry | the actions of those names, `ExpireStaleInvitations` |
| `RedeemInvitation` | `RedeemPreflight`, `RedeemInvitation` |
| `CollectionHandler` | `CreateCollection`, `UpdateCollection`, `DeleteCollection`, `AcceptInvite`, `DeclineInvite`, `AddMember`, `RescindInvitation`, `RemoveMember` |

Abstractions.  No handler modelled here tells an editor from a viewer, or a
vault-only user from a user.  `sensitive_private` and `fully_private` are alike
for the mutations modelled.  Who invited whom is left out, except that the
inviter's account must exist.  Updates of names only are left out.  A
collection made by an import is a `CreateCollection`.  Ids are random and never
used again; no route changes an address, so an address that comes back has
another id.  The order in which a claim writes its seats is left open.
Entries and rotation targets of an account are in `Custody`, its sessions and
keys in `Auth`; the confirmation of the entry count on a deletion and the half of
`UserHasProtectedCollectionImpact` about entries are not modelled.

### `Custody`

`entry[e]` is the `vault_entries` row: holder (`user_id`), recorded owner
(`secret_owner_user_id`), collection, the ceiling of agent destinations, the
provider and the host its settings name, the rotation targets, and the vault
whose blind index its name and address carry.  A target is known by its host and
has a kind, a configurer and, for a Forgejo target, the entry whose secret it
spends as its bearer.  The hosts a provider calls are the one its settings name,
if its adapter has such a setting (`Steerable`), or else its vendor's own
(`Vendor`, possibly none): a fixed vendor, a tenant or self-hosted instance
without a default, and Datadog, which has both, are all instances.  `claim` is
`secret_ownership_claims`, `wired` the settings that point a provider at an
entry, `purge` a purge of a leaver's targets under way.  `claims[u]` is the set
of roles `u` was ever authenticated with: a request carries the role the
middleware saw and may be in flight for any time, so it may act with any of
them, while `instanceAdminByRecord` reads the row.  `chosen` is the history of
who deposited a secret, who added which host to it, and under whose name a
target was saved (`stamps`); `Nobody` in it stands for what a row of before
owners came with.

| Code | Actions |
|---|---|
| `VaultHandler.Create`, `Update`, `MoveToCollection`, `Delete`, `UpdateTargets` | the actions of those names, each one transaction; a save may rename (and adopt), set the ceiling and the provider at once |
| `rotationTargetIdentity`, `rotationTargetAttribution`, `checkAuthTokenAuthority` | operators in `UpdateTargets`: a new place needs the right to direct the secret; another bearer at an old place does not, and makes the saver its configurer |
| `AIGatewayHandler.UpdateConfig` | `UpdateConfig` |
| `ListUnownedEntries`, `diagnoseUnreachableOwner` | operators of those names |
| `ClaimSecretOwnership`, `RestoreSecretOwnership` | the actions, with transfer, disarming and reindexing |
| `PurgeTargetsConfiguredByUser`, `purgeTargetsConfiguredBy` | `StartPurge` with the write that makes it due, `ListVaultEntryTargets`, `PurgeTargets` per entry, `PurgeLost` |
| `hardDeleteCleanup` and the deletion of an account | `HardDelete` |
| role, disable, enable, membership, deletion of a collection | `UpdateUserRole`, `DisableUser`, `EnableUser`, `SetMember`, `RemoveMember`, `DeleteCollection` |

Abstractions.  Hosts are model values: patterns, wildcards and normalisation are
a set of the hosts they match.  A webhook's path, method and template are left
out, and there is one target per host.  A provider's preset is taken to be the
hosts its adapter calls.  Rows of before the owner column, personal or shared,
start with no recorded owner and any ceiling, provider, setting and targets,
with or without a configurer.  A failing read in `diagnoseUnreachableOwner`,
which answers "unknown" (`vault_ownership_repair.go:169`), is left out.
`notify` targets carry no secret and are left out, and so are
`disposeVaultEntriesOnDelete` and `reassignCollectionEntries`, which only tests
reach.

### `Capability`

`token` is what a token's signature carries, `spent` is
`capability_spent_nonces`, `flight[r]` a request between two of its checks,
`sent` and `forwards` histories of what left.  `late` is the history of the one
race the code loses: hosts an exit had read on an entry without an owner when
the entry got one.

| Code | Actions |
|---|---|
| `CapabilityHandler.Issue` with its lookups and `Sign` | `Issue` |
| `Proxy`: verification, the transaction, the exit, the forward | `Verify`, `ProxySnapshot`, the reads of the exit, `Send` |
| `AuthorizeSecretExit`, `ownerRecordedDestinations`: four reads outside a transaction | `ReadPin`, `ReadRow`, `ReadOwner`, `ReadTargets` |
| expiry and `PruneSpentNonces` | `Expire`, `PruneSpentNonces` |
| `providerDo`, `DeliverRotatedKey`, `deliverToWebhook`, the gateway's proxy | the actions of those names |
| `deliverToForgejoSecret`: two exits | `deliverToForgejoSecret` (the bearer, of another entry), `PushRotated` (the rotated value) |
| any refusal, error, hang-up or stop | `Drop` |

Abstractions.  `capability_grants` has no writer in the repository and so never
decides.  Methods and paths of a token are like its hosts and left out.
`capabilityIssuerCanStillUse` here is without the role list (`admin`, `user`) and
the private-access lines beside it, and so allows more than the code.  The name
in a target's `auth_token` may resolve, when it is delivered, to any entry its
configurer can use then.  The check of the host against redirects is in `Send`: what is released for one host
is sent to no other.  `StallsPastMidnight` says whether a request may stall
between its verification and its transaction until the UTC day after its token
expired, when the spent row is pruned: a stall of seconds, if the token expires
just before midnight.  With it `SingleUse` fails (section 6).

### `Rekey`

A stored value is known by the key that opens it.  `entry` has a value, four
sealed metadata fields, the label and the keys its two blind indexes are
computed under; `cell` stands for the sealed columns of the other tables (an
invitation code, a TOTP seed, the relay password, a channel configuration, the
wrapped audit key), with `old` for the key derivation of before; `sentinel` is
`settings.vault_keycheck`; `env` the configured pair of keys; `pc` how far the
boot has come.

| Code | Actions |
|---|---|
| `EnforceVaultKey`, `VerifyVaultKey` | `EnforceVaultKey` |
| `MigrateTOTPSecrets`, `MigrateEncryption`, `BackfillMetadataEncryption`, `BackfillMetadataAtRest` | the actions of those names, the backfills row by row and able to fail |
| `RekeyVault` at boot and on request, `ResealVaultKeycheck` | `RekeyOnBoot`, `SkipRekey`, `VaultKeyRekey`: one immediate transaction |
| `RekeyStatus` | `RekeyStatus` |
| sealed writes of the handlers | `Create`, `UpdateMetadata`, `UpdateVaultEntryName`, `UpdateVaultEntryValue`, `SetProviderMeta`, `SaveSealed`, `loadOrCreateAuditDEK` |
| the operator, a stop | `Reconfigure`, `Crash` |

Abstractions.  AES-GCM is ideal: a value opens under its key and under no other.
A migration that seals ciphertext again as if it were plaintext makes `Nested`.
Each other table has one row: the sweep treats the rows of a column alike.  The
operator writes down what worked: he goes back to the configuration that last
passed the gate, rotates from it, removes its previous key, or mistypes.  A value
is replaced only where the stored one opens (`vault.go:2576`).  A gate that was
overridden seals the sentinel again or fails to and goes on
(`vault_keycheck.go:475`); both are outcomes of `EnforceVaultKey`.

### `Auth`

`user` is the `users` row, `session` the sessions with the `iat` of their token,
`key` the API keys, `fails` the failed attempts still in the window, per scope,
`uncounted` how many re-authentications were let in because the count failed
(`reauthOpen`; a login is refused then),
`req[r]` a handler between reading the row and writing it: a password is hashed
there, for a second or more.  `spent`, `reused` and `dead` are histories.

| Code | Actions |
|---|---|
| `AuthHandler.Login` | `Login`, `UpdatePasswordHash`, `GetUserTOTPState`, `spendTOTPStep`, `ReadRecoveryCodes`, `consumeRecoveryCode`, `generateToken`; a refusal is `RecordFailure` |
| `ChangePassword`, an administrator's reset | `ChangePassword` or `ResetPassword`, `SetPasswordHash`, the cut |
| `invalidateCredentials` | `InvalidateUserSessions`, `RevokeUserSessions`, `RevokeAPIKeysByUser`: three writes, each of which may fail alone |
| `SetInitialPassword` | `SetInitialPassword`, `SetInitialPasswordHash` |
| `TOTPSetup`, `TOTPVerify`, `TOTPDisable` | `TOTPSetup`, `StoreTOTPSecret`; `TOTPVerify`, `GetTOTPSecret`, `EnableTOTP`; `TOTPDisable`, a spent code, `DisableTOTP` |
| API keys | `CreateAPIKey`, `CreateAPIKeyForUser`, `DeleteAPIKey`, `AdminRevoke`, `AdminRevokeAll` |
| disable and enable of the account, the policy, time | `Disable`, `Enable`, `SetPolicy`, `Tick`, `Lapse`, `WindowPasses` |

Abstractions.  A one-time code is a pair of secret and step; the server accepts
the present step and the one before.  The second of the cut is the second of the
clock.  The failures counted per address as well as per account are left out, and
so are the e-mails and the profile.  At most one of the writes of a revocation
fails.  An account without a secret accepts no code here, where the code computes
one from an empty secret (`totp.go:84`); `iat` is read and the session inserted in
one step, where the code reads it just before (`auth.go:1258`).

### `RateLimiter`

`visitors` is the `sync.Map`, `numVisitors` the atomic counter, `admit` the
holder of the mutex, `req` and `sweep` the place of each goroutine.  Every
operation on one of these is a step: `allow`, `Visit`, `admitNewVisitor`,
`evictOldestSample`, `LoadAndDelete`, `Decrement`, `Recount`,
`resyncVisitorCount`, `Store`, `Increment`, and of the sweep `cleanup`,
`SweepDeletes`, `SweepDecrements`.  A request that holds a visitor the map has
dropped counts for nobody (`VisitStale`).  The parsing of the client's address is
left out.

## 3. Properties

| Property | Hazard |
|---|---|
| `CredentialInUseIsLive` | a revoke that runs too early, or at a head that another pass promoted, kills the key in use |
| `QueueNamesOnlyDisplacedKeys` | a map written back late leads the retry endpoint to the key in use |
| `ImplementsCredential` | any of the above, and a revoke that reaches a successor another pass has not stored yet |
| `NeverForgotten` | a live key that no row, no handler and no operator knows of |
| `QueueForgetsNothing` | a write-back of an old copy, a second discharge or a save of an old form drops a key that waits for its revoke |
| `AlarmSettlesOnlyItsKey` | an alarm about one key cleared by the revoke, acknowledgement or discard of another |
| `MismatchedPairIsAlarmed` | an (id, key) pair that authenticates as nobody, or queues the wrong predecessor, behind a clean status, though the provider had answered its id |
| `RetryEnds` | a retry that chases writers for ever |
| `LogIsRecentHistory`, `DroppedOnlyUnderContention` | a lost or repeated history line; an entry dropped without contention |
| `AdminRemains` | administrators demote, disable and delete each other until none is left |
| `SetupOnce` | several registrations pass the count of zero |
| `OneAccountPerCode` | a code redeemed twice, also after its first account was deleted |
| `PendingMatchesSeat` | an invitation that can be accepted after it was withdrawn, or with another role than the one on offer |
| `SeatIsRedeemable` | an invitation its addressee can neither accept nor decline |
| `Consent` | a membership that takes effect without a request of the member |
| `LastManagerStays` | managers leave, remove or demote each other until none is left |
| `ProtectedNeedsPrivate` | a change of access to a protected collection by the public listener |
| `DirectedOnlyByTheEntitled` | a sequence of moves, adoptions, removals and repairs that ends with a stranger in charge of where a secret goes, or a target where no entitled person put one |
| `ClaimNeverRearms` | taking over an orphaned entry revives a host that its former holder chose; the default site of its provider may appear |
| `DiagnosisIsTotal` | a way of losing access that the repair page has no name for |
| `IndexMatchesScope` | an entry that changed vault or holder keeps an index of its old one, and is not found or collides |
| `SingleUse` | two requests spend one token, or one spends it again after an error |
| `SentOnlyWhereDirected` | authority that was withdrawn between two reads of the check, or between the check and the use; a token minted before; a secret that travels as the bearer of another's delivery |
| `TokenNeverBeatsGrant` | the SQL that answers for a token's issuer drifts from the grant in Go |
| `NothingOrphaned` | a crash, a mistyped key or an interrupted rotation leaves a value under a key no longer configured |
| `RemovalAdviceIsSafe` | the old key is declared unneeded while something still needs it |
| `UnreadableIsKept` | a form that shows an unreadable column blank overwrites it |
| `NamesStayDistinct` | two entries of a vault get one name while their indexes are under different keys |
| `FactorSpentOnce` | a one-time or recovery code accepted by two requests |
| `LockoutBounded` | requests that all read the counter before any of them writes it; counts that fail |
| `CutStaysDead` | a session survives a revocation of which one write failed, or comes back with the account |
| `EnrolledLoginPays` | a login that overlaps enrolment and removal skips the second factor |
| `FreshSessionWorks` | the token of a password change is refused by its own cut |
| `ChosenPasswordIsKept` | the door that proves no password replaces one that was chosen meanwhile |
| `LimitHolds` | overlapping first requests of an address each get an entry of their own |
| `OverrunIsTheSweeps` | the counter and the map drift apart |
| `Answered` | an eviction loop that never ends, a mutex that is never released |

Each module has one type invariant.  Those of `RotationLog`, `Custody`,
`Capability`, `Rekey`, `Auth` and `RateLimiter` hold on the instances below too;
the runs are kept for the properties above.

## 4. Runs

Every run finishes within four minutes with two workers.

| Run | Instance | Shows |
|---|---|---|
| `rotation_serial` | 6 keys over a careful and a b2 adapter, a sweep and a retry, backlog of 1, faults of mint, swap, revoke, write-back, delivery, answers without an id; 2.3M states | no key is forgotten, also with the backlog full |
| `rotation_concurrent` | 3 keys, a click, a sweep and a retry at once, lost revoke answers, answers without an id, crashes; 3.1M states | the credential in use stays live; the abstract credential is implemented |
| `rotation_editor` | 4 keys (one pasted or generated), a click and an editor; providers bearer, none, in place, unknown; stale forms; a lost revoke; 3.9M states | across provider changes, pastes and stale forms an alarm is settled only by its own key, and the queue loses no key untold |
| `rotation_pair` | 7 keys over b2, basic and keep adapters, one id that cannot be named and one that cannot be shown, answers without an id; 2.6M states | a mismatched pair is alarmed |
| `rotation_retry_ends` | 2 keys, a sweep, a retry and an editor with current forms, with fairness; 0.08M states | a retry request ends, within its bound |
| `rotation_log` | 4 calls, 2 equal-able entries, cap 2, 2 attempts; 8k states | the log is recent history |
| `team_accounts` | 3 accounts over 2 addresses, two requests at once, a fresh instance, a collection, clearing of seats may fail; 0.5M states | an administrator remains, setup runs once, nobody is made a member without a request of his own |
| `team_members` | the same accounts from 2 codes, one founder, a collection, a standard and a private policy, both listeners; 0.2M states | seats and pending memberships agree, a manager stays, a code makes one account, a protected collection changes hands by the private listener only |
| `custody` | 3 accounts (one founder), 1 collection, 2 entries, 2 hosts, of which one is the default of an adapter with a site, 1 AI provider, 1 purge, 1 token, 2 requests; eight scenarios: people come and go around an entry by removal and deletion, and by being disabled; an editor and others edit its provider and targets, on rows of before owners too; two requests present a token while its issuer comes and goes; the secret leaves on a token, by the other ways, and by the gateway, also from rows of before owners; a bearer is taken from the second entry; 0.42M states | a host is added only by the entitled, repair neither revives a chosen host nor lacks a reason, the indexes follow; a token is used once, its issuer's check never beats the grant, a secret is sent only where the entitled said |
| `rekey` | 3 keys, 2 entries of one vault, 2 names, 5 stores an older release may have left, 2 writes, crashes anywhere, mistyped keys, an override; 6.8M states | no value is stranded, the advice to remove a key is safe, unreadable columns survive, names stay distinct |
| `auth` | 2 requests, 2 passwords, 1 secret, 1 batch of 2 recovery codes, 2 sessions, 1 API key, 1 failing count; four scenarios: the ways a password changes, what else ends a session or a key, the second factor, and its lockout while counts fail; 3.0M states | codes are spent once, cuts hold, the lockout is overrun by no more than what overlaps |
| `limiter` | 2 addresses, 2 requests, a limit of 2, a cap of 1, a sample of 1, with fairness | the limit holds, the map outgrows its cap only by the sweep's late decrements, every request is answered |

Bounds.  The code's limits are 32 stranded keys, 4 attempts and 50 log lines;
the models take them as constants and TLC uses 1, 2 and 2, the least values at
which the limit is hit with something on each side of it (a head and a full
backlog; a first miss and a last one; a log that is full and one that is not).
Three keys are enough for a predecessor, a successor and a third party, four for
a full backlog behind a new head.  The keys also bound the number of rotations:
a provider that has issued them all refuses, as a real quota does.  Symmetry is
over keys where no constant tells them apart and over the calls of the log; no
liveness run uses it.  Deadlock is not checked where all bounds can be used up:
`rotation_log` (calls), `custody` (every row deleted), `auth` and
`limiter` (the clock).

In the team runs two ids share an address, so that it can be deleted and come
back while a seat waits for it; two requests are in flight, which is what every
race of a read against a write needs; two codes let an address return once.
`team_members` has no accounts made by administrators or by setup: there the
claim of the seats is not in the transaction of the account, and
`PendingMatchesSeat` and `LastManagerStays` fail (section 6).  `team_accounts`
has those, and one role, which is all `Consent` tells apart.

`custody` takes one of each thing because its properties
speak of one secret and one path of authority; the second person and the second
request are there for the races, the second host so that an adapter's default
differs from a chosen site, the second entry for a bearer.  Each scenario has the
doors that bear on its question, the people who can use them and the requests it
needs at once (`calls`).  The three keys of `rekey` are a first one, its
successor and a
third for a rotation that begins before the last one was finished, or for a
mistake.  Its operator does not rotate in the boot that also upgrades from a
release without a sentinel (`Moves` lacks `upgrade`); with it
`RemovalAdviceIsSafe` fails (section 6).  `auth` locks after 1 failure (the code
after 5) and tries a swap twice (the code 4 times), again the least values with
something on each side; one count fails (`MaxUncounted`), which is one attempt
past the limit; 2 instants are a step and the one before it, and the
second of a cut and the one before it.  `limiter` has a cap below the number of
addresses, so that every admission evicts, and time for an entry to outlive two
windows.

Fairness.  `Rotation`: weak fairness of each rotation's and each retry's steps.
Every provider call carries a deadline, every statement returns, and no handler
waits for another, so a handler that has begun goes on.  The editor, and the
start of any request, are not assumed to happen.  `RateLimiter`: weak fairness of
every goroutine's next step and of the sweep's deletion once begun, strong
fairness of taking the mutex, because `sync.Mutex` hands itself to a waiter of
more than a millisecond.  That a client comes, that time passes and that the
sweep begins are not assumed.

## 5. Proofs

All for every value of the constants: any number of rotations, retries, editors
and keys, any providers, any set of faults; any number of accounts, entries,
hosts, tokens, vault keys and requests in flight.  The assumptions are the named
ones of the modules (`QueueAssumption`, `RotationAssumption`, `LogAssumption`,
`TeamAssumption`, `CustodyAssumption`, `CapabilityAssumption`,
`RekeyAssumption`, `AuthAssumption`, `LimiterAssumption`): types of the
constants, that `Retriers` and `Editors` are different requests, that an entry
without a provider has no adapter to record an id, that founders
have different addresses, and what a database of the release before looks like:
its values are sealed under that release's one key, and it has no audit key yet,
because the audit key is younger than the sentinel.


- `TypeCorrect`, `StoredCredentialIsLive`, `QueueIsSafe` (`RotationProofs`).
  The goals are not inductive: a pass may write back a map it copied long ago.
  `Safe` says what each copy may name at each program counter.  Before the mint
  and after the store a copy leads nobody to the stored value (`CopySafe`).
  Between the mint and the store the predecessor in the copy *is* the stored
  value, which is harmless, because the swap lets the pass through only if that
  value is replaced in the same step, and because every other pass that copied
  the older value then fails its own swap; meanwhile its successor is live and
  was never stored, and two such successors differ (`SuccessorsDiffer`), so no
  revoke reaches it.  One lemma per action shows `Safe` preserved.
- `Refinement` (`RotationProofs`): `Spec => Cred!Spec`.  From the same
  invariant, each revoke is a `Retire`, each mint an `Issue`, each store or paste
  an `Adopt`, and everything else a stutter.
- `AlarmsSettleTheirOwnKey`, `QueuedKeysAreKept` (`RotationProofs`), for one
  rotation in flight at a time (`OneRotator`), with any number of requests and
  editors and any faults.  `Accounted` relates each copy of the map to the stored
  one: a pass's copy carries every stored key that is live and undisclosed, until
  its write-back; a request that still holds the stored ciphertext differs from it
  by the key it settled, and that key is dead; every live key the alarm names is on
  the queue or disclosed; a queue without a head is empty, so that discarding what
  the head leads to discards all of it.
- `MismatchesAreAlarmed` (`RotationProofs`), for one rotation at a time, without
  editors (`Undisturbed`), where no outcome is lost (`OutcomesAreRecorded`: no
  crash, no failing record, no panic in a manual rotation).  `Owned` says that a
  pass's provider and predecessor are the stored ones until its store, and its
  successor and id after it; `Paired` that a mismatch is alarmed or behind a pass
  that has yet to write the id or the alarm, unless the stored value is one whose
  id the provider never answered (outside `managed`): Backblaze then keeps the old
  id without an alarm, and the statement without that exception is false
  (section 6).
- `NoKeyIsForgotten` (`RotationProofs`), for one rotation at a time, without
  editors, where every adapter records the ids it is given and every pass ends in a recorder that
  says all it holds (`PassesAreFinished`: no crash, no panic, no unreadable
  targets, no failing encryption of a manual rotation).  Mints, revokes, the
  store, the write-back and the record may fail, and an answer may have no id: the
  predecessor is then still the recorded id, beside a value outside `managed`.
  `Ledger` says who knows of the live managed keys at each place of a pass.
  Section 6 shows what happens without
  these hypotheses.
- `LogKeepsHistory`, `DropsArePaidFor` (`RotationLogProofs`).  The second needs
  `MissesArePaidFor`: a failed attempt is paid for by an append of somebody else
  since the read, so attempts never exceed appends.

- `TypeCorrect`, `AdminAlwaysRemains`, `SetupRunsOnce`, `CodeMakesOneAccount`
  (`TeamProofs`), for any set of accounts, codes, requests and routes.
  `AccountInv` adds what the history says about the rows: an account with a
  history is or was there, an account made by a code finds the code redeemed, and
  a fresh instance has made nothing.  Because deletion needs a second
  administrator, an instance that was set up never counts zero users again,
  which is why a late registration finds the count changed.
- `PendingIsOnOffer`, `SeatsCanBeAnswered`, `ManagersStay` (`SeatProofs`), where
  accounts come from codes (`ClaimsAreAtomic`), the second also only where
  seats can be cleared.  The invariant needs that an address has one account at
  a time and that memberships and seats belong to rows that exist: a membership
  left behind by a deleted account would be a seat for its successor.  Without
  `ClaimsAreAtomic` the statements are false (section 6).
- `ProtectionHolds` (`SeatProofs`), under `ClaimsAreAtomic` too: a late claim
  rewrites the role of a membership accepted meanwhile, by whichever listener the
  account was made (section 6).  A redemption changes no access because a
  membership belongs to an account that exists, so a new account has none; a
  deletion changes none unless `UserHasProtectedCollectionImpact` saw it.
- `AccessNeedsConsent`, on every route, with no such restriction.
- `CustodyTypeCorrect`, `OnlyTheEntitledDirect`, `IndexesFollowTheRow`,
  `EveryLostOwnerIsDiagnosed`, `TheGrantBoundsTheToken`, `ClaimsDisarm`,
  `CapabilityTypeCorrect`, `TokensAreSpentOnce`, `SecretsGoWhereDirected`
  (`CustodyProofs`), of the composed specification.  The invariant is about rows:
  the recorded owner deposited the secret or was an administrator (`Backed`), a
  host on record was put there by such a person or is inert for want of an owner
  (`Armed`), where a target stands one of them put it or the row of before owners
  brought it and whoever it names as its configurer saved it (`Posted`), a row
  with other hosts has no owner and never had a claim (`Ownerless`), the indexes are those of the row's vault (`Indexed`); a purge
  under way holds only targets that were recorded (`Purging`), and a setting
  points at an entry only if its provider's host was chosen for it (`Wiring`).
  `claims` only grows, which is what lets a request act late on a role it no
  longer has.  For `TokensAreSpentOnce` a presented token is spent, or its nonce
  can still be refused: pruning takes only nonces of tokens that nobody can
  present again, which needs that no request stalls past midnight (section 6).
  For `SecretsGoWhereDirected` each place of an exit is bound to what it has read:
  a host about to be sent to was directed, or had a target saved at it by somebody
  entitled, or was overtaken by a claim (`Led`, `Stamped`); one that is recorded
  and waits for the owner's read is such a host, or the row had no owner
  (`Pending`); a delivery carries the name of who saved its target (`Cleared`,
  `Bound`).  It has no
  hypothesis; the three ways in which it says less than the comment in the code
  are in its formula and in section 6.
- `TypeCorrect`, `CiphertextIsKept`, `NamesNeverCollide`, `NothingIsOrphaned`,
  `AdviceIsSafe` (`RekeyProofs`).  Every step rewrites rows in the same way
  (`Rewriting`): each value is kept or sealed under the current key, a column that
  does not open is kept, and a name is kept, is the entry's own id, or is one that
  the scope does not have; in that last case one row changes.  The first three
  follow from this alone.  The other two need `Inv`: the sentinel is the last
  value to change keys, so when it is under the current key everything is
  (`Swept`); a process runs under the configuration that passed the gate
  (`Booted`); a new key is new (`Ringed`); a store without a sentinel is as the
  older release left it (`Fresh`).  The lemma about the gate goes through the
  four configurations a boot can meet.  These two assume that the operator does
  not rotate in the upgrading boot (`"upgrade" \notin Moves`); with it they are
  false (section 6).
- `TypeCorrect`, `FactorsAreSpentOnce`, `LockoutsAreBounded`,
  `CutSessionsStayDead`, `EnrolledLoginsPay`, `FreshSessionsWork`,
  `ChosenPasswordsAreKept` (`AuthProofs`).  The invariant says what a request
  knows at each of its places (`Informed`), that a spent step is not above the
  last step and a spent recovery code in no stored set (`Spending`), that no cut
  and no session is later than the clock (`Dated`), that a dead session has lost
  its row or lies before a cut (`Buried`), and that failures are paid for by
  requests that were let in below the limit or past a count that failed
  (`Counted`).
- `TypeCorrect`, `LimitAlwaysHolds`, `CapOverrunIsTheSweeps` (`LimiterProofs`).
  One goroutine holds the mutex (`Exclusive`); an admission stores an entry that
  is not there (`Newcomer`); a window's grants are at most its count (`Charged`);
  the counter is the size of the map, but for the additions and subtractions
  that are under way and the recounts that fell between two of them (`Counted`,
  `Roomy`).

Only model-checked: `RetryEnds` and `Answered`, since liveness under fairness is
outside the prover's reach.  None of these modules has a `RECURSIVE` operator.

## 6. What the repository says and the code does not keep

Each of these was met while modelling.  The formula is in the module; a
configuration that checks it is the run's own with the change named, and TLC
then shows a behaviour of the length given.

| Formula, run, change | What is said | What happens |
|---|---|---|
| `NeverForgotten`, `rotation_concurrent`, `Fault = {}` (13 states) | "So the product always names one key at a time, but it never FORGETS one." (`vault_pending_revoke_history.go:25`) | `SetProviderMeta` in the write-back is unconditional (`vault_rotation_core.go:359`). A pass whose snapshot fell between another's store and write-back has the new value with the old id and queue; its own write-back replaces the other's queue, and the key it replaced was never queued. |
| `NeverForgotten`, `rotation_retry_ends`, 4 keys, `Fault = {}`, bearer only (15) | the same | A credential pasted with its id between a pass's read and its write of the map has the rotated key's id written over its own. The next rotation queues the wrong predecessor, and the pasted key is on no queue. |
| `AlarmSettlesOnlyItsKey`, `rotation_concurrent`, 4 keys, no retry, `Fault = {"revoke"}` (25) | "it never FORGETS one", as above | After such an overlap the alarm names a key that the stored queue has lost; the outcome of the next pass overwrites the alarm, and the live key is named nowhere. |
| `MismatchedPairIsAlarmed` without `row.value \notin managed`, `rotation_pair`, `Fault = {"no_id"}` (9); `NeverForgotten` without its last disjunct, `rotation_serial`, `Fault = {"no_id"}` (5) | "leaving meta["key_id"] as the OLD id would pair it with the NEW secret and break auth on the very next Validate/Rotate" (`vault_providers.go:1890`) | Backblaze records the id only if the answer has one (1897) and succeeds either way: the new secret is stored beside the old id, nothing is queued and no alarm is raised. Twilio refuses such an answer and Neon warns. |
| `UndeliverablePredecessorIsDead`, `rotation_serial`, `Fault` with `"unreadable"` (9) | "The value IS rotated and the predecessor IS revoked" (`vault.go:4049`) | When the targets do not decrypt, the revoke warning is cleared whatever the revoke did (`vault.go:4052`). The queue still has the key; the column and the alert do not. |
| `PendingMatchesSeat`, `team_accounts`, as it is (14) | "or the invitation would still be acceptable after the manager withdrew it" (`collections.go:890`) | An account made by an administrator or by setup gets its seats in statements after its insert. A seat withdrawn between their read and their write is claimed all the same, and no list of seats shows it. The write is also an upsert of the role it read, without the last-manager check. |
| `ProtectedNeedsPrivate`, `team_members`, `Doors` with `"create_user"`, no codes (12) | "anything that reveals, changes, spends, rotates, delegates, or changes access to a secret is a sensitive operation" (`private_access.go:18`) | The same late claim rewrites the role of a membership that was accepted meanwhile, with no question about the listener. |
| `AuthorisedAtWrite`, `team_accounts`, as it is (15) | "so a concurrent demotion/removal cannot land between the authorization check and the write it authorized" (`collections.go:72`) | `roleWithQueries` takes an administrator's role from the context, where the middleware put it before the transaction. |
| `DiagnosisTrue`, `custody`, as it is (6) | "an owner who is neither has lost the flag" (`vault_ownership_repair.go:234`) | An owner whose entry was moved or adopted away, and who never was an administrator, is reported as one who lost the role. |
| `ProviderCanBeCleared`, `custody`, as it is (3) | "An empty id clears the provider." (`ai_gateway.go:677`) | `UpdateConfig` requires the entry the setting points at (743); deleting that entry leaves the setting (`vault.go:3357`), and from then on it can be neither cleared nor replaced by this route. |
| `PurgeNarrows`, `custody`, a scenario `Editors` with both hosts (5) | "A purge only ever REMOVES, and it proves that rather than asserting it" (`vault_target_purge.go:67`) | The list is read outside the transaction that writes it; a target removed meanwhile is written back. |
| `SingleUse`, `custody`, `StallsPastMidnight = TRUE` (15) | "single-use" (`capability/token.go:51`) | Expiry is checked before the transaction that spends the nonce. A request that stalls there until the UTC day after its token expired finds the spent row pruned. A token that expires just before midnight needs a stall of seconds. |
| `SentOnlyWhereDirected` without `late`, `custody`, as it is (8) | "so a repair cannot silently re-arm a host the previous holder chose" (`secret_exit_authority.go:225`) | The exit reads the row and its owner in two statements (247, 254). A claim that lands between them clears the hosts and becomes the owner: the hosts read before count on his authority, once. |
| `SentOnlyWhereDirected` with `HardDelete` leaving `chosen` as it is, `custody`, as it is (11) | the same | Deleting the holder of a row of before the owner column transfers it to the deleting administrator (`user_offboard.go:386`) without the clearing that a claim does; the hosts that were on record count again, with him as their authority. |
| `ClaimNeverRearms` without the adapter's default, `custody`, as it is (2) | the same | Clearing Datadog's site makes the adapter fall back to `api.datadoghq.com` (`egress_authority.go:295`), which the secret could not go to before. The code knows: "Added() sees a host that was not there before" (`vault_ownership_repair.go:982`). |
| `RehashKeepsPassword`, `auth`, as it is (5) | "that rewrites the hash of a password the owner just typed, it does not set a new one" (`db/users.sql.go:552`) | The upgrade of a bcrypt hash during a login writes unconditionally (`auth.go:477`): a password changed while the old one was being hashed is set back. |
| `HardCap`, `limiter`, as it is (23) | "maxVisitors hard-caps the number of distinct IPs a RateLimiter tracks at once." (`rate_limit.go:86`) | A recount between the sweep's deletion and its decrement makes the counter one too small for good, once per such event. |
| `RemovalAdviceIsSafe`, `rekey`, `Moves` with `"upgrade"` (3) | "Every value in this store is now sealed under the current key" (`vault_keycheck.go:454`) | On a store without a sentinel `VerifyVaultKey` seals it under the current key although only the previous one opened anything (101 to 109), and the boot log then says the previous key may go. |

Observations without a formula.  Rotation: the write-back compares the provider
and writes the map in two statements, so an update between them gets the old
provider's map written over it; `MismatchedPairIsAlarmed` needs one rotation at
a time and a server that does not stop between store and record; a panic in a
sweep, and a stop of the server, lose what only the pass's map named, and a panic
in a manual rotation records nothing at all; undeliverable targets leave out a
predecessor that could not be queued; a manual
rotation whose encryption fails records nothing although a key was minted; a form
opened before a rotation and saved after it puts the old id back; saving any
other field of the map clears the write-back alarm; a recorded failure replaces
an earlier revoke alarm (the queue keeps the key); a detached delivery is cut off
by a restart; the comment in `casEditProviderMeta` speaks of rotation comparing
`updated_at`, where the swap compares the ciphertext.  Team: deleting an account
takes its memberships along and asks about the last administrator only, so a
collection may be left without a manager until an administrator appoints one.
Custody: an editor who only changes the bearer of a target becomes its recorded
configurer, as `TestUpdateTargetsStampsConfiguringUser` wants it, and the target
then delivers nothing, because an editor may not direct the secret.
Rekey: a store whose only sealed value is a channel
configuration, or whose only seed is plaintext, is refused under the right key
when it has no sentinel; `loadOrCreateAuditDEK` mints a new key on any read
error.  Auth: a login in flight opens its session after a cut, and an API key
being made is made after a revocation; a password change overwrites a reset that
landed while it was hashing, and counts no failures; a setup in flight replaces
the secret an account has just enrolled with; a verification that overlaps a
removal leaves the account enrolled without a secret; enrolment does not spend the
step of its code.  Limiter: the sweep tests an entry and deletes it by its key
later, and so may drop one whose window was just renewed.

## 7. Plan

Done: the rotation engine with its queue, alarm and log; the team; custody with
the ways out of the vault; the vault key; one account's authentication; the
limiter; and the proofs of section 5.

Left:

1. `Delivery`: the wait group and the drain of a shutdown; every stored rotation
   reaches a recorded outcome unless the server is killed.
2. Private access of entries: moves into and reads out of a collection that
   becomes protected.
3. An abstract "permission used at most once while it is held" that `Capability`
   implements.

## 8. Not modelled

- Shield (`shield`): reversible redaction of the text of one request, a
  conversion of strings with no second actor.
- MCP server: a transport over the capability and vault handlers, with their
  checks; its framing is I/O.
- Service secrets: a fetch makes every check again at the exit from rows it does
  not write, so that a model would restate its guards.  Service identities are
  missing from the offboarding in `Auth` and `Team` for the same reason.
- Import and export: conversion of formats around the inserts that are modelled.
- Alerts, expiry notifications and e-mail: dispatch without an answer.
- Activity log: rows that are appended and never read by anything that decides.
- Reads of protected entries by the private listener, and the confirmation of
  counts on deletions (planned, see section 7).
- The drain of the shutdown (planned).
- HTTP parsing, response bodies, the requests of the adapters, host patterns,
  streaming of the gateway; password hashing and sealing, which are libraries
  and used as ideal; configuration other than the vault keys; schema migrations
  and listing queries; the front end and the shell scripts.
