------------------------------- MODULE Rekey -------------------------------
(* The vault key: which key every stored value is sealed under, the gate a   *)
(* boot passes, the migrations that follow it, the re-encrypt sweep, and the *)
(* operator who changes the configured keys between two boots.               *)
(*                                                                           *)
(* A value is known by the key that opens it.  The sweep is one immediate    *)
(* transaction and so one step; the boot is not, and may stop anywhere.      *)
(* Writers seal under the current key, readers try it and then the previous. *)
EXTENDS Naturals, FiniteSets

CONSTANTS
    Keys,        \* vault keys an operator may configure
    FirstKey,    \* the key of the release before this one
    NoKey,       \* no previous key configured; no index token; no sentinel
    Entries,     \* vault entry ids
    ScopeOf,     \* the vault scope of an entry: its collection or its holder
    Labels,      \* names a user gives
    Stores,      \* databases the release before this one may have left
    Moves,       \* what the operator does between two boots
    MaxWrites    \* bound: writes served in a behaviour

Fields == {"name", "url", "notes", "conf"}
Cells == {"invite", "totp", "smtp", "channel", "dek"}
Empty == "empty"
Plain == "plain"
Nested == "nested"     \* ciphertext sealed again as if it were plaintext
Unborn == [state |-> "unborn"]
Tokens == {NoKey} \cup (Keys \X (Labels \cup Entries))
Rows == {Unborn} \cup
    [state : {"live"}, value : Keys, old : BOOLEAN,
     seal : [Fields -> Keys \cup {Empty, Plain}], label : Labels \cup Entries,
     urlIdx : Keys \cup {NoKey}, nameIdx : Tokens]
CellRows == [seal : Keys \cup {Empty, Plain, Nested}, old : BOOLEAN]
Rings == [cur : Keys, prev : Keys \cup {NoKey}]

ASSUME RekeyAssumption ==
    /\ FirstKey \in Keys
    /\ NoKey \notin Keys \cup {Empty, Plain, Nested}
    /\ {Empty, Plain, Nested} \cap Keys = {}
    /\ Labels \cap Entries = {}
    /\ DOMAIN ScopeOf = Entries
    /\ Stores \subseteq [entry : [Entries -> Rows], cell : [Cells -> CellRows]]
    /\ \A s \in Stores :
          /\ \A e \in Entries : s.entry[e] # Unborn =>
                /\ s.entry[e].value = FirstKey
                /\ \A f \in Fields : s.entry[e].seal[f] \in {FirstKey, Empty, Plain}
                /\ s.entry[e].label \in Labels \cup {e}
          /\ \A c \in Cells : s.cell[c].seal \in {FirstKey, Empty, Plain}
          /\ s.cell["dek"].seal = Empty    \* younger than the sentinel
    /\ MaxWrites \in Nat
    /\ Moves \subseteq {"rotate", "remove", "mistype", "override", "upgrade", "backfill_fails"}

VARIABLES
    entry,      \* vault_entries
    cell,       \* the sealed values of the other tables
    sentinel,   \* settings vault_keycheck: the key it opens under
    env,        \* the keys the process is configured with
    pc,         \* how far the process has booted
    todo,       \* rows the running backfill has not come to
    advice,     \* the process said the previous key may be removed
    writes,     \* bound: writes served so far
    good,       \* history: the configuration that last passed the gate
    used,       \* history: keys some boot ran under
    forfeit     \* history: the operator overrode the gate

store == <<entry, cell>>
history == <<good, used, forfeit>>
vars == <<entry, cell, sentinel, env, pc, todo, advice, writes, good, used, forfeit>>

(* Every variable holds a value of the column or the setting it models. *)
TypeOK ==
    /\ entry \in [Entries -> Rows]
    /\ cell \in [Cells -> CellRows]
    /\ sentinel \in Keys \cup {NoKey}
    /\ env \in Rings /\ good \in Rings
    /\ pc \in {"down", "totp", "v1", "conf", "rest", "rekey", "serving"}
    /\ todo \subseteq Entries
    /\ advice \in BOOLEAN /\ forfeit \in BOOLEAN
    /\ used \subseteq Keys
    /\ writes \in 0..MaxWrites

Init ==
    /\ \E s \in Stores : entry = s.entry /\ cell = s.cell
    /\ sentinel = NoKey
    /\ env = [cur |-> FirstKey, prev |-> NoKey]
    /\ pc = "down"
    /\ todo = {}
    /\ advice = FALSE
    /\ writes = 0
    /\ good = env
    /\ used = {FirstKey}
    /\ forfeit = FALSE

Live == {e \in Entries : entry[e] # Unborn}
Ring == {env.cur, env.prev} \ {NoKey}
Rotating == env.prev # NoKey
Opens(seal) == seal \in Ring
Readable(seal) == seal \in Ring \cup {Empty, Plain}
SameScope(d, e) == ScopeOf[d] = ScopeOf[e]

-----------------------------------------------------------------------------
(* Sealing and the blind indexes. *)

encryptColumn(x) == env.cur
encryptColumnIfNeeded(seal) == IF seal = Plain THEN env.cur ELSE seal
urlBlindIndex(seal) == IF seal = Empty THEN NoKey ELSE env.cur
scopedNameBlindIndex(label) == <<env.cur, label>>

(* The unique index on a scope's non-empty tokens. *)
TokenTaken(e, token) ==
    \E d \in Live \ {e} : SameScope(d, e) /\ entry[d].nameIdx = token /\ token # NoKey

(* Mutant: only the token under the current key is compared. *)
CurrentTokenOnly(e, label) == TokenTaken(e, scopedNameBlindIndex(label))

(* Opens every name of the scope; one that does not open fails the check. *)
vaultEntryNameExistsInScope(e, label) ==
    \E d \in Live \ {e} : SameScope(d, e) /\ entry[d].label = label
NamesOpen(e) == \A d \in Live \ {e} : SameScope(d, e) => Readable(entry[d].seal["name"])

-----------------------------------------------------------------------------
(* The operator, while the process is down. *)

Configure(ring) ==
    /\ pc = "down"
    /\ env' = ring
    /\ UNCHANGED <<entry, cell, sentinel, pc, todo, advice, writes, history>>

Reconfigure ==
    \/ Configure(good)
    \/ /\ "rotate" \in Moves
       /\ sentinel # NoKey \/ "upgrade" \in Moves
       /\ \E k \in Keys \ used : Configure([cur |-> k, prev |-> good.cur])
    \/ /\ "remove" \in Moves
       /\ Configure([cur |-> good.cur, prev |-> NoKey])
    \/ /\ "mistype" \in Moves
       /\ \E k \in Keys \ used : Configure([cur |-> k, prev |-> NoKey])

Crash ==
    /\ pc # "down"
    /\ pc' = "down" /\ todo' = {} /\ advice' = FALSE
    /\ UNCHANGED <<entry, cell, sentinel, env, writes, history>>

-----------------------------------------------------------------------------
(* The gate. *)

AnyEncryptedVaultEntry == {entry[e].value : e \in Live}
AnyEncryptedColumnSample == {c \in {"smtp", "invite", "channel"} : cell[c].seal # Empty}

(* Mutant: only vault entries and seeds are looked for. *)
EntriesAndSeeds == AnyEncryptedVaultEntry # {} \/ cell["totp"].seal # Empty

(* A stored seed and a stored relay password count as ciphertext whatever    *)
(* they are; a channel config counts and cannot be tried.                    *)
HasCiphertext ==
    \/ AnyEncryptedVaultEntry # {}
    \/ cell["totp"].seal # Empty
    \/ \E c \in AnyEncryptedColumnSample : c = "smtp" \/ cell[c].seal # Plain

vaultKeyOpensExistingData ==
    \/ \E s \in AnyEncryptedVaultEntry : Opens(s)
    \/ Opens(cell["totp"].seal)
    \/ \E c \in AnyEncryptedColumnSample \ {"channel"} : Opens(cell[c].seal)

VerifyVaultKey ==
    IF sentinel = NoKey THEN HasCiphertext => vaultKeyOpensExistingData
    ELSE Opens(sentinel)

SealedSentinel == IF sentinel = NoKey THEN env.cur ELSE sentinel
SentinelOnPreviousKey == Rotating /\ SealedSentinel = env.prev

PassGate ==
    /\ good' = env
    /\ used' = used \cup Ring
    /\ pc' = "totp"
    /\ UNCHANGED <<entry, cell, env, todo, writes>>

EnforceVaultKey ==
    /\ pc = "down"
    /\ \/ /\ VerifyVaultKey
          /\ sentinel' = SealedSentinel
          /\ advice' = (Rotating /\ ~SentinelOnPreviousKey)
          /\ UNCHANGED forfeit
       \/ /\ ~VerifyVaultKey
          /\ "override" \in Moves
          /\ sentinel' \in {env.cur, sentinel}  \* a re-seal that fails is only logged
          /\ forfeit' = TRUE
          /\ UNCHANGED advice
    /\ PassGate

-----------------------------------------------------------------------------
(* The boot migrations. *)

MigratedSeed(row) ==
    IF row.seal = Empty THEN row
    ELSE IF row.seal = Plain \/ (row.old /\ Opens(row.seal)) THEN [seal |-> env.cur, old |-> FALSE]
    ELSE IF row.old THEN [seal |-> Nested, old |-> FALSE]
    ELSE row

MigrateTOTPSecrets ==
    /\ pc = "totp"
    /\ cell' = [cell EXCEPT !["totp"] = MigratedSeed(@)]
    /\ pc' = "v1"
    /\ UNCHANGED <<entry, sentinel, env, todo, advice, writes, history>>

V1Rows == {e \in Live : entry[e].old}

MigrateEncryption ==
    /\ pc = "v1"
    /\ IF \A e \in V1Rows : Opens(entry[e].value)
       THEN /\ entry' = [e \in Entries |-> IF e \in V1Rows
                             THEN [entry[e] EXCEPT !.value = env.cur, !.old = FALSE]
                             ELSE entry[e]]
            /\ pc' = "conf" /\ todo' = Live
            /\ UNCHANGED advice
       ELSE /\ pc' = "down" /\ advice' = FALSE
            /\ UNCHANGED <<entry, todo>>
    /\ UNCHANGED <<cell, sentinel, env, writes, history>>

NextPhase == IF pc = "conf" THEN "rest" ELSE "rekey"

BackfillMetadataEncryption(e) ==
    /\ pc = "conf" /\ e \in todo
    /\ todo' = todo \ {e}
    /\ entry' = [entry EXCEPT ![e].seal["conf"] = encryptColumnIfNeeded(@)]
    /\ UNCHANGED <<cell, sentinel, env, pc, advice, writes, history>>

(* The row as its metadata backfill leaves it, under the given name. *)
AtRest(r, label, name) ==
    [r EXCEPT !.seal = [f \in Fields |-> IF f = "conf" THEN r.seal[f]
                                         ELSE IF f = "name" THEN name
                                         ELSE encryptColumnIfNeeded(r.seal[f])],
              !.label = label,
              !.urlIdx = urlBlindIndex(r.seal["url"]),
              !.nameIdx = scopedNameBlindIndex(label)]

(* A name the scope already has is made the entry's own. *)
metadataBackfillDuplicateName(e) == e

BackfillMetadataAtRest(e) ==
    /\ pc = "rest" /\ e \in todo
    /\ todo' = todo \ {e}
    /\ LET r == entry[e] IN
       entry' = [entry EXCEPT ![e] =
           IF ~Readable(r.seal["url"]) \/ ~Readable(r.seal["name"]) THEN r
           ELSE IF TokenTaken(e, scopedNameBlindIndex(r.label))
                THEN AtRest(r, metadataBackfillDuplicateName(e), env.cur)
                ELSE AtRest(r, r.label, encryptColumnIfNeeded(r.seal["name"]))]
    /\ UNCHANGED <<cell, sentinel, env, pc, advice, writes, history>>

(* A backfill that ran out, or failed on a row, is logged and left. *)
BackfillEnds ==
    /\ pc \in {"conf", "rest"}
    /\ todo = {} \/ "backfill_fails" \in Moves
    /\ pc' = NextPhase
    /\ todo' = IF pc = "conf" THEN Live ELSE {}
    /\ UNCHANGED <<entry, cell, sentinel, env, advice, writes, history>>

-----------------------------------------------------------------------------
(* The sweep. *)

keyAge(seal) ==
    CASE seal \in {Empty, Plain, Nested} -> "unkeyed"
      [] seal = env.cur -> "current"
      [] seal = env.prev -> "previous"
      [] OTHER -> "unknown"

Seals(r) == {r.value} \cup {r.seal[f] : f \in Fields}
Stored ==
    (UNION {Seals(entry[e]) : e \in Live})
        \cup {cell[c].seal : c \in Cells} \cup ({sentinel} \ {NoKey})

ValuesUnreadable == \E s \in Stored : keyAge(s) = "unknown"
ValuesOnPrevious == \E s \in Stored : keyAge(s) = "previous"

WantName(e) == scopedNameBlindIndex(entry[e].label)
NameCurrent(e) == entry[e].nameIdx = WantName(e)
classifyNameBlindIndex(e) ==
    IF NameCurrent(e) THEN "current"
    ELSE IF TokenTaken(e, WantName(e)) THEN "collided" ELSE "stale"
classifyBlindIndex(e) ==
    IF entry[e].urlIdx = urlBlindIndex(entry[e].seal["url"]) THEN "current" ELSE "stale"
ValuesStale == \E e \in Live : "stale" \in {classifyBlindIndex(e), classifyNameBlindIndex(e)}

(* Of the rows of a scope that want one token the first to be scanned gets   *)
(* it: the rows that hold some token are scanned before those with none.     *)
Rivals(e) == {d \in Live : SameScope(d, e) /\ entry[d].label = entry[e].label
                           /\ classifyNameBlindIndex(d) = "stale"}
MayClaim(W) ==
    \A e \in Live : classifyNameBlindIndex(e) = "stale" =>
        /\ Cardinality(W \cap Rivals(e)) = 1
        /\ e \in W /\ entry[e].nameIdx = NoKey => \A d \in Rivals(e) : entry[d].nameIdx = NoKey

Converted(seal) == IF keyAge(seal) = "previous" THEN env.cur ELSE seal
ConvertedRow(row) ==
    CASE keyAge(row.seal) = "previous" -> [seal |-> env.cur, old |-> FALSE]
      [] OTHER -> row
(* A channel config also leaves the old derivation. *)
ConvertedChannel(row) ==
    IF row.seal \in Keys THEN [seal |-> env.cur, old |-> FALSE] ELSE row

scanVaultEntries(W) ==
    [e \in Entries |-> IF e \notin Live THEN entry[e] ELSE
        [entry[e] EXCEPT
            !.value = Converted(@),
            !.old = FALSE,
            !.seal = [f \in Fields |-> Converted(entry[e].seal[f])],
            !.urlIdx = urlBlindIndex(entry[e].seal["url"]),
            !.nameIdx = IF e \in W THEN WantName(e) ELSE @]]

(* Mutant: the wrapped audit key is not among the surfaces. *)
SkipsAuditKey(W) ==
    /\ entry' = scanVaultEntries(W)
    /\ cell' = [c \in Cells |-> IF c = "dek" THEN cell[c]
                                ELSE IF c = "channel" THEN ConvertedChannel(cell[c])
                                ELSE ConvertedRow(cell[c])]

applyPlan(W) ==
    /\ entry' = scanVaultEntries(W)
    /\ cell' = [c \in Cells |-> IF c = "channel" THEN ConvertedChannel(cell[c])
                                ELSE ConvertedRow(cell[c])]

ResealVaultKeycheck == sentinel' = env.cur

RekeyVault ==
    /\ ~ValuesUnreadable
    /\ ~(ValuesOnPrevious /\ ~Rotating)
    /\ \E W \in SUBSET {e \in Live : classifyNameBlindIndex(e) = "stale"} :
          MayClaim(W) /\ applyPlan(W)
    /\ ResealVaultKeycheck
    /\ advice' = Rotating
    /\ UNCHANGED <<env, todo, writes, history>>

RekeyOnBoot ==
    /\ pc = "rekey"
    /\ \/ RekeyVault /\ pc' = "serving"
       \/ /\ ValuesUnreadable
          /\ pc' = "down" /\ advice' = FALSE
          /\ UNCHANGED <<entry, cell, sentinel, env, todo, writes, history>>

SkipRekey ==
    /\ pc = "rekey"
    /\ pc' = "serving"
    /\ UNCHANGED <<entry, cell, sentinel, env, todo, advice, writes, history>>

VaultKeyRekey == pc = "serving" /\ RekeyVault /\ UNCHANGED pc

(* The status page: already_current. *)
RekeyStatus ==
    /\ pc = "serving" /\ Rotating /\ ~advice
    /\ ~ValuesUnreadable /\ ~ValuesOnPrevious /\ ~ValuesStale
    /\ advice' = TRUE
    /\ UNCHANGED <<entry, cell, sentinel, env, pc, todo, writes, history>>

-----------------------------------------------------------------------------
(* Writers, while the process serves. *)

Serving ==
    /\ pc = "serving"
    /\ writes < MaxWrites
    /\ writes' = writes + 1
    /\ UNCHANGED <<sentinel, env, pc, todo, advice, history>>

Create(e, label) ==
    /\ Serving
    /\ e \notin Live
    /\ NamesOpen(e) /\ ~vaultEntryNameExistsInScope(e, label)
    /\ ~TokenTaken(e, scopedNameBlindIndex(label))
    /\ entry' = [entry EXCEPT ![e] =
           [state |-> "live", value |-> env.cur, old |-> FALSE,
            seal |-> [f \in Fields |-> env.cur], label |-> label,
            urlIdx |-> env.cur, nameIdx |-> scopedNameBlindIndex(label)]]
    /\ UNCHANGED cell

(* Mutant: the check runs after the columns were replaced. *)
InspectsItsOwnWrite(e) == FALSE
anyMetaColumnUndecryptable(e) == \E f \in {"url", "notes"} : ~Readable(entry[e].seal[f])

(* A save of the edit form resubmits every metadata column. *)
UpdateMetadata(e) ==
    /\ Serving
    /\ e \in Live /\ ~anyMetaColumnUndecryptable(e)
    /\ entry' = [entry EXCEPT ![e].seal["url"] = encryptColumn(@),
                              ![e].seal["notes"] = encryptColumn(@),
                              ![e].urlIdx = env.cur]
    /\ UNCHANGED cell

UpdateVaultEntryName(e, label) ==
    /\ Serving
    /\ e \in Live /\ ~anyMetaColumnUndecryptable(e)
    /\ label # entry[e].label \/ ~Readable(entry[e].seal["name"])
    /\ NamesOpen(e) /\ ~vaultEntryNameExistsInScope(e, label)
    /\ ~TokenTaken(e, scopedNameBlindIndex(label))
    /\ entry' = [entry EXCEPT ![e].seal["name"] = encryptColumn(@), ![e].label = label,
                              ![e].nameIdx = scopedNameBlindIndex(label)]
    /\ UNCHANGED cell

UpdateVaultEntryValue(e) ==
    /\ Serving
    /\ e \in Live /\ ~anyMetaColumnUndecryptable(e) /\ Opens(entry[e].value)
    /\ entry' = [entry EXCEPT ![e].value = env.cur, ![e].old = FALSE]
    /\ UNCHANGED cell

SetProviderMeta(e) ==
    /\ Serving
    /\ e \in Live /\ Readable(entry[e].seal["conf"])
    /\ entry' = [entry EXCEPT ![e].seal["conf"] = encryptColumn(@)]
    /\ UNCHANGED cell

(* An invitation, an enrolment, the relay password or a channel is saved. *)
SaveSealed(c) ==
    /\ Serving
    /\ c \in Cells \ {"dek"}
    /\ cell' = [cell EXCEPT ![c] = [seal |-> env.cur, old |-> FALSE]]
    /\ UNCHANGED entry

(* The first audit write of a process loads the audit key, or mints one. *)
loadOrCreateAuditDEK ==
    /\ Serving
    /\ cell["dek"].seal = Empty
    /\ cell' = [cell EXCEPT !["dek"] = [seal |-> env.cur, old |-> FALSE]]
    /\ UNCHANGED entry

-----------------------------------------------------------------------------
Boot ==
    \/ EnforceVaultKey \/ MigrateTOTPSecrets \/ MigrateEncryption
    \/ \E e \in Entries : BackfillMetadataEncryption(e) \/ BackfillMetadataAtRest(e)
    \/ BackfillEnds \/ RekeyOnBoot \/ SkipRekey

Write ==
    \/ \E e \in Entries : \/ \E l \in Labels : Create(e, l) \/ UpdateVaultEntryName(e, l)
                          \/ UpdateMetadata(e)
                          \/ UpdateVaultEntryValue(e)
                          \/ SetProviderMeta(e)
    \/ \E c \in Cells : SaveSealed(c)
    \/ loadOrCreateAuditDEK

Next == Reconfigure \/ Crash \/ Boot \/ VaultKeyRekey \/ RekeyStatus \/ Write

Spec == Init /\ [][Next]_vars

-----------------------------------------------------------------------------
(* Properties. *)

(* Unless the operator overrode the gate, the configuration that last passed *)
(* it opens every stored value, whatever was deployed, refused, interrupted  *)
(* or swept since: no key change, mistyped key or crash in the middle of a   *)
(* boot strands a value under a key that is no longer configured.            *)
NothingOrphaned ==
    ~forfeit => Stored \subseteq {good.cur, good.prev, Empty, Plain}

(* When the boot log, the sweep or the status page says that the previous    *)
(* key is no longer needed, nothing is sealed under it and every lookup      *)
(* index of a site is the one the current key computes.                      *)
RemovalAdviceIsSafe ==
    advice /\ ~forfeit =>
        /\ env.prev \notin Stored
        /\ \A e \in Live : classifyBlindIndex(e) = "current"

(* An address or a note that no configured key opens keeps its ciphertext:   *)
(* neither a save of the form that shows it blank, nor a migration, nor the  *)
(* sweep replaces it, so that the right key still recovers it.  A name is    *)
(* not among them: a rename writes over it (vault.go,                        *)
(* anyMetaColumnUndecryptable).                                              *)
UnreadableIsKept ==
    [][\A e \in Live : \A f \in {"url", "notes"} :
          ~Readable(entry[e].seal[f]) => entry'[e].seal[f] = entry[e].seal[f]]_vars

Twins(d, e) == d # e /\ SameScope(d, e) /\ {d, e} \subseteq Live
                     /\ entry[d].label = entry[e].label

(* No step gives an entry a name that another entry of its scope has, also   *)
(* while the indexes of the two are computed under different keys.           *)
NamesStayDistinct == [][\A d, e \in Entries : Twins(d, e)' => Twins(d, e)]_vars
=============================================================================
