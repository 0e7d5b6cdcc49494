------------------------------ MODULE Custody ------------------------------
(* Who holds a vault entry, who answers for where its secret may go, and    *)
(* which hosts are recorded on it: the vault handlers that create, move,    *)
(* edit and delete an entry, its rotation targets, the AI gateway's pin,    *)
(* ownership repair, and what offboarding does to all of these.             *)
(*                                                                          *)
(* A handler's transaction is one step.  What a request learned before it   *)
(* is who it acts for and whether the middleware saw an administrator; as a *)
(* request may be in flight for any time, it may act with any role its      *)
(* account ever had (claims).  The purge of a leaver's targets is not one   *)
(* transaction: it lists, then writes entry by entry.                       *)
(*                                                                          *)
(* Accounts and memberships change as Team says; here only what a grant     *)
(* reads of them is kept.                                                   *)
EXTENDS Naturals, FiniteSets

CONSTANTS
    Users,         \* account ids
    Founders,      \* the administrators at the start
    Collections,   \* collection ids
    Entries,       \* vault entry ids
    Hosts,         \* hosts a secret may be sent to
    Providers,     \* AI providers an entry can be wired to
    ApiHost,       \* the host of a provider
    Services,      \* provider adapters an entry can be rotated by
    Vendor,        \* the host an adapter calls when no setting names one
    Steerable,     \* the adapters whose host a setting may choose
    Purges,        \* purges running at once
    Scenarios,     \* bounds: the routes callers use, the accounts besides the
                   \* founders, the roles members are given, the entries, hosts
                   \* and adapters that occur, and the requests in flight at once
    Nobody         \* no user: an empty id

MemberRoles == {"viewer", "editor", "manager"}
AllDoors == {"create", "move", "rename", "ceiling", "provider", "delete", "targets",
             "claim", "restore", "wire", "role", "disable", "hard_delete",
             "member", "remove_member", "purge", "delete_collection", "legacy", "exits", "tokens"}

ASSUME CustodyAssumption ==
    /\ Founders \subseteq Users /\ Founders # {}
    /\ ApiHost \in [Providers -> Hosts]
    /\ Nobody \notin Users \cup Hosts \cup Entries \cup Collections
    /\ Users \cap Collections = {}
    /\ Vendor \in [Services -> Hosts \cup {Nobody}]
    /\ Steerable \subseteq Services
    /\ Scenarios \subseteq [doors : SUBSET AllDoors, people : SUBSET Users,
                             roles : SUBSET MemberRoles, rows : SUBSET Entries,
                             hosts : SUBSET Hosts, services : SUBSET Services, calls : Nat]

VARIABLES
    scene,      \* the scenario of this behaviour
    status,     \* of an account: live, disabled, gone
    role,       \* of an account: admin, user
    member,     \* accepted collection memberships: a role or none
    open,       \* the collections that exist
    entry,      \* vault_entries: a row, Unborn or Gone
    claim,      \* secret_ownership_claims: who claimed, whom it displaced
    wired,      \* settings ai_key_*: the entry a provider is pointed at
    purge,      \* the purges of a leaver's targets under way
    claims,     \* history: the roles an account was ever authenticated with
    chosen      \* history: who created an entry, who added a host to it, and
                \* under whose name a target was saved on it

accountVars == <<status, role, claims>>
teamVars == <<member, open>>
vars == <<scene, status, role, member, open, entry, claim, wired, purge, claims, chosen>>

Doors == scene.doors
Movers == scene.people

Personal == Nobody
NoHost == Nobody
Unborn == [state |-> "unborn"]
Gone == [state |-> "gone"]
(* A target at a host: its type, who configured it, and the entry whose      *)
(* secret its auth_token spends.                                             *)
Kinds == {"none", "webhook", "forgejo_secret"}
TargetRows == [kind : Kinds, by : Users \cup {Nobody},
               ref : Entries \cup {Nobody}]
NoTarget == [kind |-> "none", by |-> Nobody, ref |-> Nobody]
Targets == [Hosts -> TargetRows]
Scopes == Users \cup Collections
EntryRows == {Unborn, Gone} \cup
    [state : {"live"}, holder : Users, owner : Users \cup {Nobody},
     coll : Collections \cup {Personal}, ceiling : SUBSET Hosts,
     provider : Services, meta : Hosts \cup {NoHost}, targets : Targets,
     name : Scopes, url : Scopes]
Authors == SUBSET ((Users \cup {Nobody}) \X Hosts)
NoClaim == [by |-> Nobody, prev |-> Nobody]
NoPurge == [pc |-> "idle"]
PurgeRows == {NoPurge}
    \cup [pc : {"due"}, user : Users, coll : Collections \cup {Personal}]
    \cup [pc : {"write"}, user : Users, seen : [Entries -> Targets], todo : SUBSET Entries]

(* Every variable holds a value of the column or of the task it models. *)
TypeOK ==
    /\ scene \in Scenarios
    /\ status \in [Users -> {"live", "disabled", "gone"}]
    /\ role \in [Users -> {"admin", "user"}]
    /\ member \in [Collections -> [Users -> MemberRoles \cup {"none"}]]
    /\ open \subseteq Collections
    /\ entry \in [Entries -> EntryRows]
    /\ claim \in [Entries -> [by : Users \cup {Nobody}, prev : Users \cup {Nobody}]]
    /\ wired \in [Providers -> Entries \cup {Nobody}]
    /\ purge \in [Purges -> PurgeRows]
    /\ claims \in [Users -> SUBSET {"admin", "user"}]
    /\ chosen \in [Entries -> [by : Users \cup {Nobody}, hosts : Authors, stamps : Authors]]

Live(e) == entry[e].state = "live"
NoTargets == [h \in Hosts |-> NoTarget]

Chooses(svc, h) == h # NoHost /\ svc \in Steerable
(* The hosts a provider's adapter calls: the one a setting names, where it   *)
(* has such a setting, or its vendor's.                                      *)
declaredProviderEgress(svc, h) == {IF Chooses(svc, h) THEN h ELSE Vendor[svc]} \ {NoHost}
(* Those no setting moves: they are nobody's choice. *)
metaIndependentProviderEgress(svc, h) ==
    declaredProviderEgress(svc, h) \cap declaredProviderEgress(svc, NoHost)
(* Only such an adapter has a setting that names a host. *)
Configured(svc, h) == Chooses(svc, h) \/ h = NoHost
SomeHost == scene.hosts \cup {NoHost}
VendorHosts == {Vendor[svc] : svc \in Services} \ {NoHost}

bidxScope(u, c) == IF c = Personal THEN u ELSE c

(* What a list of targets may look like, and its targets as a panel sends    *)
(* them: without the name of a configurer.                                   *)
Target(kind, by, ref) == [kind |-> kind, by |-> by, ref |-> ref]
TargetsBy(people) ==
    {t \in [Hosts -> {NoTarget} \cup {Target("webhook", u, Nobody) : u \in people}
                      \cup {Target("forgejo_secret", u, f) : u \in people, f \in scene.rows}] :
        \A h \in Hosts \ scene.hosts : t[h] = NoTarget}

(* A row of before the owner column: the migration kept its holder and could *)
(* not prove an owner, whatever hosts, settings and targets, with or without *)
(* a configurer, were recorded on it.                                        *)
LegacyRow(u, c, ceiling, svc, h, targets) ==
    [state |-> "live", holder |-> u, owner |-> Nobody, coll |-> c, ceiling |-> ceiling,
     provider |-> svc, meta |-> h, targets |-> targets,
     name |-> bidxScope(u, c), url |-> bidxScope(u, c)]
LegacyRows ==
    {x \in {LegacyRow(u, c, ceiling, svc, h, targets) :
              u \in Movers, c \in Collections \cup {Personal}, ceiling \in SUBSET scene.hosts,
              svc \in scene.services, h \in SomeHost,
              targets \in IF "targets" \in Doors THEN TargetsBy(Movers \cup {Nobody})
                         ELSE {NoTargets}} :
        Configured(x.provider, x.meta)}

Untouched == [by |-> Nobody, hosts |-> {}, stamps |-> {}]
(* The history of such a row names nobody: neither who recorded what it came *)
(* with, nor who chose the vendors' hosts.                                   *)
Carried(x) ==
    [by |-> Nobody, hosts |-> {Nobody} \X VendorHosts,
     stamps |-> UNION {{Nobody, x.targets[h].by} \X {h} : h \in {g \in Hosts : x.targets[g] # NoTarget}}]

Init ==
    /\ scene \in Scenarios
    /\ status = [u \in Users |-> IF u \in Founders \cup Movers THEN "live" ELSE "gone"]
    /\ role = [u \in Users |-> IF u \in Founders THEN "admin" ELSE "user"]
    /\ member = [c \in Collections |-> [u \in Users |-> "none"]]
    /\ open = Collections
    /\ entry \in [Entries -> {Unborn} \cup (IF "legacy" \in Doors THEN LegacyRows ELSE {})]
    /\ \A e \in Entries \ scene.rows : entry[e] = Unborn
    /\ claim = [e \in Entries |-> NoClaim]
    /\ wired = [p \in Providers |-> Nobody]
    /\ purge = [p \in Purges |-> NoPurge]
    /\ claims = [u \in Users |-> IF status[u] = "live" THEN {role[u]} ELSE {}]
    /\ chosen = [e \in Entries |-> IF Live(e) THEN Carried(entry[e]) ELSE Untouched]

-----------------------------------------------------------------------------
(* Grants. *)

Exists(u) == u \in Users /\ status[u] # "gone"
AccountLive(u) == u \in Users /\ status[u] = "live"
instanceAdminByRecord(u) == AccountLive(u) /\ role[u] = "admin"
NotLastAdmin(t) ==
    ~instanceAdminByRecord(t) \/ \E u \in Users \ {t} : instanceAdminByRecord(u)

GetCollectionMemberRole(c, u) == IF u \in Users THEN member[c][u] ELSE "none"

(* Without a row of the account there is no grant, and an administrator has  *)
(* every one.  A holder who left the collection keeps the right to read.     *)
grantFor(u, isAdmin, e) ==
    IF ~Live(e) \/ ~AccountLive(u) THEN {}
    ELSE IF isAdmin THEN {"read", "use", "manage"}
    ELSE IF entry[e].coll = Personal
         THEN IF entry[e].holder = u THEN {"read", "use", "manage"} ELSE {}
    ELSE LET r == GetCollectionMemberRole(entry[e].coll, u)
         IN  CASE r \in {"manager", "editor"} -> {"read", "use", "manage"}
               [] r = "viewer" -> {"read", "use"}
               [] OTHER -> IF entry[e].holder = u THEN {"read"} ELSE {}

entryAccess(u, isAdmin, e) == "manage" \in grantFor(u, isAdmin, e)

(* Mutant: the holder of the row answers for its secret. *)
HolderDirects(u, isAdmin, e) ==
    entryAccess(u, isAdmin, e) /\ (isAdmin \/ entry[e].holder = u)
mayDirectSecretEgress(u, isAdmin, e) ==
    entryAccess(u, isAdmin, e) /\ (isAdmin \/ entry[e].owner = u)

mayConfigureDelivery(u, e) == mayDirectSecretEgress(u, instanceAdminByRecord(u), e)

managerMayAdoptOrphanedEntry(u, e) ==
    LET c == entry[e].coll
    IN  /\ c # Personal
        /\ GetCollectionMemberRole(c, u) = "manager"
        /\ GetCollectionMemberRole(c, entry[e].holder) = "none"

canMoveEntryOutOfCollection(u, isAdmin, e) ==
    \/ isAdmin
    \/ entry[e].holder = u
    \/ GetCollectionMemberRole(entry[e].coll, u) = "manager"

canWriteCollection(u, isAdmin, c) ==
    isAdmin \/ GetCollectionMemberRole(c, u) \in {"editor", "manager"}
requireWritableCollectionDestination(u, isAdmin, c) ==
    c \in open /\ canWriteCollection(u, isAdmin, c)

-----------------------------------------------------------------------------
(* Where a secret may go. *)

providerPinFor(e) == {ApiHost[p] : p \in {q \in Providers : wired[q] = e}}
OutsidePin(e, hosts) == providerPinFor(e) # {} /\ ~(hosts \subseteq providerPinFor(e))

(* A write that adds no destination needs no authority. *)
Decide(before, after, mayRedirect) == after \subseteq before \/ mayRedirect

ceilingOf(e) == entry[e].ceiling
Declared(e) == declaredProviderEgress(entry[e].provider, entry[e].meta)

recordedOwnerMayDirect(e) == entry[e].owner # Nobody /\ mayConfigureDelivery(entry[e].owner, e)

targetHosts(e) ==
    {h \in Hosts : LET u == entry[e].targets[h].by IN u # Nobody /\ mayConfigureDelivery(u, e)}

ownerRecordedDestinations(e) ==
    IF ~Live(e) THEN {}
    ELSE IF providerPinFor(e) # {} THEN providerPinFor(e)
    ELSE targetHosts(e) \cup
         (IF recordedOwnerMayDirect(e) THEN ceilingOf(e) \cup Declared(e)
          ELSE metaIndependentProviderEgress(entry[e].provider, entry[e].meta))

-----------------------------------------------------------------------------
(* The entry's own routes. *)

(* A request of u authenticated while the account had the role. *)
Acts(u, isAdmin) == (IF isAdmin THEN "admin" ELSE "user") \in claims[u]

(* The preset of a provider is seeded on an empty ceiling. *)
seedCapabilityDefaults(ceiling, hosts) == IF ceiling = {} THEN hosts ELSE ceiling

CreateVaultEntry(u, c, svc, h) ==
    [state |-> "live", holder |-> u, owner |-> u, coll |-> c,
     ceiling |-> seedCapabilityDefaults({}, declaredProviderEgress(svc, h)),
     provider |-> svc, meta |-> h, targets |-> NoTargets,
     name |-> bidxScope(u, c), url |-> bidxScope(u, c)]

Create(u, isAdmin, e, c, svc, h) ==
    /\ Acts(u, isAdmin)
    /\ entry[e] = Unborn
    /\ c # Personal => requireWritableCollectionDestination(u, isAdmin, c)
    /\ entry' = [entry EXCEPT ![e] = CreateVaultEntry(u, c, svc, h)]
    /\ chosen' = [chosen EXCEPT ![e] =
           [by |-> u, hosts |-> {u} \X declaredProviderEgress(svc, h), stamps |-> {}]]
    /\ UNCHANGED <<accountVars, teamVars, claim, wired, purge>>

(* Mutant: only the name's index follows the entry. *)
NameIndexOnly(x, holder, c) == [x EXCEPT !.name = bidxScope(holder, c)]
Reindexed(x, holder, c) == [x EXCEPT !.name = bidxScope(holder, c), !.url = bidxScope(holder, c)]

MoveToCollection(u, isAdmin, e, c) ==
    /\ Acts(u, isAdmin)
    /\ entryAccess(u, isAdmin, e)
    /\ entry[e].coll # Personal => canMoveEntryOutOfCollection(u, isAdmin, e)
    /\ c # Personal => requireWritableCollectionDestination(u, isAdmin, c)
    /\ entry' = [entry EXCEPT ![e] = Reindexed([@ EXCEPT !.coll = c], @.holder, c)]
    /\ UNCHANGED <<accountVars, teamVars, claim, wired, purge, chosen>>

(* A manager renames the row of a holder who left, and becomes its holder. *)
AdoptAndRenameVaultEntry(x, u) == [x EXCEPT !.holder = u, !.name = bidxScope(u, x.coll)]

Renamed(u, isAdmin, e) ==
    IF isAdmin \/ entry[e].holder = u THEN entry[e]
    ELSE AdoptAndRenameVaultEntry(entry[e], u)
MayRename(u, isAdmin, e) ==
    isAdmin \/ entry[e].holder = u \/ managerMayAdoptOrphanedEntry(u, e)

(* The ceiling of agent destinations, as a save replaces it. *)
SetDestinationPatterns(u, isAdmin, e, ceiling) ==
    /\ ~OutsidePin(e, ceiling)
    /\ Decide(ceilingOf(e), ceiling, mayDirectSecretEgress(u, isAdmin, e))

(* The provider and its settings, as far as they choose a host. *)
SetProvider(u, isAdmin, e, hosts) ==
    /\ Decide(Declared(e), hosts, mayDirectSecretEgress(u, isAdmin, e))
    /\ hosts \subseteq Declared(e) \/ ~OutsidePin(e, hosts)

Adds(u, e, hosts) == chosen' = [chosen EXCEPT ![e].hosts = @ \cup ({u} \X hosts)]

(* One save may carry all three.  Whether it may widen is asked once, before *)
(* a rename changes the holder; the preset is seeded only if it may.         *)
Update(u, isAdmin, e, rename, ceiling, svc, h) ==
    LET may == mayDirectSecretEgress(u, isAdmin, e)
        row == IF rename THEN Renamed(u, isAdmin, e) ELSE entry[e]
        hosts == declaredProviderEgress(svc, h)
        seeded == IF <<svc, h>> # <<entry[e].provider, entry[e].meta>> /\ may
                  THEN seedCapabilityDefaults(ceiling, hosts) ELSE ceiling
    IN  /\ Acts(u, isAdmin)
        /\ entryAccess(u, isAdmin, e)
        /\ rename => MayRename(u, isAdmin, e)
        /\ ceiling # ceilingOf(e) => SetDestinationPatterns(u, isAdmin, e, ceiling)
        /\ SetProvider(u, isAdmin, e, hosts)
        /\ entry' = [entry EXCEPT ![e] =
               [row EXCEPT !.ceiling = seeded, !.provider = svc, !.meta = h]]
        /\ Adds(u, e, (seeded \ ceilingOf(e)) \cup (hosts \ Declared(e)))
        /\ UNCHANGED <<accountVars, teamVars, claim, wired, purge>>

(* The row goes; the setting that points at it is left as it is, and so is   *)
(* nothing else: the claim's row goes with it by its foreign key.            *)
Delete(u, isAdmin, e) ==
    /\ Acts(u, isAdmin)
    /\ entryAccess(u, isAdmin, e)
    /\ entry' = [entry EXCEPT ![e] = Gone]
    /\ claim' = [claim EXCEPT ![e] = NoClaim]
    /\ UNCHANGED <<accountVars, teamVars, wired, purge, chosen>>

(* A target is the same one if it is of one type at one address. *)
rotationTargetIdentity(targets) ==
    {<<h, targets[h].kind>> : h \in {g \in Hosts : targets[g] # NoTarget}}

(* The attribution is of that and of the secret it spends: such a target     *)
(* keeps the name of who configured it, and any other gets the saver's.      *)
Attributed(e, u, want) ==
    [h \in Hosts |->
        LET t == want[h]
            had == entry[e].targets[h]
            same == had.by # Nobody /\ had.kind = t.kind /\ had.ref = t.ref
        IN  IF t = NoTarget THEN t ELSE [t EXCEPT !.by = IF same THEN had.by ELSE u]]

(* A reference reaches what its configurer may use; one that reaches nothing *)
(* is let pass, to fail when it is delivered.                                *)
entryCurrentlyUsableBy(u, e) == "use" \in grantFor(u, FALSE, e)
checkAuthTokenAuthority(t) ==
    t.kind = "forgejo_secret" /\ t.by # Nobody /\ entryCurrentlyUsableBy(t.by, t.ref)
        => mayConfigureDelivery(t.by, t.ref)

(* The version the panel sends has to be that of the stored list, so a save  *)
(* that lands replaces the list it showed.                                   *)
UpdateTargets(u, isAdmin, e, want) ==
    LET had == rotationTargetIdentity(entry[e].targets)
        targets == Attributed(e, u, want)
        has == rotationTargetIdentity(targets)
    IN  /\ Acts(u, isAdmin)
        /\ entryAccess(u, isAdmin, e)
        /\ \A h \in Hosts : checkAuthTokenAuthority(targets[h])
        /\ providerPinFor(e) = {} \/ has = {}
        /\ Decide(had, has, mayConfigureDelivery(u, e))
        /\ entry' = [entry EXCEPT ![e].targets = targets]
        /\ chosen' = [chosen EXCEPT
               ![e].hosts = @ \cup {<<u, x[1]>> : x \in has \ had},
               ![e].stamps = @ \cup {<<targets[x[1]].by, x[1]>> : x \in has}]
        /\ UNCHANGED <<accountVars, teamVars, claim, wired, purge>>

-----------------------------------------------------------------------------
(* The AI gateway's provider keys (an administrators' route). *)

requireEntry(e) == e \in Entries => Live(e)

UpdateConfig(u, p, e) ==
    /\ Acts(u, TRUE)
    /\ requireEntry(wired[p]) /\ requireEntry(e)
    /\ wired' = [wired EXCEPT ![p] = e]
    /\ IF e \in Entries THEN Adds(u, e, {ApiHost[p]}) ELSE UNCHANGED chosen
    /\ UNCHANGED <<accountVars, teamVars, entry, claim, purge>>

-----------------------------------------------------------------------------
(* Ownership repair (an administrators' route). *)

ListVaultEntriesWithNoRecordedOwner == {e \in Entries : Live(e) /\ entry[e].owner = Nobody}
expiredOwnerEntries ==
    {e \in Entries : Live(e) /\ entry[e].owner # Nobody /\ ~recordedOwnerMayDirect(e)}
ListUnownedEntries == ListVaultEntriesWithNoRecordedOwner \cup expiredOwnerEntries

(* Mutant: an account that was disabled is not told from one that lives. *)
AsIfEnabled(e) ==
    LET x == entry[e]
        r == GetCollectionMemberRole(x.coll, x.owner)
    IN  IF ~Exists(x.owner) THEN "account_deleted"
        ELSE IF x.coll # Personal
             THEN IF r = "none" THEN "not_in_collection"
                  ELSE IF r # "manager" THEN "demoted" ELSE "unknown"
        ELSE IF x.owner # x.holder /\ role[x.owner] # "admin" THEN "lost_admin" ELSE "unknown"
diagnoseUnreachableOwner(e) ==
    LET x == entry[e]
        r == IF x.coll = Personal THEN "none" ELSE GetCollectionMemberRole(x.coll, x.owner)
    IN  IF ~Exists(x.owner) THEN "account_deleted"
        ELSE IF status[x.owner] = "disabled" THEN "account_disabled"
        ELSE IF x.coll # Personal
             THEN IF r = "none" THEN "not_in_collection"
                  ELSE IF r # "manager" THEN "demoted" ELSE "unknown"
        ELSE IF x.owner # x.holder /\ role[x.owner] # "admin" THEN "lost_admin" ELSE "unknown"

(* Ownership moves to an administrator, by the record, who takes it himself. *)
AuthorizeTransfer(actor, to) == instanceAdminByRecord(actor) /\ to = actor
AuthorizeRestore(actor, prev, to) == instanceAdminByRecord(actor) /\ prev # Nobody /\ to = prev

TransferSecretOwnership(x, to) == [x EXCEPT !.holder = to, !.owner = to]

(* Mutant: a claim leaves the recorded hosts where they are. *)
LeavesArmed(x) == x
(* What chose a host is cleared: an adapter with a default falls back to it. *)
disarmRecordedDestinations(x) == [x EXCEPT !.ceiling = {}, !.meta = NoHost]

(* The claim remembers whom it displaced; a later one replaces it. *)
RecordClaim(e, u) == claim' = [claim EXCEPT ![e] = [by |-> u, prev |-> entry[e].owner]]

ClaimSecretOwnership(u, e) ==
    /\ Acts(u, TRUE)
    /\ e \in ListUnownedEntries
    /\ AuthorizeTransfer(u, u)
    /\ entry' = [entry EXCEPT ![e] =
           Reindexed(disarmRecordedDestinations(TransferSecretOwnership(@, u)), u, @.coll)]
    /\ RecordClaim(e, u)
    /\ Adds(u, e, Declared(e)' \ Declared(e))
    /\ UNCHANGED <<accountVars, teamVars, wired, purge>>

RestoreSecretOwnership(u, e) ==
    LET prev == claim[e].prev
    IN  /\ Acts(u, TRUE)
        /\ Live(e) /\ claim[e] # NoClaim
        /\ prev # Nobody
        /\ entryAccess(prev, instanceAdminByRecord(prev), e)
        /\ AuthorizeRestore(u, prev, prev)
        /\ entry' = [entry EXCEPT ![e] =
               Reindexed(TransferSecretOwnership(@, prev), prev, @.coll)]
        /\ claim' = [claim EXCEPT ![e] = NoClaim]
        /\ UNCHANGED <<accountVars, teamVars, wired, purge, chosen>>

-----------------------------------------------------------------------------
(* Leaving.  A purge follows the write that made it necessary, outside its   *)
(* transaction: it may never start, and each of its writes may fail.         *)

StartPurge(u, c) ==
    \/ \E p \in Purges : /\ "purge" \in Doors /\ purge[p] = NoPurge
                         /\ purge' = [purge EXCEPT ![p] = [pc |-> "due", user |-> u, coll |-> c]]
    \/ UNCHANGED purge

(* The rows the query returns: all, or those of one collection. *)
ListVaultEntryTargets(p) ==
    /\ purge[p].pc = "due"
    /\ LET u == purge[p].user
           rows == {e \in Entries : /\ Live(e)
                                    /\ purge[p].coll \in {Personal, entry[e].coll}
                                    /\ \E h \in Hosts : entry[e].targets[h].by = u}
       IN  purge' = [purge EXCEPT ![p] =
               IF rows = {} THEN NoPurge
               ELSE [pc |-> "write", user |-> u, todo |-> rows,
                     seen |-> [e \in Entries |-> IF e \in rows THEN entry[e].targets
                                                ELSE NoTargets]]]
    /\ UNCHANGED <<accountVars, teamVars, entry, claim, wired, chosen>>

Kept(targets, u) == [h \in Hosts |-> IF targets[h].by = u THEN NoTarget ELSE targets[h]]

WithoutEntry(q, e) ==
    IF q.todo = {e} THEN NoPurge ELSE [q EXCEPT !.todo = @ \ {e}, !.seen[e] = NoTargets]

(* The write is of the list as it was read. *)
PurgeTargets(p, e) ==
    /\ purge[p].pc = "write"
    /\ e \in purge[p].todo
    /\ entry' = IF Live(e)
                THEN [entry EXCEPT ![e].targets = Kept(purge[p].seen[e], purge[p].user)]
                ELSE entry
    /\ purge' = [purge EXCEPT ![p] = WithoutEntry(@, e)]
    /\ UNCHANGED <<accountVars, teamVars, claim, wired, chosen>>

(* A write that fails, or a server that stops. *)
PurgeLost(p) ==
    /\ purge[p] # NoPurge
    /\ purge' = [purge EXCEPT ![p] = NoPurge]
    /\ UNCHANGED <<accountVars, teamVars, entry, claim, wired, chosen>>

-----------------------------------------------------------------------------
(* Accounts and members, as Team models them. *)

UpdateUserRole(t, newRole) ==
    /\ Exists(t)
    /\ role[t] # newRole
    /\ newRole = "admin" \/ NotLastAdmin(t)
    /\ role' = [role EXCEPT ![t] = newRole]
    /\ claims' = [claims EXCEPT ![t] = IF status[t] = "live" THEN @ \cup {newRole} ELSE @]
    /\ UNCHANGED <<status, teamVars, entry, claim, wired, purge, chosen>>

DisableUser(t) ==
    /\ status[t] = "live"
    /\ NotLastAdmin(t)
    /\ status' = [status EXCEPT ![t] = "disabled"]
    /\ StartPurge(t, Personal)
    /\ UNCHANGED <<role, claims, teamVars, entry, claim, wired, chosen>>

EnableUser(t) ==
    /\ status[t] = "disabled"
    /\ status' = [status EXCEPT ![t] = "live"]
    /\ claims' = [claims EXCEPT ![t] = @ \cup {role[t]}]
    /\ UNCHANGED <<role, teamVars, entry, claim, wired, purge, chosen>>

(* The rows of a deleted account: targets it configured go, entries it holds *)
(* in a collection pass to the deleting administrator, with the hosts that   *)
(* are recorded on them, personal ones go.                                   *)
hardDeleteCleanup(x, t, u) ==
    IF x.state # "live" THEN x
    ELSE LET kept == [x EXCEPT !.targets = Kept(x.targets, t)]
         IN  IF x.holder # t THEN kept
             ELSE IF x.coll = Personal THEN Gone
             ELSE [TransferSecretOwnership(kept, u) EXCEPT !.name = bidxScope(u, x.coll)]

(* Nobody chose the hosts of a row that had no owner: the history says so.   *)
Unanswered(e, t) ==
    Live(e) /\ entry[e].owner = Nobody /\ entry[e].holder = t /\ entry[e].coll # Personal
Inherited(e) == [chosen[e] EXCEPT !.hosts = @ \cup ({Nobody} \X (ceilingOf(e) \cup Declared(e)))]

HardDelete(u, t) ==
    /\ Acts(u, TRUE)
    /\ t # u /\ Exists(t)
    /\ NotLastAdmin(t)
    /\ AuthorizeTransfer(u, u)
    /\ status' = [status EXCEPT ![t] = "gone"]
    /\ member' = [c \in Collections |-> [member[c] EXCEPT ![t] = "none"]]
    /\ entry' = [e \in Entries |-> hardDeleteCleanup(entry[e], t, u)]
    /\ claim' = [e \in Entries |-> IF Live(e)' THEN claim[e] ELSE NoClaim]
    /\ chosen' = [e \in Entries |-> IF Unanswered(e, t) THEN Inherited(e) ELSE chosen[e]]
    /\ UNCHANGED <<role, claims, open, wired, purge>>

SetMember(c, t, newRole) ==
    /\ c \in open /\ status[t] = "live"
    /\ member[c][t] # newRole
    /\ member' = [member EXCEPT ![c][t] = newRole]
    /\ UNCHANGED <<accountVars, open, entry, claim, wired, purge, chosen>>

RemoveMember(c, t) ==
    /\ member[c][t] # "none"
    /\ member' = [member EXCEPT ![c][t] = "none"]
    /\ StartPurge(t, c)
    /\ UNCHANGED <<accountVars, open, entry, claim, wired, chosen>>

DeleteCollection(c) ==
    /\ c \in open
    /\ open' = open \ {c}
    /\ member' = [member EXCEPT ![c] = [u \in Users |-> "none"]]
    /\ entry' = [e \in Entries |-> IF Live(e) /\ entry[e].coll = c THEN Gone ELSE entry[e]]
    /\ claim' = [e \in Entries |-> IF Live(e)' THEN claim[e] ELSE NoClaim]
    /\ UNCHANGED <<accountVars, wired, purge, chosen>>

-----------------------------------------------------------------------------
EntryStep(u, isAdmin, e) ==
    \/ "create" \in Doors /\ \E c \in Collections \cup {Personal}, svc \in scene.services, h \in SomeHost :
         Configured(svc, h) /\ Create(u, isAdmin, e, c, svc, h)
    \/ "move" \in Doors /\ \E c \in Collections \cup {Personal} : MoveToCollection(u, isAdmin, e, c)
    \/ Live(e) /\ \E rename \in IF "rename" \in Doors THEN BOOLEAN ELSE {FALSE},
                     ceiling \in IF "ceiling" \in Doors THEN SUBSET scene.hosts ELSE {ceilingOf(e)},
                     svc \in IF "provider" \in Doors THEN scene.services ELSE {entry[e].provider},
                     h \in IF "provider" \in Doors THEN SomeHost ELSE {entry[e].meta} :
         /\ Configured(svc, h)
         /\ rename \/ <<ceiling, svc, h>> # <<ceilingOf(e), entry[e].provider, entry[e].meta>>
         /\ Update(u, isAdmin, e, rename, ceiling, svc, h)
    \/ "delete" \in Doors /\ Delete(u, isAdmin, e)
    \/ "targets" \in Doors /\ Live(e) /\ \E want \in TargetsBy({Nobody}) : UpdateTargets(u, isAdmin, e, want)

AdminStep(u) ==
    \/ "claim" \in Doors /\ \E e \in Entries : ClaimSecretOwnership(u, e)
    \/ "restore" \in Doors /\ \E e \in Entries : RestoreSecretOwnership(u, e)
    \/ "wire" \in Doors /\ \E p \in Providers, e \in Entries \cup {Nobody} : UpdateConfig(u, p, e)
    \/ "hard_delete" \in Doors /\ \E t \in Movers : HardDelete(u, t)

TeamStep(t) ==
    \/ "role" \in Doors /\ \E q \in {"admin", "user"} : UpdateUserRole(t, q)
    \/ "disable" \in Doors /\ (DisableUser(t) \/ EnableUser(t))
    \/ "member" \in Doors /\ \E c \in Collections, q \in scene.roles : SetMember(c, t, q)
    \/ "remove_member" \in Doors /\ \E c \in Collections : RemoveMember(c, t)

PurgeStep(p) ==
    \/ ListVaultEntryTargets(p)
    \/ \E e \in Entries : PurgeTargets(p, e)
    \/ PurgeLost(p)

Next ==
    /\ \/ \E u \in Users, isAdmin \in BOOLEAN, e \in scene.rows :
            Acts(u, isAdmin) /\ EntryStep(u, isAdmin, e)
       \/ \E u \in Users : AdminStep(u)
       \/ \E t \in Movers : TeamStep(t)
       \/ "delete_collection" \in Doors /\ \E c \in Collections : DeleteCollection(c)
       \/ \E p \in Purges : PurgeStep(p)
    /\ UNCHANGED scene

Spec == Init /\ [][Next]_vars

-----------------------------------------------------------------------------
(* Properties. *)

(* Whoever may answer for the secret: who deposited it, and whoever was an   *)
(* administrator of the instance; and the hosts one of them, or nobody,      *)
(* chose for it.                                                             *)
Entitled(e) == {u \in Users : u = chosen[e].by \/ "admin" \in claims[u]}
Directed(e) == {h \in Hosts : \E u \in Entitled(e) \cup {Nobody} : <<u, h>> \in chosen[e].hosts}

(* No editing, moving, adopting, leaving, claiming or restoring of an entry  *)
(* ends with somebody else in a position to choose where its secret goes: a  *)
(* recorded owner and the author of a recorded host is its depositor or has  *)
(* been an administrator, and where a target stands, whoever changed what it *)
(* spends and is now its configurer, it was one of them that put it there,   *)
(* or the row of before owners came with it (vault_grant.go,                 *)
(* mayDirectSecretEgress).                                                   *)
DirectedOnlyByTheEntitled ==
    \A e \in Entries : Live(e) =>
        /\ entry[e].owner \in Entitled(e) \cup {Nobody}
        /\ chosen[e].hosts \subseteq (Entitled(e) \cup {Nobody}) \X Hosts
        /\ \A h \in Hosts : entry[e].targets[h] # NoTarget =>
               h \in Directed(e) \/ <<Nobody, h>> \in chosen[e].stamps

(* Taking over an entry whose owner cannot reach it never lets its secret go *)
(* to a host that somebody chose and that it could not go to a moment        *)
(* before, although the new owner may direct it.  Only the default of its    *)
(* provider's adapter may take the place of a site that was chosen           *)
(* (secret_exit_authority.go: a repair cannot silently re-arm a host the     *)
(* previous holder chose).                                                   *)
ClaimNeverRearms ==
    [][\A e \in Entries :
          claim'[e] # claim[e] /\ claim'[e] # NoClaim =>
              ownerRecordedDestinations(e)' \subseteq
                  ownerRecordedDestinations(e)
                      \cup declaredProviderEgress(entry[e].provider, NoHost)]_vars

(* The repair page has an explanation for every owner it reports as unable   *)
(* to reach his entry, by whatever sequence of removals, adoptions, moves,   *)
(* demotions and deletions it came to that (vault_ownership_repair.go).      *)
DiagnosisIsTotal ==
    \A e \in ListUnownedEntries :
        entry[e].owner # Nobody => diagnoseUnreachableOwner(e) # "unknown"

(* The blind indexes of a row are those of the vault it is in, so a lookup   *)
(* by name or address finds it and the UNIQUE index compares it with its     *)
(* neighbours: also after a move, an adoption, a claim, a restore or the     *)
(* deletion of its holder (vault_ownership_repair.go, reindexAfterCustodianChange). *)
IndexMatchesScope ==
    \A e \in Entries : Live(e) =>
        /\ entry[e].name = bidxScope(entry[e].holder, entry[e].coll)
        /\ entry[e].url = bidxScope(entry[e].holder, entry[e].coll)

-----------------------------------------------------------------------------
(* What the repository says and the code does not keep: no run checks these, *)
(* the README tells how TLC refutes each.                                    *)

(* An owner who is said to have lost the administrator's role had it         *)
(* (vault_ownership_repair.go).                                              *)
DiagnosisTrue ==
    \A e \in ListUnownedEntries :
        entry[e].owner # Nobody /\ diagnoseUnreachableOwner(e) = "lost_admin"
            => "admin" \in claims[entry[e].owner]

(* A purge only ever removes (vault_target_purge.go). *)
PurgeNarrows ==
    [][\A p \in Purges, e \in Entries :
          PurgeTargets(p, e) /\ Live(e) =>
              \A h \in Hosts : entry'[e].targets[h] # NoTarget => entry[e].targets[h] # NoTarget]_vars

(* An administrator can always clear or replace a provider's key: the old    *)
(* side of the change authorises (ai_gateway.go, UpdateConfig).              *)
ProviderCanBeCleared == \A p \in Providers : requireEntry(wired[p])

=============================================================================
