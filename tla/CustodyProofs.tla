---------------------------- MODULE CustodyProofs ----------------------------
(* What holding, editing, repairing and spending an entry promise for any    *)
(* number of accounts, collections, entries, hosts, tokens and requests.     *)
EXTENDS Capability, TLAPS

-----------------------------------------------------------------------------
(* The inductive invariant of Custody. *)

(* Whoever was ever authenticated as an administrator; who may answer for an *)
(* entry with history ch, and the hosts that one of them, or nobody, chose.  *)
Admins == {u \in Users : "admin" \in claims[u]}
Ent(ch, A) == {ch.by} \cup A \cup {Nobody}
Dir(ch, A) == {h \in Hosts : \E u \in Ent(ch, A) : <<u, h>> \in ch.hosts}

(* An account that can act is known under its present role. *)
Current == \A u \in Users : status[u] = "live" => role[u] \in claims[u]

(* Who stands behind a row x with claim cl. *)
Backed(x, cl, ch, A) ==
    /\ x = Unborn => ch = Untouched /\ cl = NoClaim
    /\ ch.hosts \subseteq Ent(ch, A) \X Hosts
    /\ cl.prev \in Ent(ch, A)
    /\ x.state = "live" => x.owner \in Ent(ch, A)

(* A target t that stands at h was put there by one of them, or came with a  *)
(* row of before owners, and was saved under its configurer's name.          *)
Posted(t, h, ch, A) ==
    t # NoTarget => /\ h \in Dir(ch, A) \/ <<Nobody, h>> \in ch.stamps
                    /\ <<t.by, h>> \in ch.stamps

(* A recorded host was chosen by one of them.  Only a row of before the      *)
(* owner column has others, and only until somebody owns it; the vendors'    *)
(* own hosts are nobody's choice.                                            *)
Reach(x) == x.ceiling \cup declaredProviderEgress(x.provider, x.meta)
Ownerless(x, cl, ch) == x.owner = Nobody /\ cl = NoClaim /\ {Nobody} \X VendorHosts \subseteq ch.hosts
Armed(x, cl, ch, A) ==
    x.state = "live" =>
        /\ \A h \in Hosts : Posted(x.targets[h], h, ch, A)
        /\ Reach(x) \subseteq Dir(ch, A) \/ Ownerless(x, cl, ch)

(* Both indexes of a row are those of its vault. *)
Indexed(x) ==
    x.state = "live" =>
        x.name = bidxScope(x.holder, x.coll) /\ x.url = bidxScope(x.holder, x.coll)

RowOK(x, cl, ch, A) == Backed(x, cl, ch, A) /\ Armed(x, cl, ch, A) /\ Indexed(x)
Rows == \A e \in Entries : RowOK(entry[e], claim[e], chosen[e], Admins)

(* The list a purge has read was that of a row. *)
SeenOK(seen, e) == \A h \in Hosts : Posted(seen[h], h, chosen[e], Admins)
Purging ==
    \A p \in Purges : purge[p].pc = "write" => \A e \in Entries : SeenOK(purge[p].seen[e], e)

(* An administrator points the gateway at an entry. *)
Wiring == \A p \in Providers : wired[p] \in Entries => ApiHost[p] \in Dir(chosen[wired[p]], Admins)

Inv == TypeOK /\ Current /\ Rows /\ Purging /\ Wiring

-----------------------------------------------------------------------------
(* The inductive invariants of Capability. *)

(* A request that was verified presents a token that was minted. *)
Signed == \A r \in Requests : flight[r].pc = "verified" => token[flight[r].token] # Unminted

OutPcs == {"pin", "row", "owner", "targets", "send"}
Carries(r, k) == flight[r].pc \in OutPcs /\ flight[r].token = k
Presents(r, k) == flight[r].pc = "verified" /\ flight[r].token = k
Used(k) == forwards[k] > 0 \/ \E r \in Requests : Carries(r, k)

(* A token that was used cannot be spent again: its nonce is on record, or   *)
(* it has expired and nobody still presents it.                              *)
SpentOnce(k) ==
    /\ Used(k) => k \in spent \/ (k \in expired /\ \A r \in Requests : ~Presents(r, k))
    /\ \A r, q \in Requests : Carries(r, k) /\ Carries(q, k) => r = q
    /\ \A r \in Requests : Carries(r, k) => forwards[k] = 0
    /\ forwards[k] <= 1
Spendable == \A k \in Tokens : SpentOnce(k)

(* Where an entry's secret may have gone: to a host one of those who answer  *)
(* for it chose for it, or saved a target at, on whichever entry, or one     *)
(* that a claim overtook.                                                    *)
Stamped(e, h) == \E u \in Entitled(e), f \in Entries : <<u, h>> \in chosen[f].stamps
Led(e) == {h \in Hosts : h \in Dir(chosen[e], Admins) \/ Stamped(e, h) \/ h \in late[e]}

(* A host that an exit found recorded on the row is such a host, or nobody   *)
(* answers for the row yet.  What it then reads of the owner decides.        *)
Pending(e, h) == h \in Led(e) \/ entry[e] = Gone \/ (Live(e) /\ entry[e].owner = Nobody)

(* What a request in flight has learned so far is so. *)
Cleared(f) ==
    /\ f.pc \in OutPcs \ {"send"} => f.also = Nobody
    /\ f.pc \in {"owner", "targets"} /\ f.counts => f.host \in Led(f.entry)
    /\ f.pc = "owner" /\ f.recorded => Pending(f.entry, f.host)
    /\ f.pc = "send" => f.host \in Led(f.entry)
    /\ f.pc \in {"send", "push"} /\ f.also \in Entries => f.host \in Led(f.also)
    /\ f.pc \in {"deliver", "push"} /\ f.by # Nobody => <<f.by, f.host>> \in chosen[f.entry].stamps
Bound ==
    /\ \A r \in Requests : Cleared(flight[r])
    /\ \A e \in Entries : sent[e] \subseteq Led(e)

-----------------------------------------------------------------------------
(* The shapes of rows. *)

LiveRows ==
    [state : {"live"}, holder : Users, owner : Users \cup {Nobody},
     coll : Collections \cup {Personal}, ceiling : SUBSET Hosts,
     provider : Services, meta : Hosts \cup {NoHost}, targets : Targets,
     name : Scopes, url : Scopes]
ClaimRows == [by : Users \cup {Nobody}, prev : Users \cup {Nobody}]
ChoiceRows == [by : Users \cup {Nobody}, hosts : Authors, stamps : Authors]
WriteRows == [pc : {"write"}, user : Users, seen : [Entries -> Targets], todo : SUBSET Entries]

LEMMA EntryForm ==
    ASSUME NEW x \in EntryRows
    PROVE  /\ x.state = "live" => x \in LiveRows
           /\ x.state # "live" => x \in {Unborn, Gone}
           /\ Unborn.state = "unborn" /\ Gone.state = "gone" /\ Gone # Unborn
<1>1. Unborn.state = "unborn" /\ Gone.state = "gone"
  BY DEF Unborn, Gone
<1> QED BY <1>1 DEF EntryRows, LiveRows

LEMMA RowShapes == LiveRows \subseteq EntryRows /\ Gone \in EntryRows /\ NoClaim \in ClaimRows
  BY DEF EntryRows, LiveRows, NoClaim, ClaimRows

LEMMA LiveForm ==
    ASSUME TypeOK, NEW e \in Entries
    PROVE  /\ entry[e] \in EntryRows /\ claim[e] \in ClaimRows /\ chosen[e] \in ChoiceRows
           /\ Live(e) => entry[e] \in LiveRows
           /\ Live(e) => entry[e] # Unborn
<1>1. entry[e] \in EntryRows /\ claim[e] \in ClaimRows /\ chosen[e] \in ChoiceRows
  BY DEF TypeOK, ClaimRows, ChoiceRows
<1> QED BY <1>1, EntryForm DEF Live

LEMMA PurgeForm ==
    ASSUME NEW q \in PurgeRows
    PROVE  /\ q.pc = "due" => q.user \in Users /\ q.coll \in Collections \cup {Personal}
           /\ q.pc = "write" => q \in WriteRows
<1>1. CASE q = NoPurge
  BY <1>1 DEF NoPurge
<1>2. CASE q \in [pc : {"due"}, user : Users, coll : Collections \cup {Personal}]
  BY <1>2
<1>3. CASE q \in WriteRows
  BY <1>3 DEF WriteRows
<1> QED BY <1>1, <1>2, <1>3 DEF PurgeRows, WriteRows

-----------------------------------------------------------------------------
(* Authority only grows. *)

Widens(ch, ch2) ==
    \/ ch2.by = ch.by /\ ch.hosts \subseteq ch2.hosts /\ ch.stamps \subseteq ch2.stamps
    \/ ch = Untouched

LEMMA Growth ==
    ASSUME NEW ch, NEW ch2, NEW A, NEW A2, Widens(ch, ch2), A \subseteq A2
    PROVE  /\ Ent(ch, A) \subseteq Ent(ch2, A2) /\ Dir(ch, A) \subseteq Dir(ch2, A2)
           /\ ch.stamps \subseteq ch2.stamps /\ ch.hosts \subseteq ch2.hosts
           /\ \A t, h : Posted(t, h, ch, A) => Posted(t, h, ch2, A2)
<1>1. CASE ch = Untouched
  <2>1. ch.by = Nobody /\ ch.hosts = {} /\ ch.stamps = {}
    BY <1>1 DEF Untouched
  <2> QED BY <2>1 DEF Ent, Dir, Posted
<1>2. CASE ch2.by = ch.by /\ ch.hosts \subseteq ch2.hosts /\ ch.stamps \subseteq ch2.stamps
  BY <1>2 DEF Ent, Dir, Posted
<1> QED BY <1>1, <1>2 DEF Widens

LEMMA RowGrows ==
    ASSUME NEW x, NEW cl, NEW ch, NEW A, NEW A2, A \subseteq A2, RowOK(x, cl, ch, A)
    PROVE  RowOK(x, cl, ch, A2)
<1>1. /\ Ent(ch, A) \subseteq Ent(ch, A2) /\ Dir(ch, A) \subseteq Dir(ch, A2)
      /\ \A t, h : Posted(t, h, ch, A) => Posted(t, h, ch, A2)
  BY Growth DEF Widens
<1>2. Backed(x, cl, ch, A2)
  BY <1>1 DEF RowOK, Backed
<1>3. Armed(x, cl, ch, A2)
  BY <1>1 DEF RowOK, Armed
<1> QED BY <1>2, <1>3 DEF RowOK

(* The purges under way hold lists read earlier, the setting an earlier pin. *)
PurgeMoves ==
    /\ purge' \in [Purges -> PurgeRows]
    /\ \A p \in Purges :
         \/ purge'[p] = purge[p]
         \/ purge'[p].pc # "write"
         \/ /\ purge[p].pc = "write"
            /\ \A e \in Entries, h \in Hosts :
                 purge'[p].seen[e][h] \in {purge[p].seen[e][h], NoTarget}

LEMMA PurgingStays ==
    ASSUME Purging, PurgeMoves, Admins \subseteq Admins',
           \A e \in Entries : Widens(chosen[e], chosen'[e])
    PROVE  Purging'
<1>1. \A e \in Entries : \A t, h : Posted(t, h, chosen[e], Admins) => Posted(t, h, chosen'[e], Admins')
  BY Growth
<1> SUFFICES ASSUME NEW p \in Purges, purge'[p].pc = "write", NEW e \in Entries, NEW h \in Hosts
             PROVE  Posted(purge'[p].seen[e][h], h, chosen'[e], Admins')
  BY DEF Purging, SeenOK, Posted, Dir, Ent
<1>2. CASE purge'[p] = purge[p]
  BY <1>1, <1>2 DEF Purging, SeenOK
<1>3. CASE purge'[p] # purge[p]
  <2>1. purge[p].pc = "write" /\ purge'[p].seen[e][h] \in {purge[p].seen[e][h], NoTarget}
    BY <1>3 DEF PurgeMoves
  <2>2. Posted(purge[p].seen[e][h], h, chosen[e], Admins)
    BY <2>1 DEF Purging, SeenOK
  <2> QED BY <1>1, <2>1, <2>2 DEF Posted
<1> QED BY <1>2, <1>3

Rewired == wired' = wired \/ (wired' \in [Providers -> Entries \cup {Nobody}] /\ Wiring')

LEMMA WiringStays ==
    ASSUME Wiring, Rewired, Admins \subseteq Admins',
           \A e \in Entries : Widens(chosen[e], chosen'[e])
    PROVE  Wiring'
  BY Growth DEF Wiring, Rewired

(* A step that rewrites the row of one entry. *)
LEMMA RowStep ==
    ASSUME Inv, NEW e \in Entries, NEW x \in EntryRows, NEW cl \in ClaimRows, NEW ch \in ChoiceRows,
           entry' = [entry EXCEPT ![e] = x], claim' = [claim EXCEPT ![e] = cl],
           chosen' = [chosen EXCEPT ![e] = ch],
           UNCHANGED <<scene, status, role, member, open, claims>>, PurgeMoves, Rewired,
           RowOK(x, cl, ch, Admins), Widens(chosen[e], ch)
    PROVE  Inv'
<1>0. TypeOK /\ Current /\ Rows /\ Purging /\ Wiring
  BY DEF Inv
<1>1. TypeOK'
  BY <1>0 DEF TypeOK, PurgeMoves, Rewired, ClaimRows, ChoiceRows
<1>2. Current'
  BY <1>0 DEF Current
<1>3. Admins' = Admins
  BY DEF Admins
<1>4. /\ entry'[e] = x /\ claim'[e] = cl /\ chosen'[e] = ch
      /\ \A f \in Entries : f # e =>
           entry'[f] = entry[f] /\ claim'[f] = claim[f] /\ chosen'[f] = chosen[f]
  BY <1>0 DEF TypeOK
<1>5. Rows'
  <2>1. ASSUME NEW f \in Entries PROVE RowOK(entry[f], claim[f], chosen[f], Admins)'
    <3>1. RowOK(entry'[f], claim'[f], chosen'[f], Admins')
      BY <1>0, <1>3, <1>4 DEF Rows
    <3> QED BY <3>1 DEF RowOK, Backed, Armed, Posted, Ownerless, Indexed, Dir, Ent
  <2> QED BY <2>1 DEF Rows
<1>6. \A f \in Entries : Widens(chosen[f], chosen'[f])
  BY <1>4 DEF Widens
<1> QED BY <1>0, <1>1, <1>2, <1>3, <1>5, <1>6, PurgingStays, WiringStays DEF Inv

(* A step that touches accounts and members only. *)
LEMMA AccountStep ==
    ASSUME Inv, UNCHANGED <<scene, entry, claim, chosen>>, PurgeMoves, Rewired,
           status' \in [Users -> {"live", "disabled", "gone"}],
           role' \in [Users -> {"admin", "user"}],
           member' \in [Collections -> [Users -> MemberRoles \cup {"none"}]],
           open' \subseteq Collections,
           claims' \in [Users -> SUBSET {"admin", "user"}],
           \A u \in Users : claims[u] \subseteq claims'[u],
           Current'
    PROVE  Inv'
<1>0. TypeOK /\ Current /\ Rows /\ Purging /\ Wiring
  BY DEF Inv
<1>1. TypeOK'
  BY <1>0 DEF TypeOK, PurgeMoves, Rewired
<1>2. Admins \subseteq Admins'
  BY DEF Admins
<1>3. Rows'
  <2>1. ASSUME NEW f \in Entries PROVE RowOK(entry[f], claim[f], chosen[f], Admins)'
    <3>1. RowOK(entry[f], claim[f], chosen[f], Admins')
      BY <1>0, <1>2, RowGrows DEF Rows
    <3> QED BY <3>1 DEF RowOK, Backed, Armed, Posted, Ownerless, Indexed, Dir, Ent
  <2> QED BY <2>1 DEF Rows
<1>4. \A f \in Entries : Widens(chosen[f], chosen'[f])
  BY DEF Widens
<1> QED BY <1>0, <1>1, <1>2, <1>3, <1>4, PurgingStays, WiringStays DEF Inv

(* A step that touches rows, and takes nobody's account into use. *)
LEMMA RowsStep ==
    ASSUME Inv, TypeOK', Current', UNCHANGED <<wired, claims, purge>>,
           \A f \in Entries : Widens(chosen[f], chosen'[f]),
           \A f \in Entries : RowOK(entry'[f], claim'[f], chosen'[f], Admins)
    PROVE  Inv'
<1>0. TypeOK /\ Current /\ Rows /\ Purging /\ Wiring
  BY DEF Inv
<1>1. Admins' = Admins
  BY DEF Admins
<1>2. Rows'
  <2>1. ASSUME NEW f \in Entries PROVE RowOK(entry[f], claim[f], chosen[f], Admins)'
    <3>1. RowOK(entry'[f], claim'[f], chosen'[f], Admins')
      BY <1>1
    <3> QED BY <3>1 DEF RowOK, Backed, Armed, Posted, Ownerless, Indexed, Dir, Ent
  <2> QED BY <2>1 DEF Rows
<1>3. PurgeMoves /\ Rewired
  BY <1>0 DEF PurgeMoves, Rewired, TypeOK
<1> QED BY <1>0, <1>1, <1>2, <1>3, PurgingStays, WiringStays DEF Inv

-----------------------------------------------------------------------------
(* Who acts. *)

(* A request with an administrator's claims, or an account that is an        *)
(* administrator by the record, has been one.                                *)
LEMMA ActingAdmin ==
    ASSUME TypeOK, Current, NEW u \in Users
    PROVE  /\ Acts(u, TRUE) => u \in Admins
           /\ instanceAdminByRecord(u) => u \in Admins
  BY DEF Acts, Admins, instanceAdminByRecord, AccountLive, Current

(* Whoever may direct the secret of an entry is entitled to.  Without the    *)
(* inductive invariant the recorded owner could be anybody.                  *)
LEMMA DirectorEntitled ==
    ASSUME Inv, NEW u \in Users, NEW isAdmin, NEW e \in Entries,
           mayDirectSecretEgress(u, isAdmin, e), isAdmin => u \in Admins
    PROVE  Live(e) /\ u \in {chosen[e].by} \cup Admins
<1>1. Live(e)
  BY DEF mayDirectSecretEgress, entryAccess, grantFor
<1>2. CASE isAdmin
  BY <1>1, <1>2
<1>3. CASE ~isAdmin
  <2>1. entry[e].owner = u
    BY <1>3 DEF mayDirectSecretEgress
  <2>2. entry[e].owner \in Ent(chosen[e], Admins)
    BY <1>1 DEF Inv, Rows, RowOK, Backed, Live
  <2>3. u # Nobody
    BY CustodyAssumption
  <2> QED BY <1>1, <2>1, <2>2, <2>3 DEF Ent
<1> QED BY <1>2, <1>3

LEMMA ConfigurerEntitled ==
    ASSUME Inv, NEW u \in Users, NEW e \in Entries, mayConfigureDelivery(u, e)
    PROVE  Live(e) /\ u \in {chosen[e].by} \cup Admins
<1>1. instanceAdminByRecord(u) => u \in Admins
  BY ActingAdmin DEF Inv
<1> QED BY <1>1, DirectorEntitled DEF mayConfigureDelivery

(* A host recorded by somebody entitled joins the directed ones. *)
Noted(e, u, hosts, stamps) ==
    [chosen[e] EXCEPT !.hosts = @ \cup ({u} \X hosts), !.stamps = @ \cup stamps]

LEMMA Recorded ==
    ASSUME Inv, NEW e \in Entries, NEW u \in Users \cup {Nobody},
           NEW hosts \in SUBSET Hosts, NEW stamps \in Authors,
           hosts # {} => u \in Ent(chosen[e], Admins), NEW ch, ch = Noted(e, u, hosts, stamps)
    PROVE  /\ ch \in ChoiceRows /\ Widens(chosen[e], ch)
           /\ hosts \subseteq Dir(ch, Admins) /\ stamps \subseteq ch.stamps
           /\ ch.hosts \subseteq Ent(ch, Admins) \X Hosts
           /\ ch.by = chosen[e].by
<1>0. chosen[e] \in ChoiceRows /\ chosen[e].hosts \subseteq Ent(chosen[e], Admins) \X Hosts
  BY LiveForm DEF Inv, Rows, RowOK, Backed
<1>1. /\ ch.by = chosen[e].by /\ ch.by \in Users \cup {Nobody}
      /\ ch.hosts = chosen[e].hosts \cup ({u} \X hosts)
      /\ ch.stamps = chosen[e].stamps \cup stamps
  BY <1>0 DEF Noted, ChoiceRows
<1>2. ch \in ChoiceRows
  <2>1. ch.hosts \in Authors /\ ch.stamps \in Authors
    BY <1>0, <1>1 DEF ChoiceRows, Authors
  <2> QED BY <1>0, <1>1, <2>1 DEF Noted, ChoiceRows
<1>3. Widens(chosen[e], ch)
  BY <1>1 DEF Widens
<1>4. Ent(ch, Admins) = Ent(chosen[e], Admins)
  BY <1>1 DEF Ent
<1>5. hosts \subseteq Dir(ch, Admins)
  BY <1>1, <1>4 DEF Dir
<1>6. ch.hosts \subseteq Ent(ch, Admins) \X Hosts
  BY <1>0, <1>1, <1>4
<1> QED BY <1>1, <1>2, <1>3, <1>5, <1>6

-----------------------------------------------------------------------------
(* The entry's own routes. *)

(* An adapter calls at most one host. *)
LEMMA EgressHosts ==
    ASSUME NEW svc \in Services, NEW h \in Hosts \cup {NoHost}
    PROVE  /\ declaredProviderEgress(svc, h) \in SUBSET Hosts
           /\ metaIndependentProviderEgress(svc, h) \subseteq declaredProviderEgress(svc, h)
           /\ metaIndependentProviderEgress(svc, h) \subseteq VendorHosts
           /\ VendorHosts \subseteq Hosts
<1>1. Vendor[svc] \in Hosts \cup {NoHost} /\ \A s \in Services : Vendor[s] \in Hosts \cup {NoHost}
  BY CustodyAssumption DEF NoHost
<1>2. ~Chooses(svc, NoHost)
  BY DEF Chooses
<1> QED BY <1>1, <1>2 DEF declaredProviderEgress, metaIndependentProviderEgress, VendorHosts

LEMMA NoTargetsForm ==
    /\ NoTarget \in TargetRows /\ NoTarget.by = Nobody
    /\ NoTargets \in Targets /\ \A h \in Hosts : NoTargets[h] = NoTarget
  BY DEF NoTarget, TargetRows, Kinds, NoTargets, Targets

LEMMA CreateInv ==
    ASSUME Inv, NEW u \in Users, NEW isAdmin \in BOOLEAN, NEW e \in Entries,
           NEW c \in Collections \cup {Personal}, NEW svc \in Services, NEW h \in Hosts \cup {NoHost},
           Create(u, isAdmin, e, c, svc, h), UNCHANGED scene
    PROVE  Inv'
<1> DEFINE D == declaredProviderEgress(svc, h)
           x == CreateVaultEntry(u, c, svc, h)
           ch == [by |-> u, hosts |-> {u} \X D, stamps |-> {}]
<1>0. TypeOK /\ Rows
  BY DEF Inv
<1>1. entry[e] = Unborn /\ claim[e] \in ClaimRows
  BY <1>0 DEF Create, TypeOK, ClaimRows
<1>2. chosen[e] = Untouched /\ claim[e] = NoClaim
  BY <1>0, <1>1 DEF Rows, RowOK, Backed
<1>3. D \in SUBSET Hosts
  BY EgressHosts
<1> HIDE DEF D
<1>4. x = [state |-> "live", holder |-> u, owner |-> u, coll |-> c, ceiling |-> D,
           provider |-> svc, meta |-> h, targets |-> NoTargets,
           name |-> bidxScope(u, c), url |-> bidxScope(u, c)]
  BY DEF CreateVaultEntry, seedCapabilityDefaults, D
<1> HIDE DEF x
<1>5. /\ x.state = "live" /\ x.owner = u /\ x.holder = u /\ x.coll = c
      /\ x.ceiling = D /\ x.provider = svc /\ x.meta = h
      /\ x.targets = NoTargets /\ x.name = bidxScope(u, c) /\ x.url = bidxScope(u, c)
  BY <1>4
<1>6. x \in EntryRows /\ x # Unborn
  <2>1. bidxScope(u, c) \in Scopes
    BY DEF bidxScope, Scopes
  <2>2. x \in LiveRows
    BY <1>3, <1>4, <2>1, NoTargetsForm DEF LiveRows
  <2> QED BY <1>5, <2>2, RowShapes, EntryForm
<1>7. ch \in ChoiceRows /\ ch.by = u /\ ch.hosts = {u} \X D
  BY <1>3 DEF ChoiceRows, Authors
<1>8. Widens(chosen[e], ch)
  BY <1>2 DEF Widens
<1>9. u \in Ent(ch, Admins) /\ Nobody \in Ent(ch, Admins) /\ D \subseteq Dir(ch, Admins)
  BY <1>3, <1>7 DEF Ent, Dir
<1>10. RowOK(x, claim[e], ch, Admins)
  <2> HIDE DEF ch
  <2>1. Backed(x, claim[e], ch, Admins)
    <3>1. NoClaim.prev = Nobody
      BY DEF NoClaim
    <3>2. ch.hosts \subseteq Ent(ch, Admins) \X Hosts
      BY <1>3, <1>7, <1>9
    <3> QED BY <1>2, <1>5, <1>6, <1>9, <3>1, <3>2 DEF Backed
  <2>2. Armed(x, claim[e], ch, Admins)
    <3>1. Reach(x) = D
      BY <1>5 DEF Reach, D
    <3> QED BY <1>5, <1>9, <3>1, NoTargetsForm DEF Armed, Posted
  <2>3. Indexed(x)
    BY <1>5 DEF Indexed
  <2> QED BY <2>1, <2>2, <2>3 DEF RowOK
<1>11. /\ entry' = [entry EXCEPT ![e] = x] /\ chosen' = [chosen EXCEPT ![e] = ch]
       /\ claim' = [claim EXCEPT ![e] = claim[e]]
       /\ UNCHANGED <<status, role, member, open, wired, claims, purge>>
  BY <1>0 DEF Create, TypeOK, accountVars, teamVars, x, D
<1>12. PurgeMoves /\ Rewired
  BY <1>0, <1>11 DEF PurgeMoves, Rewired, TypeOK
<1> HIDE DEF ch
<1> QED BY <1>1, <1>6, <1>7, <1>8, <1>10, <1>11, <1>12, RowStep

(* A rewritten row that keeps its owner and its claim. *)
LEMMA EditStep ==
    ASSUME Inv, NEW e \in Entries, Live(e), NEW x \in LiveRows, NEW ch \in ChoiceRows,
           entry' = [entry EXCEPT ![e] = x], chosen' = [chosen EXCEPT ![e] = ch],
           UNCHANGED <<scene, status, role, member, open, claim, wired, claims, purge>>,
           Widens(chosen[e], ch), ch.hosts \subseteq Ent(ch, Admins) \X Hosts,
           x.owner = entry[e].owner,
           \A h \in Hosts : \/ x.targets[h] = entry[e].targets[h]
                            \/ Posted(x.targets[h], h, ch, Admins),
           Reach(x) \subseteq Reach(entry[e]) \cup Dir(ch, Admins),
           Indexed(x)
    PROVE  Inv'
<1>0. TypeOK /\ Rows
  BY DEF Inv
<1>1. /\ entry[e] \in LiveRows /\ entry[e] # Unborn /\ claim[e] \in ClaimRows
      /\ entry[e].state = "live" /\ x.state = "live" /\ x \in EntryRows /\ x # Unborn
  <2>1. entry[e] \in LiveRows /\ entry[e] # Unborn /\ claim[e] \in ClaimRows
    BY <1>0, LiveForm
  <2>2. x.state = "live" /\ entry[e].state = "live"
    BY DEF LiveRows, Live
  <2> QED BY <2>1, <2>2, RowShapes, EntryForm
<1>2. /\ Ent(chosen[e], Admins) \subseteq Ent(ch, Admins)
      /\ Dir(chosen[e], Admins) \subseteq Dir(ch, Admins)
      /\ chosen[e].hosts \subseteq ch.hosts
      /\ \A t, h : Posted(t, h, chosen[e], Admins) => Posted(t, h, ch, Admins)
  BY Growth
<1>3. RowOK(entry[e], claim[e], chosen[e], Admins)
  BY <1>0 DEF Rows
<1>5. Backed(x, claim[e], ch, Admins)
  BY <1>1, <1>2, <1>3 DEF RowOK, Backed
<1>6. Armed(x, claim[e], ch, Admins)
  <2>1. \A h \in Hosts : Posted(x.targets[h], h, ch, Admins)
    BY <1>1, <1>2, <1>3 DEF RowOK, Armed
  <2>2. Reach(x) \subseteq Dir(ch, Admins) \/ Ownerless(x, claim[e], ch)
    BY <1>1, <1>2, <1>3 DEF RowOK, Armed, Ownerless
  <2> QED BY <2>1, <2>2 DEF Armed
<1>7. RowOK(x, claim[e], ch, Admins)
  BY <1>5, <1>6 DEF RowOK
<1>8. claim' = [claim EXCEPT ![e] = claim[e]]
  BY <1>0 DEF TypeOK
<1>9. PurgeMoves /\ Rewired
  BY <1>0 DEF PurgeMoves, Rewired, TypeOK
<1> QED BY <1>1, <1>7, <1>8, <1>9, RowStep

LEMMA ManagedIsLive ==
    ASSUME NEW u, NEW isAdmin, NEW e, entryAccess(u, isAdmin, e)
    PROVE  Live(e)
  BY DEF entryAccess, grantFor

LEMMA MoveInv ==
    ASSUME Inv, NEW u \in Users, NEW isAdmin \in BOOLEAN, NEW e \in Entries,
           NEW c \in Collections \cup {Personal},
           MoveToCollection(u, isAdmin, e, c), UNCHANGED scene
    PROVE  Inv'
<1> DEFINE x == [entry[e] EXCEPT !.coll = c, !.name = bidxScope(entry[e].holder, c),
                                 !.url = bidxScope(entry[e].holder, c)]
<1>0. TypeOK /\ Rows
  BY DEF Inv
<1>1. Live(e)
  BY ManagedIsLive DEF MoveToCollection
<1>2. entry[e] \in LiveRows /\ chosen[e] \in ChoiceRows
  BY <1>0, <1>1, LiveForm
<1>3. bidxScope(entry[e].holder, c) \in Scopes
  BY <1>2 DEF LiveRows, bidxScope, Scopes
<1>4. x \in LiveRows
  BY <1>2, <1>3 DEF LiveRows
<1>5. /\ x.owner = entry[e].owner /\ x.targets = entry[e].targets /\ x.ceiling = entry[e].ceiling
      /\ x.provider = entry[e].provider /\ x.meta = entry[e].meta /\ x.holder = entry[e].holder /\ x.coll = c
      /\ x.name = bidxScope(entry[e].holder, c) /\ x.url = bidxScope(entry[e].holder, c)
  BY <1>2 DEF LiveRows
<1>6. /\ entry' = [entry EXCEPT ![e] = x]
      /\ UNCHANGED <<status, role, member, open, claim, wired, claims, purge, chosen>>
  <2>1. Reindexed([entry[e] EXCEPT !.coll = c], entry[e].holder, c) = x
    BY <1>2 DEF Reindexed, LiveRows
  <2> QED BY <2>1 DEF MoveToCollection, accountVars, teamVars
<1>7. chosen' = [chosen EXCEPT ![e] = chosen[e]]
  BY <1>0, <1>6 DEF TypeOK
<1>8. Widens(chosen[e], chosen[e]) /\ chosen[e].hosts \subseteq Ent(chosen[e], Admins) \X Hosts
  BY <1>0 DEF Widens, Rows, RowOK, Backed
<1>9. Indexed(x) /\ Reach(x) = Reach(entry[e])
  BY <1>5 DEF Indexed, Reach
<1> HIDE DEF x
<1> QED BY <1>1, <1>2, <1>4, <1>5, <1>6, <1>7, <1>8, <1>9, EditStep

(* A rename keeps the row, or hands it to a manager of its collection, whose *)
(* vault is the same one.                                                    *)
LEMMA RenamedRow ==
    ASSUME Inv, NEW u \in Users, NEW isAdmin \in BOOLEAN, NEW e \in Entries, Live(e),
           MayRename(u, isAdmin, e), NEW r, r = Renamed(u, isAdmin, e)
    PROVE  /\ r \in LiveRows /\ Indexed(r)
           /\ r.owner = entry[e].owner /\ r.targets = entry[e].targets
           /\ Reach(r) = Reach(entry[e])
<1>1. entry[e] \in LiveRows /\ Indexed(entry[e])
  BY LiveForm DEF Inv, Rows, RowOK
<1>2. CASE isAdmin \/ entry[e].holder = u
  BY <1>1, <1>2 DEF Renamed
<1>3. CASE ~(isAdmin \/ entry[e].holder = u)
  <2>1. entry[e].coll # Personal
    BY <1>3 DEF MayRename, managerMayAdoptOrphanedEntry
  <2>2. r = [entry[e] EXCEPT !.holder = u, !.name = entry[e].coll]
    BY <1>3, <2>1 DEF Renamed, AdoptAndRenameVaultEntry, bidxScope
  <2>3. entry[e].coll \in Scopes
    BY <1>1, <2>1 DEF LiveRows, Scopes
  <2>4. r \in LiveRows
    BY <1>1, <2>2, <2>3 DEF LiveRows
  <2>5. /\ r.owner = entry[e].owner /\ r.targets = entry[e].targets
        /\ r.ceiling = entry[e].ceiling /\ r.meta = entry[e].meta
        /\ r.provider = entry[e].provider
        /\ r.coll = entry[e].coll /\ r.name = entry[e].coll /\ r.url = entry[e].url
        /\ r.state = "live" /\ entry[e].state = "live"
    BY <1>1, <2>2 DEF LiveRows
  <2>6. entry[e].url = entry[e].coll
    BY <1>1, <2>1, <2>5 DEF Indexed, bidxScope
  <2>7. Indexed(r) /\ Reach(r) = Reach(entry[e])
    BY <2>1, <2>5, <2>6 DEF Indexed, bidxScope, Reach
  <2> QED BY <2>4, <2>5, <2>7
<1> QED BY <1>2, <1>3

LEMMA UpdateInv ==
    ASSUME Inv, NEW u \in Users, NEW isAdmin \in BOOLEAN, NEW e \in Entries,
           NEW rename \in BOOLEAN, NEW ceiling \in SUBSET Hosts,
           NEW svc \in Services, NEW h \in Hosts \cup {NoHost},
           Update(u, isAdmin, e, rename, ceiling, svc, h), UNCHANGED scene
    PROVE  Inv'
<1> DEFINE may == mayDirectSecretEgress(u, isAdmin, e)
           row == IF rename THEN Renamed(u, isAdmin, e) ELSE entry[e]
           hosts == declaredProviderEgress(svc, h)
           seeded == IF <<svc, h>> # <<entry[e].provider, entry[e].meta>> /\ may
                     THEN seedCapabilityDefaults(ceiling, hosts) ELSE ceiling
           added == (seeded \ ceilingOf(e)) \cup (hosts \ Declared(e))
           x == [row EXCEPT !.ceiling = seeded, !.provider = svc, !.meta = h]
           ch == Noted(e, u, added, {})
<1>0. TypeOK /\ Current /\ Rows
  BY DEF Inv
<1>1. Live(e) /\ (isAdmin => u \in Admins)
  BY <1>0, ManagedIsLive, ActingAdmin DEF Update
<1>2. entry[e] \in LiveRows /\ chosen[e] \in ChoiceRows /\ Indexed(entry[e])
  BY <1>0, <1>1, LiveForm DEF Rows, RowOK
<1>3. /\ row \in LiveRows /\ Indexed(row)
      /\ row.owner = entry[e].owner /\ row.targets = entry[e].targets
  <2>1. CASE rename
    <3>1. MayRename(u, isAdmin, e)
      BY <2>1 DEF Update
    <3> QED BY <1>1, <2>1, <3>1, RenamedRow
  <2>2. CASE ~rename
    BY <1>2, <2>2
  <2> QED BY <2>1, <2>2
<1>4. may => u \in {chosen[e].by} \cup Admins
  BY <1>1, DirectorEntitled
<1>5. /\ hosts \in SUBSET Hosts /\ seeded \in SUBSET Hosts /\ added \in SUBSET Hosts
  <2>1. hosts \in SUBSET Hosts
    BY EgressHosts
  <2> HIDE DEF hosts
  <2> QED BY <2>1 DEF seedCapabilityDefaults
<1>6. ~may => added = {}
  <2>1. SUFFICES ASSUME ~may PROVE added = {}
    OBVIOUS
  <2>2. seeded = ceiling
    BY <2>1
  <2>3. ceiling \subseteq ceilingOf(e)
    BY <2>1 DEF Update, SetDestinationPatterns, Decide
  <2>4. hosts \subseteq Declared(e)
    BY <2>1 DEF Update, SetProvider, Decide
  <2> HIDE DEF seeded, hosts
  <2> QED BY <2>2, <2>3, <2>4
<1>7. /\ ch \in ChoiceRows /\ Widens(chosen[e], ch)
      /\ added \subseteq Dir(ch, Admins)
      /\ ch.hosts \subseteq Ent(ch, Admins) \X Hosts
  <2>1. added # {} => u \in Ent(chosen[e], Admins)
    BY <1>4, <1>6 DEF Ent
  <2>2. {} \in Authors
    BY DEF Authors
  <2> HIDE DEF added
  <2> QED BY <1>5, <2>1, <2>2, Recorded
<1>8. x \in LiveRows
  <2> HIDE DEF row, seeded
  <2> QED BY <1>3, <1>5 DEF LiveRows
<1>9. /\ x.owner = row.owner /\ x.targets = row.targets /\ x.ceiling = seeded /\ x.meta = h
      /\ x.provider = svc
      /\ x.state = row.state /\ x.holder = row.holder /\ x.coll = row.coll
      /\ x.name = row.name /\ x.url = row.url
  <2> HIDE DEF row, seeded
  <2> QED BY <1>3 DEF LiveRows
<1>10. Indexed(x)
  <2> HIDE DEF x, row
  <2> QED BY <1>3, <1>9 DEF Indexed
<1>11. Reach(x) \subseteq Reach(entry[e]) \cup Dir(ch, Admins)
  <2>1. Reach(x) = seeded \cup hosts
    <3> HIDE DEF x, seeded
    <3> QED BY <1>9 DEF Reach
  <2>2. Reach(entry[e]) = ceilingOf(e) \cup Declared(e)
    BY DEF Reach, ceilingOf, Declared
  <2>3. seeded \cup hosts \subseteq ceilingOf(e) \cup Declared(e) \cup added
    <3> HIDE DEF seeded, hosts
    <3> QED OBVIOUS
  <2> HIDE DEF x, ch, added, seeded, hosts
  <2> QED BY <1>7, <2>1, <2>2, <2>3
<1>12. /\ entry' = [entry EXCEPT ![e] = x]
       /\ UNCHANGED <<status, role, member, open, claim, wired, claims, purge>>
  BY DEF Update, accountVars, teamVars
<1>13. chosen' = [chosen EXCEPT ![e] = ch]
  <2>1. Adds(u, e, added)
    BY DEF Update
  <2> HIDE DEF added
  <2>2. [chosen[e] EXCEPT !.hosts = chosen[e].hosts \cup ({u} \X added)] = ch
    BY <1>2 DEF Noted, ChoiceRows
  <2> HIDE DEF ch
  <2> QED BY <2>1, <2>2 DEF Adds
<1> HIDE DEF x, ch, row, seeded, added, may, hosts
<1> QED BY <1>1, <1>3, <1>7, <1>8, <1>9, <1>10, <1>11, <1>12, <1>13, EditStep

LEMMA UpdateTargetsInv ==
    ASSUME Inv, NEW u \in Users, NEW isAdmin \in BOOLEAN, NEW e \in Entries,
           NEW want \in Targets, UpdateTargets(u, isAdmin, e, want), UNCHANGED scene
    PROVE  Inv'
<1> DEFINE old == entry[e].targets
           new == Attributed(e, u, want)
           had == rotationTargetIdentity(old)
           has == rotationTargetIdentity(new)
           added == {h \in Hosts : new[h] # NoTarget /\ ~(old[h] # NoTarget /\ old[h].kind = new[h].kind)}
           stamps == {<<new[h].by, h>> : h \in {g \in Hosts : new[g] # NoTarget}}
           x == [entry[e] EXCEPT !.targets = new]
           ch == Noted(e, u, added, stamps)
<1>0. TypeOK /\ Rows
  BY DEF Inv
<1>1. Live(e)
  BY ManagedIsLive DEF UpdateTargets
<1>2. /\ entry[e] \in LiveRows /\ chosen[e] \in ChoiceRows /\ Indexed(entry[e])
      /\ RowOK(entry[e], claim[e], chosen[e], Admins) /\ entry[e].state = "live"
  BY <1>0, <1>1, LiveForm DEF Rows, RowOK, Live
<1>3. new \in Targets /\ old \in Targets
  <2>1. old \in Targets
    BY <1>2 DEF LiveRows
  <2>2. ASSUME NEW h \in Hosts PROVE new[h] \in TargetRows
    <3>1. want[h] \in TargetRows /\ old[h] \in TargetRows
      BY <2>1 DEF Targets
    <3>2. \A v \in Users \cup {Nobody} : [want[h] EXCEPT !.by = v] \in TargetRows
      BY <3>1 DEF TargetRows
    <3>3. old[h].by \in Users \cup {Nobody}
      BY <3>1 DEF TargetRows
    <3> QED BY <3>1, <3>2, <3>3 DEF Attributed
  <2>3. new = [h \in Hosts |-> new[h]]
    BY DEF Attributed
  <2> HIDE DEF new
  <2> QED BY <2>1, <2>2, <2>3 DEF Targets
<1>4. /\ had = {<<h, old[h].kind>> : h \in {g \in Hosts : old[g] # NoTarget}}
      /\ has = {<<h, new[h].kind>> : h \in {g \in Hosts : new[g] # NoTarget}}
  BY DEF rotationTargetIdentity
<1>5. /\ Decide(had, has, mayConfigureDelivery(u, e))
      /\ entry' = [entry EXCEPT ![e] = x]
      /\ chosen' = [chosen EXCEPT ![e].hosts = @ \cup {<<u, y[1]>> : y \in has \ had},
                                  ![e].stamps = @ \cup {<<new[y[1]].by, y[1]>> : y \in has}]
      /\ UNCHANGED <<status, role, member, open, claim, wired, claims, purge>>
  BY <1>0 DEF UpdateTargets, accountVars, teamVars
<1> HIDE DEF had, has, new, old
<1>6a. ASSUME NEW h \in Hosts PROVE h \in added <=> <<h, new[h].kind>> \in has \ had
  BY <1>4
<1>6. /\ {<<u, y[1]>> : y \in has \ had} = {u} \X added
      /\ {<<new[y[1]].by, y[1]>> : y \in has} = stamps
  <2>2. {<<u, y[1]>> : y \in has \ had} = {u} \X added
    <3>1. ASSUME NEW y \in has \ had PROVE <<u, y[1]>> \in {u} \X added
      BY <1>4, <1>6a
    <3>2. ASSUME NEW z \in {u} \X added PROVE \E y \in has \ had : z = <<u, y[1]>>
      <4>1. PICK h \in added : z = <<u, h>>
        OBVIOUS
      <4>2. <<h, new[h].kind>> \in has \ had
        BY <1>6a
      <4> QED BY <4>1, <4>2
    <3> QED BY <3>1, <3>2
  <2>3. {<<new[y[1]].by, y[1]>> : y \in has} = stamps
    <3>1. ASSUME NEW y \in has PROVE <<new[y[1]].by, y[1]>> \in stamps
      <4>1. PICK h \in {g \in Hosts : new[g] # NoTarget} : y = <<h, new[h].kind>>
        BY <1>4
      <4>2. y[1] = h
        BY <4>1
      <4> QED BY <4>2
    <3>2. ASSUME NEW z \in stamps PROVE \E y \in has : z = <<new[y[1]].by, y[1]>>
      <4>1. PICK h \in {g \in Hosts : new[g] # NoTarget} : z = <<new[h].by, h>>
        OBVIOUS
      <4>2. <<h, new[h].kind>> \in has /\ <<h, new[h].kind>>[1] = h
        BY <1>4
      <4> QED BY <4>1, <4>2
    <3> HIDE DEF stamps
    <3> QED BY <3>1, <3>2
  <2> QED BY <2>2, <2>3
<1>7. added # {} => u \in Ent(chosen[e], Admins)
  <2>1. added # {} => ~(has \subseteq had)
    <3>1. ASSUME NEW h \in added PROVE <<h, new[h].kind>> \in has \ had
      BY <1>6a
    <3> HIDE DEF added
    <3> QED BY <3>1
  <2> QED BY <1>5, <2>1, ConfigurerEntitled DEF Decide, Ent
<1>8. /\ ch \in ChoiceRows /\ Widens(chosen[e], ch)
      /\ added \subseteq Dir(ch, Admins) /\ stamps \subseteq ch.stamps
      /\ ch.hosts \subseteq Ent(ch, Admins) \X Hosts
  <2>1. added \in SUBSET Hosts
    OBVIOUS
  <2>2. stamps \in Authors
    <3>1. \A h \in Hosts : new[h].by \in Users \cup {Nobody}
      BY <1>3 DEF Targets, TargetRows
    <3> QED BY <3>1 DEF Authors
  <2> HIDE DEF added, stamps
  <2> QED BY <1>7, <2>1, <2>2, Recorded
<1>9. x \in LiveRows
  BY <1>2, <1>3 DEF LiveRows
<1>10. /\ x.owner = entry[e].owner /\ x.targets = new
       /\ x.ceiling = entry[e].ceiling /\ x.meta = entry[e].meta /\ x.provider = entry[e].provider
       /\ x.state = entry[e].state /\ x.holder = entry[e].holder /\ x.coll = entry[e].coll
       /\ x.name = entry[e].name /\ x.url = entry[e].url
  BY <1>2 DEF LiveRows
<1>11. ASSUME NEW h \in Hosts PROVE Posted(x.targets[h], h, ch, Admins)
  <2>1. SUFFICES ASSUME new[h] # NoTarget
                 PROVE  /\ h \in Dir(ch, Admins) \/ <<Nobody, h>> \in ch.stamps
                        /\ <<new[h].by, h>> \in ch.stamps
    BY <1>10 DEF Posted
  <2>2. <<new[h].by, h>> \in stamps
    BY <2>1
  <2>3. CASE h \in added
    BY <1>8, <2>2, <2>3
  <2>4. CASE h \notin added
    <3>1. old[h] # NoTarget
      BY <2>1, <2>4
    <3>2. Posted(old[h], h, chosen[e], Admins)
      BY <1>2 DEF RowOK, Armed, old
    <3>3. Posted(old[h], h, ch, Admins)
      BY <1>8, <3>2, Growth
    <3>4. h \in Dir(ch, Admins) \/ <<Nobody, h>> \in ch.stamps
      BY <3>1, <3>3 DEF Posted
    <3> HIDE DEF stamps, ch
    <3> QED BY <1>8, <2>2, <3>4
  <2> QED BY <2>3, <2>4
<1>12. Indexed(x) /\ Reach(x) = Reach(entry[e])
  <2> HIDE DEF x
  <2> QED BY <1>2, <1>10 DEF Indexed, Reach
<1>13. chosen' = [chosen EXCEPT ![e] = ch]
  <2> HIDE DEF added, stamps
  <2>1. chosen' = [chosen EXCEPT ![e].hosts = @ \cup ({u} \X added), ![e].stamps = @ \cup stamps]
    BY <1>5, <1>6
  <2> QED BY <1>0, <1>2, <2>1 DEF Noted, TypeOK, ChoiceRows
<1> HIDE DEF x, ch, added, stamps
<1> QED BY <1>1, <1>5, <1>8, <1>9, <1>10, <1>11, <1>12, <1>13, EditStep

LEMMA DeleteInv ==
    ASSUME Inv, NEW u \in Users, NEW isAdmin \in BOOLEAN, NEW e \in Entries,
           Delete(u, isAdmin, e), UNCHANGED scene
    PROVE  Inv'
<1>0. TypeOK /\ Rows
  BY DEF Inv
<1>1. chosen[e] \in ChoiceRows /\ Gone \in EntryRows /\ NoClaim \in ClaimRows
  BY <1>0, LiveForm, RowShapes
<1>2. Gone.state = "gone" /\ Gone # Unborn /\ NoClaim.prev = Nobody
  BY <1>1, EntryForm DEF NoClaim
<1>3. RowOK(Gone, NoClaim, chosen[e], Admins)
  BY <1>0, <1>2 DEF Rows, RowOK, Backed, Armed, Indexed, Ent
<1>4. /\ entry' = [entry EXCEPT ![e] = Gone] /\ claim' = [claim EXCEPT ![e] = NoClaim]
      /\ chosen' = [chosen EXCEPT ![e] = chosen[e]]
      /\ UNCHANGED <<status, role, member, open, wired, claims, purge>>
  BY <1>0 DEF Delete, TypeOK, accountVars, teamVars
<1>5. PurgeMoves /\ Rewired /\ Widens(chosen[e], chosen[e])
  BY <1>0, <1>4 DEF PurgeMoves, Rewired, TypeOK, Widens
<1> QED BY <1>1, <1>3, <1>4, <1>5, RowStep

-----------------------------------------------------------------------------
(* The administrators' routes. *)

(* What an adapter calls whatever its settings say was nobody's choice, or   *)
(* chosen by somebody entitled.                                              *)
LEMMA KeptVendors ==
    ASSUME Inv, NEW e \in Entries, Live(e)
    PROVE  /\ declaredProviderEgress(entry[e].provider, NoHost) \cap Declared(e)
                  \subseteq Dir(chosen[e], Admins)
           /\ metaIndependentProviderEgress(entry[e].provider, entry[e].meta)
                  \subseteq Dir(chosen[e], Admins)
<1>1. /\ entry[e] \in LiveRows /\ RowOK(entry[e], claim[e], chosen[e], Admins)
      /\ entry[e].state = "live"
  BY LiveForm DEF Inv, Rows, Live
<1>2. entry[e].provider \in Services /\ entry[e].meta \in Hosts \cup {NoHost}
  BY <1>1 DEF LiveRows
<1> DEFINE M == metaIndependentProviderEgress(entry[e].provider, entry[e].meta)
<1>3. /\ M = declaredProviderEgress(entry[e].provider, NoHost) \cap Declared(e)
      /\ M \subseteq VendorHosts /\ VendorHosts \subseteq Hosts
  <2>1. M \subseteq VendorHosts /\ VendorHosts \subseteq Hosts
    BY <1>2, EgressHosts
  <2> QED BY <2>1 DEF metaIndependentProviderEgress, Declared
<1>4. M \subseteq Reach(entry[e])
  BY <1>3 DEF Reach, Declared
<1> HIDE DEF M
<1>5. CASE Reach(entry[e]) \subseteq Dir(chosen[e], Admins)
  BY <1>3, <1>4, <1>5 DEF M
<1>6. CASE Ownerless(entry[e], claim[e], chosen[e])
  <2>1. \A h \in VendorHosts : <<Nobody, h>> \in chosen[e].hosts /\ h \in Hosts
    BY <1>3, <1>6 DEF Ownerless
  <2>2. VendorHosts \subseteq Dir(chosen[e], Admins)
    BY <2>1 DEF Dir, Ent
  <2> QED BY <1>3, <2>2 DEF M
<1> QED BY <1>1, <1>5, <1>6 DEF RowOK, Armed

LEMMA ClaimInv ==
    ASSUME Inv, NEW u \in Users, NEW e \in Entries, ClaimSecretOwnership(u, e), UNCHANGED scene
    PROVE  Inv'
<1> DEFINE s == bidxScope(u, entry[e].coll)
           D == declaredProviderEgress(entry[e].provider, NoHost)
           added == D \ Declared(e)
           x == [entry[e] EXCEPT !.holder = u, !.owner = u, !.ceiling = {}, !.meta = NoHost,
                                 !.name = s, !.url = s]
           cl == [by |-> u, prev |-> entry[e].owner]
           ch == Noted(e, u, added, {})
<1>0. TypeOK /\ Current /\ Rows
  BY DEF Inv
<1>1. Live(e)
  BY DEF ClaimSecretOwnership, ListUnownedEntries, ListVaultEntriesWithNoRecordedOwner,
         expiredOwnerEntries
<1>2. entry[e] \in LiveRows /\ chosen[e] \in ChoiceRows /\ entry[e].state = "live"
  BY <1>0, <1>1, LiveForm DEF Live
<1>3. u \in Admins /\ u \in Ent(chosen[e], Admins)
  BY <1>0, ActingAdmin DEF ClaimSecretOwnership, Ent
<1>4. s \in Scopes /\ D \in SUBSET Hosts
  <2>1. s \in Scopes
    BY <1>2 DEF LiveRows, bidxScope, Scopes
  <2>2. entry[e].provider \in Services
    BY <1>2 DEF LiveRows
  <2> QED BY <2>1, <2>2, EgressHosts
<1>5. x \in LiveRows
  <2> HIDE DEF s
  <2> QED BY <1>2, <1>4 DEF LiveRows
<1>6. /\ x.owner = u /\ x.targets = entry[e].targets /\ x.ceiling = {} /\ x.meta = NoHost
      /\ x.provider = entry[e].provider
      /\ x.state = "live" /\ x.holder = u /\ x.coll = entry[e].coll /\ x.name = s /\ x.url = s
  <2> HIDE DEF s
  <2> QED BY <1>2 DEF LiveRows
<1>7. x \in EntryRows /\ x # Unborn
  <2> HIDE DEF x
  <2> QED BY <1>5, <1>6, RowShapes, EntryForm
<1>8. cl \in ClaimRows /\ cl.prev = entry[e].owner
  BY <1>2 DEF ClaimRows, LiveRows
<1>9. RowOK(entry[e], claim[e], chosen[e], Admins)
  BY <1>0 DEF Rows
<1>10. /\ ch \in ChoiceRows /\ Widens(chosen[e], ch)
       /\ added \subseteq Dir(ch, Admins)
       /\ ch.hosts \subseteq Ent(ch, Admins) \X Hosts
  <2>1. added \in SUBSET Hosts /\ {} \in Authors
    BY <1>4 DEF Authors
  <2> HIDE DEF added
  <2> QED BY <1>3, <2>1, Recorded
<1>11. /\ Ent(chosen[e], Admins) \subseteq Ent(ch, Admins)
       /\ Dir(chosen[e], Admins) \subseteq Dir(ch, Admins)
       /\ \A t, h : Posted(t, h, chosen[e], Admins) => Posted(t, h, ch, Admins)
  BY <1>10, Growth
<1>12. D \subseteq Dir(ch, Admins)
  <2>1. D \cap Declared(e) \subseteq Dir(chosen[e], Admins)
    BY <1>1, KeptVendors
  <2> HIDE DEF D, ch
  <2> QED BY <1>10, <1>11, <2>1
<1>13. RowOK(x, cl, ch, Admins)
  <2>1. Reach(x) = D
    <3> HIDE DEF x
    <3> QED BY <1>6 DEF Reach
  <2> HIDE DEF x, cl, s, ch, D, added
  <2>2. Backed(x, cl, ch, Admins)
    BY <1>2, <1>3, <1>6, <1>7, <1>8, <1>9, <1>10, <1>11 DEF RowOK, Backed
  <2>3. Armed(x, cl, ch, Admins)
    BY <1>2, <1>6, <1>9, <1>11, <1>12, <2>1 DEF RowOK, Armed
  <2>4. Indexed(x)
    BY <1>6 DEF Indexed, s
  <2> QED BY <2>2, <2>3, <2>4 DEF RowOK
<1>14. entry' = [entry EXCEPT ![e] = x]
  <2>1. Reindexed(disarmRecordedDestinations(TransferSecretOwnership(entry[e], u)), u, entry[e].coll) = x
    BY <1>2 DEF Reindexed, disarmRecordedDestinations, TransferSecretOwnership, LiveRows
  <2> QED BY <2>1 DEF ClaimSecretOwnership
<1>15. /\ claim' = [claim EXCEPT ![e] = cl]
       /\ UNCHANGED <<status, role, member, open, wired, claims, purge>>
  BY <1>0 DEF ClaimSecretOwnership, RecordClaim, TypeOK, accountVars, teamVars
<1>16. chosen' = [chosen EXCEPT ![e] = ch]
  <2>1. Declared(e)' = D
    <3>1. entry'[e] = x
      BY <1>0, <1>14 DEF TypeOK
    <3> HIDE DEF x
    <3> QED BY <1>6, <3>1 DEF Declared, D
  <2>2. Adds(u, e, added)
    BY <2>1 DEF ClaimSecretOwnership
  <2> HIDE DEF added
  <2>3. [chosen[e] EXCEPT !.hosts = chosen[e].hosts \cup ({u} \X added)] = ch
    BY <1>2 DEF Noted, ChoiceRows
  <2> HIDE DEF ch
  <2> QED BY <2>2, <2>3 DEF Adds
<1>17. PurgeMoves /\ Rewired
  BY <1>0, <1>15 DEF PurgeMoves, Rewired, TypeOK
<1> HIDE DEF x, cl, s, ch, D, added
<1> QED BY <1>7, <1>8, <1>10, <1>13, <1>14, <1>15, <1>16, <1>17, RowStep

LEMMA RestoreInv ==
    ASSUME Inv, NEW u \in Users, NEW e \in Entries, RestoreSecretOwnership(u, e), UNCHANGED scene
    PROVE  Inv'
<1> DEFINE t == claim[e].prev
           s == bidxScope(t, entry[e].coll)
           x == [entry[e] EXCEPT !.holder = t, !.owner = t, !.name = s, !.url = s]
<1>0. TypeOK /\ Rows
  BY DEF Inv
<1>1. Live(e) /\ claim[e] # NoClaim /\ t # Nobody
  BY DEF RestoreSecretOwnership
<1>2. entry[e] \in LiveRows /\ chosen[e] \in ChoiceRows /\ entry[e].state = "live" /\ t \in Users
  BY <1>0, <1>1, LiveForm DEF Live, ClaimRows
<1>3. s \in Scopes
  BY <1>2 DEF LiveRows, bidxScope, Scopes
<1>4. x \in LiveRows
  <2> HIDE DEF s, t
  <2> QED BY <1>2, <1>3 DEF LiveRows
<1>5. /\ x.owner = t /\ x.targets = entry[e].targets /\ x.ceiling = entry[e].ceiling
      /\ x.provider = entry[e].provider
      /\ x.meta = entry[e].meta /\ x.state = "live" /\ x.holder = t /\ x.coll = entry[e].coll
      /\ x.name = s /\ x.url = s
  <2> HIDE DEF s, t
  <2> QED BY <1>2 DEF LiveRows
<1>6. x \in EntryRows /\ x # Unborn
  <2> HIDE DEF x
  <2> QED BY <1>4, <1>5, RowShapes, EntryForm
<1>7. RowOK(entry[e], claim[e], chosen[e], Admins)
  BY <1>0 DEF Rows
<1>8. NoClaim \in ClaimRows /\ NoClaim.prev = Nobody
  BY RowShapes DEF NoClaim
<1>9. RowOK(x, NoClaim, chosen[e], Admins)
  <2> HIDE DEF x, s
  <2>1. Backed(x, NoClaim, chosen[e], Admins)
    BY <1>2, <1>5, <1>6, <1>7, <1>8 DEF RowOK, Backed, Ent
  <2>2. Armed(x, NoClaim, chosen[e], Admins)
    BY <1>1, <1>2, <1>5, <1>7 DEF RowOK, Armed, Ownerless, Reach
  <2>3. Indexed(x)
    BY <1>5 DEF Indexed, s
  <2> QED BY <2>1, <2>2, <2>3 DEF RowOK
<1>10. entry' = [entry EXCEPT ![e] = x]
  <2>1. Reindexed(TransferSecretOwnership(entry[e], t), t, entry[e].coll) = x
    BY <1>2 DEF Reindexed, TransferSecretOwnership, LiveRows
  <2> QED BY <2>1 DEF RestoreSecretOwnership
<1>11. /\ claim' = [claim EXCEPT ![e] = NoClaim] /\ chosen' = [chosen EXCEPT ![e] = chosen[e]]
       /\ UNCHANGED <<status, role, member, open, wired, claims, purge>>
  BY <1>0 DEF RestoreSecretOwnership, TypeOK, accountVars, teamVars
<1>12. PurgeMoves /\ Rewired /\ Widens(chosen[e], chosen[e])
  BY <1>0, <1>11 DEF PurgeMoves, Rewired, TypeOK, Widens
<1> HIDE DEF x, s, t
<1> QED BY <1>2, <1>6, <1>8, <1>9, <1>10, <1>11, <1>12, RowStep

LEMMA UpdateConfigInv ==
    ASSUME Inv, NEW u \in Users, NEW p \in Providers, NEW e \in Entries \cup {Nobody},
           UpdateConfig(u, p, e), UNCHANGED scene
    PROVE  Inv'
<1>0. TypeOK /\ Current /\ Rows /\ Wiring
  BY DEF Inv
<1>1. /\ wired' = [wired EXCEPT ![p] = e]
      /\ wired' \in [Providers -> Entries \cup {Nobody}]
      /\ UNCHANGED <<status, role, member, open, entry, claim, claims, purge>>
  BY <1>0 DEF UpdateConfig, TypeOK, accountVars, teamVars
<1>2. u \in Admins /\ Admins' = Admins
  BY <1>0, <1>1, ActingAdmin DEF UpdateConfig, Admins
<1>3. PurgeMoves
  BY <1>0, <1>1 DEF PurgeMoves, TypeOK
<1>4. CASE e \in Entries
  <2> DEFINE ch == Noted(e, u, {ApiHost[p]}, {})
  <2>1. Live(e) /\ entry[e] \in EntryRows /\ entry[e] # Unborn /\ claim[e] \in ClaimRows
    BY <1>0, <1>4, LiveForm DEF UpdateConfig, requireEntry
  <2>2. ApiHost[p] \in Hosts
    BY CustodyAssumption
  <2>3. /\ ch \in ChoiceRows /\ Widens(chosen[e], ch) /\ ApiHost[p] \in Dir(ch, Admins)
        /\ ch.hosts \subseteq Ent(ch, Admins) \X Hosts
    <3>1. u \in Ent(chosen[e], Admins) /\ {} \in Authors
      BY <1>2 DEF Ent, Authors
    <3> DEFINE H == {ApiHost[p]}
    <3>2. H \in SUBSET Hosts /\ u \in Users \cup {Nobody} /\ ApiHost[p] \in H
      BY <2>2
    <3> HIDE DEF H
    <3>3. /\ Noted(e, u, H, {}) \in ChoiceRows /\ Widens(chosen[e], Noted(e, u, H, {}))
          /\ H \subseteq Dir(Noted(e, u, H, {}), Admins)
          /\ Noted(e, u, H, {}).hosts \subseteq Ent(Noted(e, u, H, {}), Admins) \X Hosts
      BY <1>4, <3>1, <3>2, Recorded
    <3>4. ch = Noted(e, u, H, {})
      BY DEF H
    <3> HIDE DEF ch
    <3> QED BY <3>2, <3>3, <3>4
  <2>4. /\ chosen' = [chosen EXCEPT ![e] = ch]
        /\ entry' = [entry EXCEPT ![e] = entry[e]] /\ claim' = [claim EXCEPT ![e] = claim[e]]
    <3>1. [chosen[e] EXCEPT !.hosts = chosen[e].hosts \cup ({u} \X {ApiHost[p]})] = ch
      BY <1>0, <1>4, LiveForm DEF Noted, ChoiceRows
    <3> HIDE DEF ch
    <3> QED BY <1>0, <1>1, <1>4, <3>1 DEF UpdateConfig, Adds, TypeOK
  <2> HIDE DEF ch
  <2>5. chosen'[e] = ch /\ \A f \in Entries : f # e => chosen'[f] = chosen[f]
    BY <1>0, <1>4, <2>4 DEF TypeOK
  <2>6. \A f \in Entries : Dir(chosen[f], Admins) \subseteq Dir(chosen'[f], Admins)
    <3>1. Dir(chosen[e], Admins) \subseteq Dir(ch, Admins)
      BY <2>3, Growth
    <3> QED BY <2>5, <3>1
  <2>7. Wiring'
    <3>1. SUFFICES ASSUME NEW q \in Providers, wired'[q] \in Entries
                   PROVE  ApiHost[q] \in Dir(chosen'[wired'[q]], Admins')
      BY DEF Wiring
    <3>2. CASE q = p
      BY <1>0, <1>1, <1>2, <2>3, <2>5, <3>2 DEF TypeOK
    <3>3. CASE q # p
      BY <1>0, <1>1, <1>2, <2>6, <3>1, <3>3 DEF TypeOK, Wiring
    <3> QED BY <3>2, <3>3
  <2>8. RowOK(entry[e], claim[e], ch, Admins)
    <3>1. RowOK(entry[e], claim[e], chosen[e], Admins)
      BY <1>0, <1>4 DEF Rows
    <3>2. /\ Ent(chosen[e], Admins) \subseteq Ent(ch, Admins)
          /\ Dir(chosen[e], Admins) \subseteq Dir(ch, Admins)
          /\ chosen[e].hosts \subseteq ch.hosts
          /\ \A t, h : Posted(t, h, chosen[e], Admins) => Posted(t, h, ch, Admins)
      BY <2>3, Growth
    <3>3. Backed(entry[e], claim[e], ch, Admins)
      BY <2>1, <2>3, <3>1, <3>2 DEF RowOK, Backed
    <3>4. Armed(entry[e], claim[e], ch, Admins)
      BY <3>1, <3>2 DEF RowOK, Armed, Ownerless
    <3> QED BY <3>1, <3>3, <3>4 DEF RowOK
  <2>9. Rewired
    BY <1>1, <2>7 DEF Rewired
  <2> QED BY <1>1, <1>3, <1>4, <2>1, <2>3, <2>4, <2>8, <2>9, RowStep
<1>5. CASE e \notin Entries
  <2>1. UNCHANGED chosen
    BY <1>5 DEF UpdateConfig
  <2>2. Wiring'
    BY <1>0, <1>1, <1>2, <1>5, <2>1 DEF Wiring, TypeOK
  <2>3. Rewired
    BY <1>1, <2>2 DEF Rewired
  <2>4. Current'
    BY <1>0, <1>1 DEF Current
  <2> QED BY <1>0, <1>1, <1>3, <2>1, <2>3, <2>4, AccountStep DEF TypeOK
<1> QED BY <1>4, <1>5

-----------------------------------------------------------------------------
(* Purges. *)

(* A list that is read is that of the row. *)
LEMMA ListInv ==
    ASSUME Inv, NEW p \in Purges, ListVaultEntryTargets(p), UNCHANGED scene
    PROVE  Inv'
<1>0. TypeOK /\ Current /\ Rows /\ Purging /\ Wiring
  BY DEF Inv
<1> DEFINE u == purge[p].user
           rows == {e \in Entries : /\ Live(e)
                                    /\ purge[p].coll \in {Personal, entry[e].coll}
                                    /\ \E h \in Hosts : entry[e].targets[h].by = u}
           seen == [e \in Entries |-> IF e \in rows THEN entry[e].targets ELSE NoTargets]
           q == [pc |-> "write", user |-> u, todo |-> rows, seen |-> seen]
<1>1. /\ UNCHANGED <<status, role, member, open, entry, claim, wired, claims, chosen>>
      /\ purge' = [purge EXCEPT ![p] = IF rows = {} THEN NoPurge ELSE q]
  BY DEF ListVaultEntryTargets, accountVars, teamVars
<1>2. rows \in SUBSET Entries /\ \A e \in rows : Live(e)
  OBVIOUS
<1> HIDE DEF rows
<1>3. u \in Users
  <2>1. purge[p] \in PurgeRows
    BY <1>0 DEF TypeOK
  <2> QED BY <2>1, PurgeForm DEF ListVaultEntryTargets
<1>4. \A e \in rows : entry[e] \in LiveRows
  BY <1>0, <1>2, LiveForm
<1>5. seen \in [Entries -> Targets]
  <2>1. NoTargets \in Targets /\ \A e \in rows : entry[e].targets \in Targets
    BY <1>4, NoTargetsForm DEF LiveRows
  <2> QED BY <2>1
<1>6. \A e \in Entries : SeenOK(seen[e], e)
  <2>1. ASSUME NEW e \in Entries, NEW h \in Hosts
        PROVE  Posted(seen[e][h], h, chosen[e], Admins)
    <3>1. CASE e \in rows
      <4>1. entry[e].state = "live" /\ seen[e] = entry[e].targets
        BY <1>2, <3>1 DEF Live
      <4>2. RowOK(entry[e], claim[e], chosen[e], Admins)
        BY <1>0 DEF Rows
      <4> HIDE DEF seen
      <4> QED BY <4>1, <4>2 DEF RowOK, Armed
    <3>2. CASE e \notin rows
      BY <3>2, NoTargetsForm DEF Posted
    <3> QED BY <3>1, <3>2
  <2> HIDE DEF seen
  <2> QED BY <2>1 DEF SeenOK
<1>7. q \in PurgeRows /\ NoPurge \in PurgeRows /\ NoPurge.pc = "idle" /\ q.pc = "write" /\ q.seen = seen
  <2> HIDE DEF seen, u
  <2>1. q \in WriteRows
    BY <1>2, <1>3, <1>5 DEF WriteRows
  <2> QED BY <2>1 DEF PurgeRows, WriteRows, NoPurge
<1> HIDE DEF q
<1>8. purge' \in [Purges -> PurgeRows]
  BY <1>0, <1>1, <1>7 DEF TypeOK
<1>9. TypeOK'
  BY <1>0, <1>1, <1>8 DEF TypeOK
<1>10. Admins' = Admins
  BY <1>1 DEF Admins
<1>11. Purging'
  <2>1. SUFFICES ASSUME NEW r \in Purges, purge'[r].pc = "write", NEW e \in Entries
                 PROVE  SeenOK(purge'[r].seen[e], e)
    BY <1>1, <1>10 DEF Purging, SeenOK, Posted, Dir, Ent
  <2>2. CASE r = p
    <3>1. purge'[r] = IF rows = {} THEN NoPurge ELSE q
      BY <1>0, <1>1, <2>2 DEF TypeOK
    <3>2. purge'[r] = q
      BY <1>7, <2>1, <3>1
    <3> QED BY <1>6, <1>7, <3>2
  <2>3. CASE r # p
    <3>1. purge'[r] = purge[r]
      BY <1>0, <1>1, <2>3 DEF TypeOK
    <3> QED BY <1>0, <2>1, <3>1 DEF Purging
  <2> QED BY <2>2, <2>3
<1>12. Rows'
  <2>1. ASSUME NEW f \in Entries PROVE RowOK(entry[f], claim[f], chosen[f], Admins)'
    <3>1. RowOK(entry'[f], claim'[f], chosen'[f], Admins')
      BY <1>0, <1>1, <1>10 DEF Rows
    <3> QED BY <3>1 DEF RowOK, Backed, Armed, Posted, Ownerless, Indexed, Dir, Ent
  <2> QED BY <2>1 DEF Rows
<1>13. Current' /\ Wiring'
  BY <1>0, <1>1, <1>10 DEF Current, Wiring
<1> QED BY <1>9, <1>11, <1>12, <1>13 DEF Inv

LEMMA KeptForm ==
    ASSUME NEW targets \in Targets, NEW u
    PROVE  /\ Kept(targets, u) \in Targets
           /\ \A h \in Hosts : Kept(targets, u)[h] \in {targets[h], NoTarget}
<1>1. \A h \in Hosts : targets[h] \in TargetRows
  BY DEF Targets
<1> QED BY <1>1, NoTargetsForm DEF Kept, Targets

(* The list it writes back has the names and the hosts of the list it read. *)
LEMMA PurgeTargetsInv ==
    ASSUME Inv, NEW p \in Purges, NEW e \in Entries, PurgeTargets(p, e), UNCHANGED scene
    PROVE  Inv'
<1> DEFINE kept == Kept(purge[p].seen[e], purge[p].user)
           x == [entry[e] EXCEPT !.targets = kept]
           q == [purge[p] EXCEPT !.todo = @ \ {e}, !.seen[e] = NoTargets]
<1>0. TypeOK /\ Current /\ Rows /\ Purging
  BY DEF Inv
<1>1. /\ UNCHANGED <<status, role, member, open, claim, wired, claims, chosen>>
      /\ purge[p].pc = "write"
      /\ purge' = [purge EXCEPT ![p] = IF purge[p].todo = {e} THEN NoPurge ELSE q]
  <2>1. UNCHANGED <<status, role, member, open, claim, wired, claims, chosen>>
    BY DEF PurgeTargets, accountVars, teamVars
  <2>2. purge[p].pc = "write"
    BY DEF PurgeTargets
  <2>3. purge' = [purge EXCEPT ![p] = IF purge[p].todo = {e} THEN NoPurge ELSE q]
    BY DEF PurgeTargets, WithoutEntry
  <2> QED BY <2>1, <2>2, <2>3
<1>2. purge[p] \in WriteRows
  <2>1. purge[p] \in PurgeRows
    BY <1>0 DEF TypeOK
  <2> QED BY <1>1, <2>1, PurgeForm
<1>3. SeenOK(purge[p].seen[e], e) /\ purge[p].seen[e] \in Targets
  BY <1>0, <1>1, <1>2 DEF Purging, WriteRows
<1>4. kept \in Targets /\ \A h \in Hosts : kept[h] \in {purge[p].seen[e][h], NoTarget}
  BY <1>3, KeptForm
<1>5. /\ NoPurge \in PurgeRows /\ NoPurge.pc = "idle"
      /\ q \in PurgeRows
      /\ \A f \in Entries, h \in Hosts : q.seen[f][h] \in {purge[p].seen[f][h], NoTarget}
  <2>1. NoTargets \in Targets /\ \A h \in Hosts : NoTargets[h] = NoTarget
    BY NoTargetsForm
  <2>2. q \in WriteRows
    BY <1>2, <2>1 DEF WriteRows
  <2>3. q.seen = [purge[p].seen EXCEPT ![e] = NoTargets]
    BY <1>2 DEF WriteRows
  <2>4. \A f \in Entries, h \in Hosts : q.seen[f][h] \in {purge[p].seen[f][h], NoTarget}
    BY <1>2, <2>1, <2>3 DEF WriteRows
  <2> QED BY <2>2, <2>4 DEF PurgeRows, NoPurge, WriteRows
<1>6. PurgeMoves
  <2> HIDE DEF q
  <2>1. purge' \in [Purges -> PurgeRows]
    BY <1>0, <1>1, <1>5 DEF TypeOK
  <2>2. \A r \in Purges : r # p => purge'[r] = purge[r]
    BY <1>0, <1>1 DEF TypeOK
  <2>3. purge'[p] = IF purge[p].todo = {e} THEN NoPurge ELSE q
    BY <1>0, <1>1 DEF TypeOK
  <2> QED BY <1>1, <1>5, <2>1, <2>2, <2>3 DEF PurgeMoves
<1>7. Rewired /\ Widens(chosen[e], chosen[e])
  BY <1>1 DEF Rewired, Widens
<1>8. CASE Live(e)
  <2>1. /\ entry[e] \in LiveRows /\ chosen[e] \in ChoiceRows /\ claim[e] \in ClaimRows
        /\ entry[e].state = "live"
    BY <1>0, <1>8, LiveForm DEF Live
  <2>2. x \in LiveRows
    <3> HIDE DEF kept
    <3> QED BY <1>4, <2>1 DEF LiveRows
  <2>3. /\ x.owner = entry[e].owner /\ x.targets = kept /\ x.ceiling = entry[e].ceiling
        /\ x.provider = entry[e].provider
        /\ x.meta = entry[e].meta /\ x.state = "live" /\ x.holder = entry[e].holder
        /\ x.coll = entry[e].coll /\ x.name = entry[e].name /\ x.url = entry[e].url
    <3> HIDE DEF kept
    <3> QED BY <2>1 DEF LiveRows
  <2>4. x \in EntryRows /\ x # Unborn
    <3> HIDE DEF x
    <3> QED BY <2>2, <2>3, RowShapes, EntryForm
  <2>5. RowOK(entry[e], claim[e], chosen[e], Admins)
    BY <1>0 DEF Rows
  <2>6. \A h \in Hosts : Posted(kept[h], h, chosen[e], Admins)
    <3> HIDE DEF kept
    <3> QED BY <1>3, <1>4 DEF SeenOK, Posted
  <2>7. RowOK(x, claim[e], chosen[e], Admins)
    <3> HIDE DEF x, kept
    <3>1. Backed(x, claim[e], chosen[e], Admins)
      BY <2>1, <2>3, <2>4, <2>5, <2>6 DEF RowOK, Backed
    <3>2. Armed(x, claim[e], chosen[e], Admins)
      BY <2>1, <2>3, <2>5, <2>6 DEF RowOK, Armed, Ownerless, Reach
    <3>3. Indexed(x)
      BY <2>1, <2>3, <2>5 DEF RowOK, Indexed
    <3> QED BY <3>1, <3>2, <3>3 DEF RowOK
  <2>8. /\ entry' = [entry EXCEPT ![e] = x] /\ claim' = [claim EXCEPT ![e] = claim[e]]
        /\ chosen' = [chosen EXCEPT ![e] = chosen[e]]
    BY <1>0, <1>1, <1>8 DEF PurgeTargets, TypeOK
  <2> HIDE DEF x, kept, q
  <2> QED BY <1>1, <1>6, <1>7, <2>1, <2>4, <2>7, <2>8, RowStep
<1>9. CASE ~Live(e)
  <2>1. entry' = entry
    BY <1>9 DEF PurgeTargets
  <2>2. Current'
    BY <1>0, <1>1 DEF Current
  <2> QED BY <1>0, <1>1, <1>6, <1>7, <2>1, <2>2, AccountStep DEF TypeOK
<1> QED BY <1>8, <1>9

LEMMA PurgeLostInv ==
    ASSUME Inv, NEW p \in Purges, PurgeLost(p), UNCHANGED scene
    PROVE  Inv'
<1>0. TypeOK /\ Current
  BY DEF Inv
<1>1. /\ UNCHANGED <<status, role, member, open, entry, claim, wired, claims, chosen>>
      /\ purge' = [purge EXCEPT ![p] = NoPurge]
  BY DEF PurgeLost, accountVars, teamVars
<1>2. NoPurge \in PurgeRows /\ NoPurge.pc = "idle"
  BY DEF PurgeRows, NoPurge
<1>3. PurgeMoves /\ Rewired /\ Current'
  BY <1>0, <1>1, <1>2 DEF PurgeMoves, Rewired, Current, TypeOK
<1> QED BY <1>0, <1>1, <1>3, AccountStep DEF TypeOK

-----------------------------------------------------------------------------
(* Accounts and members. *)

LEMMA StartPurgeMoves ==
    ASSUME TypeOK, NEW u \in Users, NEW c \in Collections \cup {Personal}, StartPurge(u, c)
    PROVE  PurgeMoves
<1>1. CASE UNCHANGED purge
  BY <1>1 DEF PurgeMoves, TypeOK
<1>2. ASSUME NEW p \in Purges, purge' = [purge EXCEPT ![p] = [pc |-> "due", user |-> u, coll |-> c]]
      PROVE  PurgeMoves
  <2>1. [pc |-> "due", user |-> u, coll |-> c] \in PurgeRows
    BY DEF PurgeRows
  <2> QED BY <1>2, <2>1 DEF PurgeMoves, TypeOK
<1> QED BY <1>1, <1>2 DEF StartPurge

LEMMA RoleInv ==
    ASSUME Inv, NEW t \in Users, NEW q \in {"admin", "user"}, UpdateUserRole(t, q), UNCHANGED scene
    PROVE  Inv'
<1>0. TypeOK /\ Current
  BY DEF Inv
<1>1. /\ UNCHANGED <<status, member, open, entry, claim, wired, purge, chosen>>
      /\ role' = [role EXCEPT ![t] = q]
      /\ claims' = [claims EXCEPT ![t] = IF status[t] = "live" THEN claims[t] \cup {q} ELSE claims[t]]
  BY DEF UpdateUserRole, teamVars
<1>2. /\ role' \in [Users -> {"admin", "user"}]
      /\ claims' \in [Users -> SUBSET {"admin", "user"}]
      /\ \A u \in Users : claims[u] \subseteq claims'[u]
  BY <1>0, <1>1 DEF TypeOK
<1>3. Current'
  BY <1>0, <1>1 DEF Current, TypeOK
<1>4. PurgeMoves /\ Rewired
  BY <1>0, <1>1 DEF PurgeMoves, Rewired, TypeOK
<1> QED BY <1>0, <1>1, <1>2, <1>3, <1>4, AccountStep DEF TypeOK

LEMMA DisableInv ==
    ASSUME Inv, NEW t \in Users, DisableUser(t), UNCHANGED scene
    PROVE  Inv'
<1>0. TypeOK /\ Current
  BY DEF Inv
<1>1. /\ UNCHANGED <<role, claims, member, open, entry, claim, wired, chosen>>
      /\ status' = [status EXCEPT ![t] = "disabled"]
  BY DEF DisableUser, teamVars
<1>2. status' \in [Users -> {"live", "disabled", "gone"}] /\ Current' /\ Rewired
  BY <1>0, <1>1 DEF TypeOK, Current, Rewired
<1>3. PurgeMoves
  BY <1>0, StartPurgeMoves DEF DisableUser
<1> QED BY <1>0, <1>1, <1>2, <1>3, AccountStep DEF TypeOK

LEMMA EnableInv ==
    ASSUME Inv, NEW t \in Users, EnableUser(t), UNCHANGED scene
    PROVE  Inv'
<1>0. TypeOK /\ Current
  BY DEF Inv
<1>1. /\ UNCHANGED <<role, member, open, entry, claim, wired, purge, chosen>>
      /\ status' = [status EXCEPT ![t] = "live"]
      /\ claims' = [claims EXCEPT ![t] = claims[t] \cup {role[t]}]
  BY DEF EnableUser, teamVars
<1>2. /\ status' \in [Users -> {"live", "disabled", "gone"}]
      /\ claims' \in [Users -> SUBSET {"admin", "user"}]
      /\ \A u \in Users : claims[u] \subseteq claims'[u]
  BY <1>0, <1>1 DEF TypeOK
<1>3. Current'
  BY <1>0, <1>1 DEF Current, TypeOK
<1>4. PurgeMoves /\ Rewired
  BY <1>0, <1>1 DEF PurgeMoves, Rewired, TypeOK
<1> QED BY <1>0, <1>1, <1>2, <1>3, <1>4, AccountStep DEF TypeOK

LEMMA SetMemberInv ==
    ASSUME Inv, NEW c \in Collections, NEW t \in Users, NEW q \in MemberRoles,
           SetMember(c, t, q), UNCHANGED scene
    PROVE  Inv'
<1>0. TypeOK /\ Current
  BY DEF Inv
<1>1. /\ UNCHANGED <<status, role, claims, open, entry, claim, wired, purge, chosen>>
      /\ member' = [member EXCEPT ![c][t] = q]
  BY DEF SetMember, accountVars
<1>2. member' \in [Collections -> [Users -> MemberRoles \cup {"none"}]]
  BY <1>0, <1>1 DEF TypeOK
<1>3. Current' /\ PurgeMoves /\ Rewired
  BY <1>0, <1>1 DEF Current, PurgeMoves, Rewired, TypeOK
<1> QED BY <1>0, <1>1, <1>2, <1>3, AccountStep DEF TypeOK

LEMMA RemoveMemberInv ==
    ASSUME Inv, NEW c \in Collections, NEW t \in Users, RemoveMember(c, t), UNCHANGED scene
    PROVE  Inv'
<1>0. TypeOK /\ Current
  BY DEF Inv
<1>1. /\ UNCHANGED <<status, role, claims, open, entry, claim, wired, chosen>>
      /\ member' = [member EXCEPT ![c][t] = "none"]
  BY DEF RemoveMember, accountVars
<1>2. member' \in [Collections -> [Users -> MemberRoles \cup {"none"}]]
  BY <1>0, <1>1 DEF TypeOK
<1>3. Current' /\ Rewired
  BY <1>0, <1>1 DEF Current, Rewired
<1>4. PurgeMoves
  BY <1>0, StartPurgeMoves DEF RemoveMember
<1> QED BY <1>0, <1>1, <1>2, <1>3, <1>4, AccountStep DEF TypeOK

LEMMA GoneRow ==
    ASSUME Inv, NEW e \in Entries, NEW cl, cl \in {claim[e], NoClaim}
    PROVE  RowOK(Gone, cl, chosen[e], Admins) /\ Gone \in EntryRows
<1>1. Gone \in EntryRows /\ Gone.state = "gone" /\ Gone # Unborn /\ NoClaim.prev = Nobody
  BY RowShapes, EntryForm DEF NoClaim
<1>2. RowOK(entry[e], claim[e], chosen[e], Admins)
  BY DEF Inv, Rows
<1> QED BY <1>1, <1>2 DEF RowOK, Backed, Armed, Indexed, Ent

(* The deletion of an account hands its collection entries to the            *)
(* administrator who deletes, with the hosts recorded on them: those were    *)
(* chosen by somebody entitled, or the history now says that nobody did.     *)
LEMMA CleanedRow ==
    ASSUME Inv, NEW u \in Admins, NEW t \in Users, NEW e \in Entries,
           NEW x, x = hardDeleteCleanup(entry[e], t, u),
           NEW cl, cl = IF x.state = "live" THEN claim[e] ELSE NoClaim,
           NEW ch, ch = IF Unanswered(e, t) THEN Inherited(e) ELSE chosen[e]
    PROVE  /\ x \in EntryRows /\ RowOK(x, cl, ch, Admins)
           /\ ch \in ChoiceRows /\ Widens(chosen[e], ch)
<1>0. TypeOK /\ Rows
  BY DEF Inv
<1>1. /\ RowOK(entry[e], claim[e], chosen[e], Admins) /\ entry[e] \in EntryRows
      /\ chosen[e] \in ChoiceRows
  BY <1>0, LiveForm DEF Rows
<1>2. CASE entry[e].state # "live"
  <2>1. x = entry[e] /\ cl = NoClaim /\ NoClaim.prev = Nobody
    BY <1>2 DEF hardDeleteCleanup, NoClaim
  <2>2. ch = chosen[e]
    BY <1>2 DEF Unanswered, Live
  <2> QED BY <1>1, <1>2, <2>1, <2>2 DEF RowOK, Backed, Armed, Indexed, Ent, Widens
<1>3. CASE entry[e].state = "live"
  <2> DEFINE kept == Kept(entry[e].targets, t)
             y == [entry[e] EXCEPT !.targets = kept]
  <2>1. entry[e] \in LiveRows /\ entry[e] # Unborn
    BY <1>0, <1>3, LiveForm DEF Live
  <2>2. kept \in Targets /\ \A h \in Hosts : kept[h] \in {entry[e].targets[h], NoTarget}
    <3>1. entry[e].targets \in Targets
      BY <2>1 DEF LiveRows
    <3> QED BY <3>1, KeptForm
  <2> HIDE DEF kept
  <2>3. Nobody \in Ent(chosen[e], Admins) /\ u \in Ent(chosen[e], Admins) /\ u \in Users
    BY DEF Ent, Admins
  <2>4. /\ ch \in ChoiceRows /\ Widens(chosen[e], ch)
        /\ ch.hosts \subseteq Ent(ch, Admins) \X Hosts
        /\ Unanswered(e, t) => Reach(entry[e]) \subseteq Dir(ch, Admins)
    <3>1. CASE Unanswered(e, t)
      <4> DEFINE R == ceilingOf(e) \cup Declared(e)
      <4>1. R = Reach(entry[e])
        BY DEF Reach, ceilingOf, Declared
      <4>2. R \in SUBSET Hosts /\ {} \in Authors
        <5>1. entry[e].provider \in Services /\ entry[e].meta \in Hosts \cup {NoHost}
              /\ entry[e].ceiling \in SUBSET Hosts
          BY <2>1 DEF LiveRows
        <5>2. declaredProviderEgress(entry[e].provider, entry[e].meta) \in SUBSET Hosts
          BY <5>1, EgressHosts
        <5> QED BY <5>1, <5>2 DEF ceilingOf, Declared, Authors
      <4> HIDE DEF R
      <4>3. ch = Noted(e, Nobody, R, {})
        BY <1>1, <3>1 DEF Inherited, Noted, ChoiceRows, R
      <4>4. /\ ch \in ChoiceRows /\ Widens(chosen[e], ch) /\ R \subseteq Dir(ch, Admins)
            /\ ch.hosts \subseteq Ent(ch, Admins) \X Hosts
        <5> DEFINE n == Noted(e, Nobody, R, {})
        <5>1. Nobody \in Users \cup {Nobody}
          OBVIOUS
        <5>2. /\ n \in ChoiceRows /\ Widens(chosen[e], n) /\ R \subseteq Dir(n, Admins)
              /\ n.hosts \subseteq Ent(n, Admins) \X Hosts
          BY <2>3, <4>2, <5>1, Recorded
        <5> HIDE DEF n
        <5>3. ch = n
          BY <4>3 DEF n
        <5> QED BY <5>2, <5>3
      <4> QED BY <4>1, <4>4
    <3>2. CASE ~Unanswered(e, t)
      BY <1>1, <3>2 DEF RowOK, Backed, Widens
    <3> QED BY <3>1, <3>2
  <2>5. /\ Ent(chosen[e], Admins) \subseteq Ent(ch, Admins)
        /\ Dir(chosen[e], Admins) \subseteq Dir(ch, Admins)
        /\ chosen[e].hosts \subseteq ch.hosts
        /\ \A z, h : Posted(z, h, chosen[e], Admins) => Posted(z, h, ch, Admins)
    BY <2>4, Growth
  <2>6. \A h \in Hosts : Posted(kept[h], h, ch, Admins)
    <3>1. \A h \in Hosts : Posted(entry[e].targets[h], h, ch, Admins)
      BY <1>1, <1>3, <2>5 DEF RowOK, Armed
    <3> QED BY <2>2, <3>1 DEF Posted
  <2>7. CASE entry[e].holder # t
    <3>1. x = y
      BY <1>3, <2>7 DEF hardDeleteCleanup, kept
    <3>2. x \in LiveRows /\ x.state = "live"
      BY <2>1, <2>2, <3>1 DEF LiveRows
    <3>3. /\ x.owner = entry[e].owner /\ x.targets = kept /\ x.ceiling = entry[e].ceiling
          /\ x.meta = entry[e].meta /\ x.provider = entry[e].provider /\ x.holder = entry[e].holder
          /\ x.coll = entry[e].coll /\ x.name = entry[e].name /\ x.url = entry[e].url
      BY <2>1, <3>1 DEF LiveRows
    <3>4. x \in EntryRows /\ x # Unborn /\ cl = claim[e]
      BY <3>2, RowShapes, EntryForm
    <3>5. Backed(x, cl, ch, Admins)
      BY <1>1, <1>3, <2>4, <2>5, <3>3, <3>4 DEF RowOK, Backed
    <3>6. Armed(x, cl, ch, Admins)
      BY <1>1, <1>3, <2>5, <2>6, <3>3, <3>4 DEF RowOK, Armed, Reach, Ownerless
    <3>7. Indexed(x)
      BY <1>1, <1>3, <3>3 DEF RowOK, Indexed
    <3> QED BY <2>4, <3>4, <3>5, <3>6, <3>7 DEF RowOK
  <2>8. CASE entry[e].holder = t /\ entry[e].coll = Personal
    <3>1. x = Gone /\ ch = chosen[e]
      BY <1>3, <2>8 DEF hardDeleteCleanup, Unanswered
    <3> QED BY <2>4, <3>1, GoneRow
  <2>9. CASE entry[e].holder = t /\ entry[e].coll # Personal
    <3>1. x = [entry[e] EXCEPT !.targets = kept, !.holder = u, !.owner = u, !.name = entry[e].coll]
      BY <1>3, <2>1, <2>9 DEF hardDeleteCleanup, kept, TransferSecretOwnership, bidxScope, LiveRows
    <3>2. entry[e].coll \in Scopes
      BY <2>1, <2>9 DEF LiveRows, Scopes
    <3>3. x \in LiveRows /\ x.state = "live"
      BY <2>1, <2>2, <2>3, <3>1, <3>2 DEF LiveRows
    <3>4. /\ x.owner = u /\ x.targets = kept /\ x.ceiling = entry[e].ceiling
          /\ x.meta = entry[e].meta /\ x.provider = entry[e].provider /\ x.holder = u
          /\ x.coll = entry[e].coll /\ x.name = entry[e].coll /\ x.url = entry[e].url
      BY <2>1, <3>1 DEF LiveRows
    <3>5. x \in EntryRows /\ x # Unborn /\ cl = claim[e]
      BY <3>3, RowShapes, EntryForm
    <3>6. Backed(x, cl, ch, Admins)
      BY <1>1, <1>3, <2>3, <2>4, <2>5, <3>4, <3>5 DEF RowOK, Backed
    <3>7. Reach(entry[e]) \subseteq Dir(ch, Admins)
      <4>1. entry[e].owner = Nobody => Unanswered(e, t)
        BY <1>3, <2>9 DEF Unanswered, Live
      <4> QED BY <1>1, <1>3, <2>4, <2>5, <4>1 DEF RowOK, Armed, Ownerless
    <3>8. Armed(x, cl, ch, Admins)
      BY <2>6, <3>4, <3>7 DEF Armed, Reach
    <3>9. Indexed(x)
      BY <1>1, <1>3, <2>9, <3>4 DEF RowOK, Indexed, bidxScope
    <3> QED BY <2>4, <3>5, <3>6, <3>8, <3>9 DEF RowOK
  <2> QED BY <2>7, <2>8, <2>9
<1> QED BY <1>2, <1>3

LEMMA HardDeleteInv ==
    ASSUME Inv, NEW u \in Users, NEW t \in Users, HardDelete(u, t), UNCHANGED scene
    PROVE  Inv'
<1>0. TypeOK /\ Current /\ Rows
  BY DEF Inv
<1>1. /\ UNCHANGED <<role, claims, open, wired, purge>>
      /\ status' = [status EXCEPT ![t] = "gone"]
      /\ member' = [c \in Collections |-> [member[c] EXCEPT ![t] = "none"]]
      /\ entry' = [e \in Entries |-> hardDeleteCleanup(entry[e], t, u)]
      /\ claim' = [e \in Entries |-> IF entry'[e].state = "live" THEN claim[e] ELSE NoClaim]
      /\ chosen' = [e \in Entries |-> IF Unanswered(e, t) THEN Inherited(e) ELSE chosen[e]]
  BY DEF HardDelete, Live
<1>2. u \in Admins
  BY <1>0, ActingAdmin DEF HardDelete
<1>3. ASSUME NEW e \in Entries
      PROVE  /\ entry'[e] \in EntryRows /\ chosen'[e] \in ChoiceRows
             /\ RowOK(entry'[e], claim'[e], chosen'[e], Admins) /\ Widens(chosen[e], chosen'[e])
  <2>1. /\ entry'[e] = hardDeleteCleanup(entry[e], t, u)
        /\ claim'[e] = IF entry'[e].state = "live" THEN claim[e] ELSE NoClaim
        /\ chosen'[e] = IF Unanswered(e, t) THEN Inherited(e) ELSE chosen[e]
    BY <1>1
  <2> QED BY <1>2, <2>1, CleanedRow
<1>4. TypeOK'
  <2>1. entry' \in [Entries -> EntryRows] /\ chosen' \in [Entries -> ChoiceRows]
    BY <1>1, <1>3
  <2>2. claim' \in [Entries -> ClaimRows]
    BY <1>0, <1>1, RowShapes DEF TypeOK, ClaimRows
  <2>3. /\ status' \in [Users -> {"live", "disabled", "gone"}]
        /\ member' \in [Collections -> [Users -> MemberRoles \cup {"none"}]]
    BY <1>0, <1>1 DEF TypeOK
  <2> QED BY <1>0, <1>1, <2>1, <2>2, <2>3 DEF TypeOK, ClaimRows, ChoiceRows
<1>5. Current'
  BY <1>0, <1>1 DEF Current, TypeOK
<1> QED BY <1>1, <1>3, <1>4, <1>5, RowsStep

LEMMA DeleteCollectionInv ==
    ASSUME Inv, NEW c \in Collections, DeleteCollection(c), UNCHANGED scene
    PROVE  Inv'
<1>0. TypeOK /\ Rows
  BY DEF Inv
<1>1. /\ UNCHANGED <<status, role, claims, wired, purge, chosen>>
      /\ open' = open \ {c}
      /\ member' = [member EXCEPT ![c] = [u \in Users |-> "none"]]
      /\ entry' = [e \in Entries |-> IF Live(e) /\ entry[e].coll = c THEN Gone ELSE entry[e]]
      /\ claim' = [e \in Entries |-> IF entry'[e].state = "live" THEN claim[e] ELSE NoClaim]
  BY DEF DeleteCollection, Live, accountVars
<1>2. \A e \in Entries : entry'[e] \in EntryRows /\ RowOK(entry'[e], claim'[e], chosen[e], Admins)
  <2>1. ASSUME NEW e \in Entries
        PROVE  entry'[e] \in EntryRows /\ RowOK(entry'[e], claim'[e], chosen[e], Admins)
    <3>1. RowOK(entry[e], claim[e], chosen[e], Admins) /\ entry[e] \in EntryRows
      BY <1>0 DEF Rows, TypeOK
    <3>2. /\ entry'[e] \in {Gone, entry[e]} /\ claim'[e] \in {claim[e], NoClaim}
          /\ entry'[e].state = "live" => claim'[e] = claim[e]
          /\ entry'[e] = Unborn => entry'[e].state # "live" /\ claim'[e] = NoClaim
      BY <1>1, <3>1, EntryForm
    <3>3. CASE entry'[e] = Gone
      BY <3>2, <3>3, GoneRow
    <3>4. CASE entry'[e] = entry[e] /\ entry[e].state = "live"
      BY <3>1, <3>2, <3>4
    <3>5. CASE entry'[e] = entry[e] /\ entry[e].state # "live"
      <4>1. NoClaim.prev = Nobody
        BY DEF NoClaim
      <4> QED BY <3>1, <3>2, <3>5, <4>1 DEF RowOK, Backed, Armed, Indexed, Ent
    <3> QED BY <3>2, <3>3, <3>4, <3>5
  <2> QED BY <2>1
<1>3. TypeOK'
  <2>1. entry' \in [Entries -> EntryRows]
    BY <1>1, <1>2
  <2>2. claim' \in [Entries -> ClaimRows]
    BY <1>0, <1>1, RowShapes DEF TypeOK, ClaimRows
  <2>3. open' \subseteq Collections /\ member' \in [Collections -> [Users -> MemberRoles \cup {"none"}]]
    BY <1>0, <1>1 DEF TypeOK
  <2> QED BY <1>0, <1>1, <2>1, <2>2, <2>3 DEF TypeOK, ClaimRows
<1>4. Current' /\ \A f \in Entries : Widens(chosen[f], chosen'[f])
  BY <1>1 DEF Inv, Current, Widens
<1> QED BY <1>1, <1>2, <1>3, <1>4, RowsStep

-----------------------------------------------------------------------------
(* The invariant of Custody. *)

LEMMA SceneForm ==
    ASSUME scene \in Scenarios
    PROVE  /\ Movers \subseteq Users /\ scene.roles \subseteq MemberRoles
           /\ scene.rows \subseteq Entries /\ scene.hosts \subseteq Hosts
           /\ scene.services \subseteq Services /\ SomeHost \subseteq Hosts \cup {NoHost}
  BY CustodyAssumption DEF Movers, SomeHost

LEMMA TargetsForm ==
    ASSUME scene \in Scenarios, NEW people \in SUBSET (Users \cup {Nobody})
    PROVE  TargetsBy(people) \subseteq Targets
<1>1. scene.rows \subseteq Entries
  BY SceneForm
<1>2. NoTarget \in TargetRows
  BY NoTargetsForm
<1>3. \A u \in people : Target("webhook", u, Nobody) \in TargetRows
  BY DEF Target, TargetRows, Kinds
<1>4. \A u \in people, f \in scene.rows : Target("forgejo_secret", u, f) \in TargetRows
  BY <1>1 DEF Target, TargetRows, Kinds
<1> QED BY <1>2, <1>3, <1>4 DEF TargetsBy, Targets

(* The history of a row of before owners stands behind it: nobody chose its  *)
(* vendors' hosts and its targets, and the others it has no owner for.       *)
LEMMA CarriedRow ==
    ASSUME scene \in Scenarios, NEW x \in LegacyRows
    PROVE  /\ x \in EntryRows /\ x.state = "live" /\ x # Unborn
           /\ Carried(x) \in ChoiceRows /\ RowOK(x, NoClaim, Carried(x), Admins)
<1>0. PICK u \in Movers, c \in Collections \cup {Personal}, ceiling \in SUBSET scene.hosts,
           svc \in scene.services, h \in SomeHost,
           targets \in (IF "targets" \in Doors THEN TargetsBy(Movers \cup {Nobody}) ELSE {NoTargets}) :
        x = LegacyRow(u, c, ceiling, svc, h, targets)
  BY DEF LegacyRows
<1>1. /\ u \in Users /\ ceiling \subseteq Hosts /\ svc \in Services /\ h \in Hosts \cup {NoHost}
      /\ Movers \cup {Nobody} \in SUBSET (Users \cup {Nobody})
  BY SceneForm
<1>2. targets \in Targets
  BY <1>1, TargetsForm, NoTargetsForm
<1>3. bidxScope(u, c) \in Scopes
  BY <1>1 DEF bidxScope, Scopes
<1>4. x \in LiveRows
  BY <1>0, <1>1, <1>2, <1>3 DEF LegacyRow, LiveRows
<1>5. /\ x.state = "live" /\ x.owner = Nobody /\ x.targets = targets
      /\ x.holder = u /\ x.coll = c /\ x.name = bidxScope(u, c) /\ x.url = bidxScope(u, c)
  BY <1>0 DEF LegacyRow
<1>6. x \in EntryRows /\ x # Unborn
  BY <1>4, <1>5, RowShapes, EntryForm
<1> DEFINE ch == Carried(x)
           S == {g \in Hosts : targets[g] # NoTarget}
<1>7. /\ ch.by = Nobody /\ ch.hosts = {Nobody} \X VendorHosts
      /\ ch.stamps = UNION {{Nobody, targets[g].by} \X {g} : g \in S}
      /\ ch = [by |-> ch.by, hosts |-> ch.hosts, stamps |-> ch.stamps]
  BY <1>5 DEF Carried
<1> HIDE DEF ch
<1>8. VendorHosts \subseteq Hosts
  BY <1>1, EgressHosts
<1>9. \A g \in Hosts : targets[g].by \in Users \cup {Nobody}
  BY <1>2 DEF Targets, TargetRows
<1>10. ch \in ChoiceRows
  <2>1. ch.hosts \in Authors
    BY <1>7, <1>8 DEF Authors
  <2>2. ch.stamps \in Authors
    <3>1. ASSUME NEW g \in S PROVE {Nobody, targets[g].by} \X {g} \subseteq (Users \cup {Nobody}) \X Hosts
      BY <1>9
    <3> HIDE DEF S
    <3> QED BY <1>7, <3>1 DEF Authors
  <2> QED BY <1>7, <2>1, <2>2 DEF ChoiceRows
<1>11. ASSUME NEW g \in Hosts PROVE Posted(targets[g], g, ch, Admins)
  <2>1. SUFFICES ASSUME targets[g] # NoTarget
                 PROVE  <<Nobody, g>> \in ch.stamps /\ <<targets[g].by, g>> \in ch.stamps
    BY DEF Posted
  <2>2. g \in S
    BY <2>1
  <2>3. /\ <<Nobody, g>> \in {Nobody, targets[g].by} \X {g}
        /\ <<targets[g].by, g>> \in {Nobody, targets[g].by} \X {g}
    OBVIOUS
  <2> HIDE DEF S
  <2> QED BY <1>7, <2>2, <2>3
<1>12. Backed(x, NoClaim, ch, Admins)
  <2>1. NoClaim.prev = Nobody /\ Nobody \in Ent(ch, Admins)
    BY DEF NoClaim, Ent
  <2>2. ch.hosts \subseteq Ent(ch, Admins) \X Hosts
    BY <1>7, <1>8, <2>1
  <2> QED BY <1>5, <1>6, <2>1, <2>2 DEF Backed
<1>13. Armed(x, NoClaim, ch, Admins)
  <2>1. Ownerless(x, NoClaim, ch)
    BY <1>5, <1>7 DEF Ownerless
  <2> QED BY <1>5, <1>11, <2>1 DEF Armed
<1>14. Indexed(x)
  BY <1>5 DEF Indexed
<1> QED BY <1>5, <1>6, <1>10, <1>12, <1>13, <1>14 DEF RowOK, ch

LEMMA InitInv == ASSUME Init PROVE Inv
<1>0. CustodyAssumption
  BY CustodyAssumption
<1>1. ASSUME NEW e \in Entries
      PROVE  /\ entry[e] \in EntryRows /\ chosen[e] \in ChoiceRows
             /\ RowOK(entry[e], claim[e], chosen[e], Admins)
  <2>1. /\ claim[e] = NoClaim /\ scene \in Scenarios
        /\ chosen[e] = IF entry[e].state = "live" THEN Carried(entry[e]) ELSE Untouched
    BY DEF Init, Live
  <2>2. CASE entry[e] = Unborn
    <3>1. /\ Unborn \in EntryRows /\ Unborn.state = "unborn"
          /\ Untouched.hosts = {} /\ NoClaim.prev = Nobody
      BY DEF EntryRows, Unborn, Untouched, NoClaim
    <3>2. Untouched \in ChoiceRows
      BY DEF Untouched, ChoiceRows, Authors
    <3> QED BY <2>1, <2>2, <3>1, <3>2 DEF RowOK, Backed, Armed, Indexed, Ent
  <2>3. CASE entry[e] # Unborn
    <3>1. entry[e] \in LegacyRows
      BY <2>3 DEF Init
    <3>2. /\ entry[e] \in EntryRows /\ entry[e].state = "live"
          /\ Carried(entry[e]) \in ChoiceRows
          /\ RowOK(entry[e], NoClaim, Carried(entry[e]), Admins)
      BY <2>1, <3>1, CarriedRow
    <3> QED BY <2>1, <3>2
  <2> QED BY <2>2, <2>3
<1>2. entry \in [Entries -> EntryRows] /\ chosen \in [Entries -> ChoiceRows]
  <2>1. PICK S : entry \in [Entries -> S]
    BY DEF Init
  <2>2. chosen = [e \in Entries |-> chosen[e]]
    BY DEF Init
  <2> QED BY <1>1, <2>1, <2>2
<1>3. TypeOK
  <2>1. claim \in [Entries -> ClaimRows] /\ purge \in [Purges -> PurgeRows]
    BY DEF Init, ClaimRows, NoClaim, PurgeRows
  <2>2. /\ status \in [Users -> {"live", "disabled", "gone"}] /\ role \in [Users -> {"admin", "user"}]
        /\ member \in [Collections -> [Users -> MemberRoles \cup {"none"}]]
        /\ wired \in [Providers -> Entries \cup {Nobody}] /\ open \subseteq Collections
        /\ scene \in Scenarios
    BY DEF Init
  <2>3. claims \in [Users -> SUBSET {"admin", "user"}]
    BY <2>2 DEF Init
  <2> QED BY <1>2, <2>1, <2>2, <2>3 DEF TypeOK, ClaimRows, ChoiceRows
<1>4. Current
  BY DEF Init, Current
<1>5. Rows
  BY <1>1 DEF Rows
<1>6. Purging
  BY DEF Init, Purging, NoPurge
<1>7. Wiring
  BY <1>0 DEF Init, Wiring, CustodyAssumption
<1> QED BY <1>3, <1>4, <1>5, <1>6, <1>7 DEF Inv

LEMMA NextInv == ASSUME Inv, [Next]_vars PROVE Inv'
<1>0. TypeOK
  BY DEF Inv
<1>1. CASE UNCHANGED vars
  <2>1. PurgeMoves /\ Rewired /\ Current'
    BY <1>0, <1>1 DEF PurgeMoves, Rewired, TypeOK, vars, Inv, Current
  <2> QED BY <1>0, <1>1, <2>1, AccountStep DEF TypeOK, vars
<1>3. /\ Movers \subseteq Users /\ scene.roles \subseteq MemberRoles
      /\ scene.rows \subseteq Entries /\ scene.hosts \subseteq Hosts
      /\ scene.services \subseteq Services /\ SomeHost \subseteq Hosts \cup {NoHost}
  BY <1>0, SceneForm DEF TypeOK
<1>2. ASSUME NEW u \in Users, NEW isAdmin \in BOOLEAN, NEW e \in Entries,
             EntryStep(u, isAdmin, e), UNCHANGED scene
      PROVE  Inv'
  <2>1. ASSUME NEW c \in Collections \cup {Personal}, NEW svc \in scene.services, NEW h \in SomeHost,
               Create(u, isAdmin, e, c, svc, h)
        PROVE  Inv'
    <3>1. svc \in Services /\ h \in Hosts \cup {NoHost}
      BY <1>3
    <3> QED BY <1>2, <2>1, <3>1, CreateInv
  <2>2. CASE \E c \in Collections \cup {Personal} : MoveToCollection(u, isAdmin, e, c)
    BY <1>2, <2>2, MoveInv
  <2>3. ASSUME Live(e),
               NEW rename \in IF "rename" \in Doors THEN BOOLEAN ELSE {FALSE},
               NEW ceiling \in IF "ceiling" \in Doors THEN SUBSET scene.hosts ELSE {ceilingOf(e)},
               NEW svc \in IF "provider" \in Doors THEN scene.services ELSE {entry[e].provider},
               NEW h \in IF "provider" \in Doors THEN SomeHost ELSE {entry[e].meta},
               Update(u, isAdmin, e, rename, ceiling, svc, h)
        PROVE  Inv'
    <3>1. entry[e] \in LiveRows
      BY <1>0, <2>3, LiveForm
    <3>2. /\ rename \in BOOLEAN /\ ceiling \in SUBSET Hosts
          /\ svc \in Services /\ h \in Hosts \cup {NoHost}
      BY <1>3, <3>1 DEF LiveRows, ceilingOf
    <3> QED BY <1>2, <2>3, <3>2, UpdateInv
  <2>4. CASE Delete(u, isAdmin, e)
    BY <1>2, <2>4, DeleteInv
  <2>5. ASSUME NEW want \in TargetsBy({Nobody}), UpdateTargets(u, isAdmin, e, want) PROVE Inv'
    <3>1. scene \in Scenarios /\ {Nobody} \in SUBSET (Users \cup {Nobody})
      BY <1>0 DEF TypeOK
    <3>2. want \in Targets
      BY <2>5, <3>1, TargetsForm
    <3> QED BY <1>2, <2>5, <3>2, UpdateTargetsInv
  <2> QED BY <1>2, <2>1, <2>2, <2>3, <2>4, <2>5 DEF EntryStep
<1>4. ASSUME NEW u \in Users, AdminStep(u), UNCHANGED scene
      PROVE  Inv'
  <2>1. CASE \E e \in Entries : ClaimSecretOwnership(u, e)
    BY <1>4, <2>1, ClaimInv
  <2>2. CASE \E e \in Entries : RestoreSecretOwnership(u, e)
    BY <1>4, <2>2, RestoreInv
  <2>3. CASE \E p \in Providers, e \in Entries \cup {Nobody} : UpdateConfig(u, p, e)
    BY <1>4, <2>3, UpdateConfigInv
  <2>4. CASE \E t \in Movers : HardDelete(u, t)
    BY <1>3, <1>4, <2>4, HardDeleteInv
  <2> QED BY <1>4, <2>1, <2>2, <2>3, <2>4 DEF AdminStep
<1>5. ASSUME NEW t \in Movers, TeamStep(t), UNCHANGED scene
      PROVE  Inv'
  <2>0. t \in Users
    BY <1>3
  <2>1. CASE \E q \in {"admin", "user"} : UpdateUserRole(t, q)
    BY <1>5, <2>0, <2>1, RoleInv
  <2>2. CASE DisableUser(t)
    BY <1>5, <2>0, <2>2, DisableInv
  <2>3. CASE EnableUser(t)
    BY <1>5, <2>0, <2>3, EnableInv
  <2>4. CASE \E c \in Collections, q \in scene.roles : SetMember(c, t, q)
    BY <1>3, <1>5, <2>0, <2>4, SetMemberInv
  <2>5. CASE \E c \in Collections : RemoveMember(c, t)
    BY <1>5, <2>0, <2>5, RemoveMemberInv
  <2> QED BY <1>5, <2>1, <2>2, <2>3, <2>4, <2>5 DEF TeamStep
<1>6. ASSUME NEW p \in Purges, PurgeStep(p), UNCHANGED scene
      PROVE  Inv'
  BY <1>6, ListInv, PurgeTargetsInv, PurgeLostInv DEF PurgeStep
<1>7. ASSUME NEW c \in Collections, DeleteCollection(c), UNCHANGED scene
      PROVE  Inv'
  BY <1>7, DeleteCollectionInv
<1> QED BY <1>1, <1>2, <1>3, <1>4, <1>5, <1>6, <1>7 DEF Next

(* The steps of Capability leave Custody alone. *)
LEMMA ExitsAreQuiet == ASSUME [CapabilityNext]_allVars PROVE [Next]_vars
<1>1. CASE UNCHANGED allVars
  BY <1>1 DEF allVars
<1>2. CASE TokenStep
  BY <1>2 DEF TokenStep, Issue, Expire, PruneSpentNonces, Verify
<1>3. ASSUME NEW r \in Requests, ExitStep(r) \/ FlightStep(r)
      PROVE  UNCHANGED vars
  BY <1>3 DEF ExitStep, FlightStep, providerDo, DeliverRotatedKey, AIGatewayProxy,
              ProxySnapshot, ReadPin, ReadRow, ReadOwner, ReadTargets, deliverToWebhook,
              deliverToForgejoSecret, PushRotated, Send, Drop
<1> QED BY <1>1, <1>2, <1>3 DEF CapabilityNext, CustodyStep

LEMMA CustodyInvariant == CapabilitySpec => []Inv
<1>1. CapabilityInit => Inv
  BY InitInv DEF CapabilityInit
<1>2. Inv /\ [CapabilityNext]_allVars => Inv'
  BY NextInv, ExitsAreQuiet
<1> QED BY <1>1, <1>2, PTL DEF CapabilitySpec

-----------------------------------------------------------------------------
(* What it gives. *)

(* Every variable of Custody has its type (the columns of vault_entries,     *)
(* secret_ownership_claims and the settings).                                *)
THEOREM CustodyTypeCorrect == CapabilitySpec => []TypeOK
<1>1. Inv => TypeOK
  BY DEF Inv
<1> QED BY <1>1, CustodyInvariant, PTL

(* Whoever is in a position to choose where a secret goes deposited it or    *)
(* has been an administrator, by whatever sequence of edits, moves,          *)
(* adoptions, claims, restores and departures: the recorded owner, who added *)
(* a host, and who put a target where it stands, although an editor who      *)
(* changes what the target spends becomes its configurer (vault_grant.go,    *)
(* mayDirectSecretEgress; vault_targets.go).                                 *)
THEOREM OnlyTheEntitledDirect == CapabilitySpec => []DirectedOnlyByTheEntitled
<1>1. ASSUME Inv PROVE DirectedOnlyByTheEntitled
  <2>1. ASSUME NEW e \in Entries, Live(e)
        PROVE  /\ entry[e].owner \in Entitled(e) \cup {Nobody}
               /\ chosen[e].hosts \subseteq (Entitled(e) \cup {Nobody}) \X Hosts
               /\ \A h \in Hosts : entry[e].targets[h] # NoTarget =>
                      h \in Directed(e) \/ <<Nobody, h>> \in chosen[e].stamps
    <3>1. /\ RowOK(entry[e], claim[e], chosen[e], Admins) /\ chosen[e] \in ChoiceRows
          /\ entry[e].state = "live"
      BY <1>1, <2>1, LiveForm DEF Inv, Rows, Live
    <3>2. Ent(chosen[e], Admins) = Entitled(e) \cup {Nobody}
      BY <3>1 DEF Ent, Entitled, Admins, ChoiceRows
    <3>3. Dir(chosen[e], Admins) = Directed(e)
      BY <3>2 DEF Dir, Directed
    <3> QED BY <3>1, <3>2, <3>3 DEF RowOK, Backed, Armed, Posted
  <2> QED BY <2>1 DEF DirectedOnlyByTheEntitled
<1> QED BY <1>1, CustodyInvariant, PTL

(* The blind indexes of a row are those of the vault it is in                *)
(* (vault_ownership_repair.go, reindexAfterCustodianChange).                 *)
THEOREM IndexesFollowTheRow == CapabilitySpec => []IndexMatchesScope
<1>1. Inv => IndexMatchesScope
  BY DEF Inv, Rows, RowOK, Indexed, IndexMatchesScope, Live
<1> QED BY <1>1, CustodyInvariant, PTL

(* The repair page explains every owner it reports as unable to reach his    *)
(* entry (vault_ownership_repair.go, diagnoseUnreachableOwner).              *)
THEOREM EveryLostOwnerIsDiagnosed == CapabilitySpec => []DiagnosisIsTotal
<1>1. ASSUME Inv PROVE DiagnosisIsTotal
  <2>1. SUFFICES ASSUME NEW e \in ListUnownedEntries, entry[e].owner # Nobody
                 PROVE  diagnoseUnreachableOwner(e) # "unknown"
    BY DEF DiagnosisIsTotal
  <2> DEFINE o == entry[e].owner
  <2>2. e \in Entries /\ Live(e) /\ ~recordedOwnerMayDirect(e)
    BY <2>1 DEF ListUnownedEntries, ListVaultEntriesWithNoRecordedOwner, expiredOwnerEntries
  <2>3. entry[e] \in LiveRows /\ TypeOK
    BY <1>1, <2>2, LiveForm DEF Inv
  <2>4. o \in Users /\ entry[e].coll \in Collections \cup {Personal}
    BY <2>1, <2>3 DEF LiveRows
  <2>5. "manage" \notin grantFor(o, instanceAdminByRecord(o), e)
    BY <2>1, <2>2 DEF recordedOwnerMayDirect, mayConfigureDelivery, mayDirectSecretEgress, entryAccess
  <2>6. CASE ~AccountLive(o)
    <3>1. ~Exists(o) \/ (Exists(o) /\ status[o] = "disabled")
      BY <2>3, <2>4, <2>6 DEF AccountLive, Exists, TypeOK
    <3> HIDE DEF o
    <3>2. CASE ~Exists(o)
      <4>1. diagnoseUnreachableOwner(e) = "account_deleted"
        BY <3>2 DEF diagnoseUnreachableOwner, o
      <4> QED BY <4>1
    <3>3. CASE Exists(o) /\ status[o] = "disabled"
      <4>1. diagnoseUnreachableOwner(e) = "account_disabled"
        BY <3>3 DEF diagnoseUnreachableOwner, o
      <4> QED BY <4>1
    <3> QED BY <3>1, <3>2, <3>3
  <2>7. CASE AccountLive(o)
    <3>1. /\ ~instanceAdminByRecord(o)
          /\ entry[e].coll = Personal => entry[e].holder # o
          /\ entry[e].coll # Personal => GetCollectionMemberRole(entry[e].coll, o) # "manager"
      BY <2>2, <2>5, <2>7 DEF grantFor
    <3>2. role[o] # "admin"
      BY <2>7, <3>1 DEF instanceAdminByRecord
    <3> QED BY <3>1, <3>2 DEF diagnoseUnreachableOwner
  <2> QED BY <2>6, <2>7
<1> QED BY <1>1, CustodyInvariant, PTL

(* The SQL that decides whether a token's issuer may still use the entry     *)
(* never says yes where the grant says no (capability.go,                    *)
(* capabilityIssuerCanStillUse against vault_grant.go).                      *)
THEOREM TheGrantBoundsTheToken == CapabilitySpec => []TokenNeverBeatsGrant
<1>1. ASSUME Inv PROVE TokenNeverBeatsGrant
  <2>1. SUFFICES ASSUME NEW u \in Users, NEW e \in Entries, capabilityIssuerCanStillUse(u, e)
                 PROVE  "use" \in grantFor(u, FALSE, e)
    BY DEF TokenNeverBeatsGrant
  <2>2. Live(e) /\ AccountLive(u)
    BY <2>1 DEF capabilityIssuerCanStillUse
  <2>3. CASE entry[e].coll = Personal
    BY <2>1, <2>2, <2>3 DEF capabilityIssuerCanStillUse, Accepted, grantFor
  <2>4. CASE entry[e].coll # Personal
    <3>1. entry[e].coll \in Collections
      BY <1>1, <2>2, <2>4, LiveForm DEF Inv, LiveRows
    <3>2. GetCollectionMemberRole(entry[e].coll, u) \in {"viewer", "editor", "manager"}
      BY <1>1, <2>1, <2>4, <3>1
      DEF Inv, TypeOK, capabilityIssuerCanStillUse, Accepted, GetCollectionMemberRole, MemberRoles
    <3> QED BY <2>2, <2>4, <3>2 DEF grantFor
  <2> QED BY <2>3, <2>4
<1> QED BY <1>1, CustodyInvariant, PTL

-----------------------------------------------------------------------------
(* Claims. *)

(* Only a claim records one; everything else keeps or clears it. *)
LEMMA OnlyClaimsClaim ==
    ASSUME TypeOK, [Next]_vars, NEW e \in Entries, claim'[e] # claim[e], claim'[e] # NoClaim
    PROVE  \E u \in Users : ClaimSecretOwnership(u, e)
<1>1. ASSUME NEW u \in Users, NEW isAdmin, NEW f \in Entries, EntryStep(u, isAdmin, f) PROVE FALSE
  <2>1. ASSUME NEW c, NEW svc, NEW h, Create(u, isAdmin, f, c, svc, h) PROVE claim' = claim
    BY <2>1 DEF Create
  <2>2. ASSUME NEW c, MoveToCollection(u, isAdmin, f, c) PROVE claim' = claim
    BY <2>2 DEF MoveToCollection
  <2>3. ASSUME NEW rename, NEW ceiling, NEW svc, NEW h, Update(u, isAdmin, f, rename, ceiling, svc, h)
        PROVE  claim' = claim
    BY <2>3, Zenon DEF Update
  <2>4. ASSUME NEW want, UpdateTargets(u, isAdmin, f, want) PROVE claim' = claim
    BY <2>4, Zenon DEF UpdateTargets
  <2>5. Delete(u, isAdmin, f) => claim' = [claim EXCEPT ![f] = NoClaim]
    BY DEF Delete
  <2>6. claim' = claim \/ claim' = [claim EXCEPT ![f] = NoClaim]
    BY <1>1, <2>1, <2>2, <2>3, <2>4, <2>5 DEF EntryStep
  <2> QED BY <2>6 DEF TypeOK
<1>2. ASSUME NEW u \in Users, NEW f \in Entries, ClaimSecretOwnership(u, f)
      PROVE  ClaimSecretOwnership(u, e)
  BY <1>2 DEF ClaimSecretOwnership, RecordClaim, TypeOK
<1>3. ASSUME NEW u \in Users, NEW f \in Entries, RestoreSecretOwnership(u, f) PROVE FALSE
  BY <1>3 DEF RestoreSecretOwnership, TypeOK
<1>4. ASSUME NEW u \in Users, NEW t, HardDelete(u, t) PROVE FALSE
  BY <1>4 DEF HardDelete
<1>5. ASSUME NEW c, DeleteCollection(c) PROVE FALSE
  BY <1>5 DEF DeleteCollection
<1>6. ASSUME NEW p, PurgeStep(p) PROVE FALSE
  BY <1>6 DEF PurgeStep, ListVaultEntryTargets, PurgeTargets, PurgeLost
<1>7. ASSUME NEW t, TeamStep(t) PROVE FALSE
  BY <1>7 DEF TeamStep, UpdateUserRole, DisableUser, EnableUser, SetMember, RemoveMember
<1>8. ASSUME NEW u, NEW p, NEW f, UpdateConfig(u, p, f) PROVE FALSE
  BY <1>8 DEF UpdateConfig
<1>9. CASE UNCHANGED vars
  BY <1>9 DEF vars
<1>10. ASSUME NEW u \in Users, AdminStep(u) PROVE ClaimSecretOwnership(u, e)
  BY <1>2, <1>3, <1>4, <1>8, <1>10 DEF AdminStep
<1>11. scene.rows \subseteq Entries
  BY SceneForm DEF TypeOK
<1> QED BY <1>1, <1>5, <1>6, <1>7, <1>9, <1>10, <1>11 DEF Next

(* Taking over an entry whose owner cannot reach it arms no host that        *)
(* anybody chose: the recorded hosts are cleared, and of the targets only    *)
(* those that an administrator configured count, which counted before.  What *)
(* may take the place of a site that was chosen is the adapter's default     *)
(* (vault_ownership_repair.go, disarmRecordedDestinations).                  *)
THEOREM ClaimsDisarm == CapabilitySpec => ClaimNeverRearms
<1>1. ASSUME Inv, [Next]_vars, NEW e \in Entries, claim'[e] # claim[e], claim'[e] # NoClaim
      PROVE  ownerRecordedDestinations(e)' \subseteq
                 ownerRecordedDestinations(e) \cup declaredProviderEgress(entry[e].provider, NoHost)
  <2>0. TypeOK
    BY <1>1 DEF Inv
  <2>1. PICK u \in Users : ClaimSecretOwnership(u, e)
    BY <1>1, <2>0, OnlyClaimsClaim
  <2>2. Live(e) /\ instanceAdminByRecord(u)
    BY <2>1 DEF ClaimSecretOwnership, ListUnownedEntries, ListVaultEntriesWithNoRecordedOwner,
                expiredOwnerEntries, AuthorizeTransfer
  <2>3. entry[e] \in LiveRows
    BY <2>0, <2>2, LiveForm
  <2>4. /\ entry'[e] = Reindexed(disarmRecordedDestinations(TransferSecretOwnership(entry[e], u)),
                                 u, entry[e].coll)
        /\ UNCHANGED <<status, role, member, wired>>
    BY <2>0, <2>1 DEF ClaimSecretOwnership, TypeOK, accountVars, teamVars
  <2>5. /\ entry'[e].owner = u /\ entry'[e].targets = entry[e].targets
        /\ entry'[e].ceiling = {} /\ entry'[e].meta = NoHost
        /\ entry'[e].provider = entry[e].provider
    BY <2>3, <2>4 DEF Reindexed, disarmRecordedDestinations, TransferSecretOwnership, LiveRows
  <2>6. providerPinFor(e)' = providerPinFor(e)
    BY <2>4 DEF providerPinFor
  <2>7. ASSUME NEW v, mayConfigureDelivery(v, e)'
        PROVE  mayConfigureDelivery(v, e)
    <3>1. instanceAdminByRecord(v)
      BY <2>2, <2>4, <2>5, <2>7
      DEF mayConfigureDelivery, mayDirectSecretEgress, instanceAdminByRecord, AccountLive
    <3>2. grantFor(v, TRUE, e) = {"read", "use", "manage"}
      BY <2>2, <3>1 DEF grantFor, instanceAdminByRecord
    <3> QED BY <3>1, <3>2 DEF mayConfigureDelivery, mayDirectSecretEgress, entryAccess
  <2>8. targetHosts(e)' \subseteq targetHosts(e)
    BY <2>5, <2>7 DEF targetHosts
  <2> DEFINE D == declaredProviderEgress(entry[e].provider, NoHost)
  <2>9. /\ Declared(e)' = D /\ ceilingOf(e)' = {}
        /\ metaIndependentProviderEgress(entry[e].provider, entry[e].meta)' \subseteq D
    BY <2>5 DEF Declared, ceilingOf, metaIndependentProviderEgress
  <2> HIDE DEF D
  <2>10. ownerRecordedDestinations(e)' \subseteq
            IF providerPinFor(e) # {} THEN providerPinFor(e) ELSE targetHosts(e) \cup D
    BY <2>6, <2>8, <2>9 DEF ownerRecordedDestinations
  <2>11. ownerRecordedDestinations(e)' \subseteq ownerRecordedDestinations(e) \cup D
    BY <2>2, <2>10 DEF ownerRecordedDestinations
  <2> QED BY <2>11 DEF D
<1>2. Inv /\ [CapabilityNext]_allVars =>
        [\A e \in Entries :
            claim'[e] # claim[e] /\ claim'[e] # NoClaim =>
                ownerRecordedDestinations(e)' \subseteq
                    ownerRecordedDestinations(e)
                        \cup declaredProviderEgress(entry[e].provider, NoHost)]_vars
  BY <1>1, ExitsAreQuiet
<1> QED BY <1>2, CustodyInvariant, PTL DEF CapabilitySpec, ClaimNeverRearms

-----------------------------------------------------------------------------
(* The requests that send a secret. *)

OutRows == [pc : OutPcs, token : Tokens \cup {Nobody}, entry : Entries,
            also : Entries \cup {Nobody}, host : Hosts, recorded : BOOLEAN, counts : BOOLEAN]
HandRows == [pc : {"deliver", "push"}, entry : Entries, host : Hosts, by : Users \cup {Nobody},
             kind : Kinds, also : Entries \cup {Nobody}]

LEMMA FlightForm ==
    ASSUME NEW f \in FlightRows
    PROVE  /\ f.pc = "verified" => f.token \in Tokens /\ f.host \in Hosts
           /\ f.pc \in OutPcs => f \in OutRows
           /\ f.pc \in {"deliver", "push"} => f \in HandRows
           /\ Grounded.pc = "idle"
<1>1. CASE f = Grounded
  BY <1>1 DEF Grounded, OutPcs
<1>2. CASE f \in [pc : {"verified"}, token : Tokens, host : Hosts]
  BY <1>2 DEF Grounded, OutPcs
<1>3. CASE f \in OutRows
  BY <1>3 DEF OutRows, OutPcs, Grounded
<1>4. CASE f \in HandRows
  BY <1>4 DEF HandRows, OutPcs, Grounded
<1> QED BY <1>1, <1>2, <1>3, <1>4 DEF FlightRows, OutRows, HandRows, OutPcs

LEMMA RowsFly == OutRows \subseteq FlightRows /\ HandRows \subseteq FlightRows /\ Grounded \in FlightRows
  BY DEF OutRows, HandRows, FlightRows, OutPcs

(* What a request in flight becomes, by the way it goes. *)
Ready(k, h) == [pc |-> "verified", token |-> k, host |-> h]

LEMMA FlightShapes ==
    /\ Grounded \in FlightRows /\ Grounded.pc = "idle"
    /\ \A k \in Tokens, h \in Hosts :
         /\ Ready(k, h) \in FlightRows
         /\ Ready(k, h).pc = "verified" /\ Ready(k, h).token = k
    /\ \A pc \in OutPcs, k \in Tokens \cup {Nobody}, e \in Entries, also \in Entries \cup {Nobody},
          h \in Hosts :
         /\ Leaving(pc, k, e, also, h) \in FlightRows
         /\ Leaving(pc, k, e, also, h).pc = pc /\ Leaving(pc, k, e, also, h).token = k
         /\ Leaving(pc, k, e, also, h).entry = e /\ Leaving(pc, k, e, also, h).host = h
         /\ Leaving(pc, k, e, also, h).also = also
         /\ ~Leaving(pc, k, e, also, h).recorded /\ ~Leaving(pc, k, e, also, h).counts
<1>1. Grounded \in FlightRows /\ Grounded.pc = "idle"
  BY DEF Grounded, FlightRows
<1>2. ASSUME NEW k \in Tokens, NEW h \in Hosts
      PROVE  Ready(k, h) \in FlightRows /\ Ready(k, h).pc = "verified" /\ Ready(k, h).token = k
  BY DEF Ready, FlightRows
<1>3. ASSUME NEW pc \in OutPcs, NEW k \in Tokens \cup {Nobody}, NEW e \in Entries,
             NEW also \in Entries \cup {Nobody}, NEW h \in Hosts
      PROVE  /\ Leaving(pc, k, e, also, h) \in FlightRows
             /\ Leaving(pc, k, e, also, h).pc = pc /\ Leaving(pc, k, e, also, h).token = k
             /\ Leaving(pc, k, e, also, h).entry = e /\ Leaving(pc, k, e, also, h).host = h
             /\ Leaving(pc, k, e, also, h).also = also
             /\ ~Leaving(pc, k, e, also, h).recorded /\ ~Leaving(pc, k, e, also, h).counts
  <2>1. Leaving(pc, k, e, also, h) \in OutRows
    BY DEF Leaving, OutRows
  <2> QED BY <2>1, RowsFly DEF Leaving
<1> QED BY <1>1, <1>2, <1>3

LEMMA TokenForm ==
    ASSUME NEW t \in TokenRows, t # Unminted
    PROVE  t.entry \in Entries /\ t.issuer \in Users
  BY DEF TokenRows

(* Each step of Capability, as what it does to its own variables.  A hop     *)
(* takes a request one step on, and keeps what it has learned so far so.     *)
Minted == \E k \in Tokens, t \in TokenRows :
    /\ token[k] = Unminted /\ t # Unminted
    /\ token' = [token EXCEPT ![k] = t]
    /\ UNCHANGED <<vars, expired, spent, flight, history>>
Expires == \E k \in Tokens :
    expired' = expired \cup {k} /\ UNCHANGED <<vars, token, spent, flight, history>>
Pruned == \E k \in Tokens :
    /\ k \in expired
    /\ ~StallsPastMidnight => \A r \in Requests : ~Presents(r, k)
    /\ spent' = spent \ {k}
    /\ UNCHANGED <<vars, token, expired, flight, history>>
Verified == \E r \in Requests, k \in Tokens, h \in Hosts :
    /\ flight[r] = Grounded /\ token[k] # Unminted /\ k \notin expired
    /\ flight' = [flight EXCEPT ![r] = Ready(k, h)]
    /\ UNCHANGED <<vars, tokenVars, history>>
Spent == \E r \in Requests, k \in Tokens, e \in Entries, h \in Hosts :
    /\ Presents(r, k) /\ k \notin spent /\ spent' = spent \cup {k}
    /\ \/ flight' = [flight EXCEPT ![r] = Leaving("pin", k, e, Nobody, h)]
       \/ flight' = [flight EXCEPT ![r] = Grounded]
    /\ UNCHANGED <<vars, token, expired, history>>
Sent == \E r \in Requests :
    /\ flight[r].pc = "send"
    /\ forwards' = [j \in Tokens |-> IF j = flight[r].token THEN forwards[j] + 1 ELSE forwards[j]]
    /\ sent' = [e \in Entries |-> IF e = flight[r].entry \/ e = flight[r].also
                                  THEN sent[e] \cup {flight[r].host} ELSE sent[e]]
    /\ flight' = [flight EXCEPT ![r] = Grounded]
    /\ UNCHANGED <<vars, tokenVars, late>>
Takes(r, f) ==
    /\ flight' = [flight EXCEPT ![r] = f]
    /\ UNCHANGED <<vars, tokenVars, history>>
    /\ f.pc # "verified"
    /\ f.pc \in OutPcs => f.token = Nobody \/ (flight[r].pc \in OutPcs /\ f.token = flight[r].token)
    /\ Cleared(flight[r]) => Cleared(f)
Hop == \E r \in Requests, f \in FlightRows : Takes(r, f)
Moves ==
    \/ CustodyStep \/ UNCHANGED allVars
    \/ Minted \/ Expires \/ Pruned \/ Verified \/ Spent \/ Sent \/ Hop

-----------------------------------------------------------------------------
(* Each question an exit asks. *)

LEMMA ChosenIsLed ==
    ASSUME NEW e \in Entries, NEW h \in Hosts, h \in Dir(chosen[e], Admins)
    PROVE  h \in Led(e)
  BY DEF Led

(* Whoever may configure a delivery of the entry's secret and saved a target *)
(* at the host, on whichever entry, led it there.                            *)
LEMMA StampedIsLed ==
    ASSUME Inv, NEW e \in Entries, NEW f \in Entries, NEW h \in Hosts, NEW u,
           mayConfigureDelivery(u, e), <<u, h>> \in chosen[f].stamps
    PROVE  h \in Led(e)
<1>1. u \in Users
  BY DEF mayConfigureDelivery, mayDirectSecretEgress, entryAccess, grantFor, AccountLive
<1>2. u \in {chosen[e].by} \cup Admins
  BY <1>1, ConfigurerEntitled
<1>3. u \in Entitled(e)
  BY <1>1, <1>2 DEF Entitled, Admins
<1> QED BY <1>3 DEF Led, Stamped

(* A target of a live row was saved under its configurer's name. *)
LEMMA TargetStamped ==
    ASSUME Inv, NEW e \in Entries, Live(e), NEW h \in Hosts, entry[e].targets[h] # NoTarget
    PROVE  <<entry[e].targets[h].by, h>> \in chosen[e].stamps
  BY DEF Inv, Rows, RowOK, Armed, Posted, Live

LEMMA PinIsLed ==
    ASSUME Inv, NEW e \in Entries, NEW h \in providerPinFor(e)
    PROVE  h \in Hosts /\ h \in Led(e)
<1>1. PICK p \in Providers : wired[p] = e /\ ApiHost[p] = h
  BY DEF providerPinFor
<1>2. h \in Hosts /\ h \in Dir(chosen[e], Admins)
  BY <1>1, CustodyAssumption DEF Inv, Wiring
<1> QED BY <1>2, ChosenIsLed

(* What the row records, and what of that needs no owner. *)
LEMMA RowIsPending ==
    ASSUME Inv, NEW e \in Entries, Live(e), NEW h \in Hosts
    PROVE  /\ h \in Reach(entry[e]) => Pending(e, h)
           /\ h \in metaIndependentProviderEgress(entry[e].provider, entry[e].meta) => h \in Led(e)
<1>1. Armed(entry[e], claim[e], chosen[e], Admins) /\ entry[e].state = "live"
  BY DEF Inv, Rows, RowOK, Live
<1>2. Reach(entry[e]) \subseteq Dir(chosen[e], Admins) \/ entry[e].owner = Nobody
  BY <1>1 DEF Armed, Ownerless
<1>3. h \in Reach(entry[e]) => Pending(e, h)
  BY <1>2, ChosenIsLed DEF Pending
<1>4. metaIndependentProviderEgress(entry[e].provider, entry[e].meta) \subseteq Dir(chosen[e], Admins)
  BY KeptVendors
<1> QED BY <1>3, <1>4, ChosenIsLed

LEMMA ReadPinHops ==
    ASSUME Inv, CapabilityTypeOK, NEW r \in Requests, ReadPin(r)
    PROVE  Hop
<1> DEFINE f == flight[r]
           s == [f EXCEPT !.pc = "row"]
           t == [f EXCEPT !.pc = "send"]
<1>1. f \in OutRows /\ f.pc = "pin"
  BY FlightForm DEF ReadPin, CapabilityTypeOK, OutPcs
<1>2. /\ s \in OutRows /\ s.pc = "row" /\ s.token = f.token /\ s.also = f.also
      /\ t \in OutRows /\ t.pc = "send" /\ t.token = f.token /\ t.also = f.also
      /\ t.entry = f.entry /\ t.host = f.host
  BY <1>1 DEF OutRows, OutPcs
<1>3. /\ UNCHANGED <<vars, tokenVars, history>>
      /\ \/ flight' = [flight EXCEPT ![r] = s]
         \/ f.host \in providerPinFor(f.entry) /\ flight' = [flight EXCEPT ![r] = t]
  BY DEF ReadPin, Set
<1>4. f.entry \in Entries
  BY <1>1 DEF OutRows
<1>5. f.host \in providerPinFor(f.entry) => f.host \in Led(f.entry)
  BY <1>4, PinIsLed
<1> HIDE DEF s, t
<1>6. Cleared(f) => Cleared(s)
  BY <1>1, <1>2 DEF Cleared, OutPcs
<1>7. f.host \in Led(f.entry) => (Cleared(f) => Cleared(t))
  BY <1>1, <1>2, CustodyAssumption DEF Cleared, OutPcs
<1>8. s \in FlightRows /\ t \in FlightRows
  BY <1>2, RowsFly
<1>9. s.pc # "verified" /\ t.pc # "verified" /\ f.pc \in OutPcs
  BY <1>1, <1>2 DEF OutPcs
<1>10. CASE flight' = [flight EXCEPT ![r] = s]
  <2>1. Takes(r, s)
    BY <1>2, <1>3, <1>6, <1>9, <1>10 DEF Takes
  <2> QED BY <1>8, <2>1 DEF Hop
<1>11. CASE f.host \in providerPinFor(f.entry) /\ flight' = [flight EXCEPT ![r] = t]
  <2>1. Takes(r, t)
    BY <1>2, <1>3, <1>5, <1>7, <1>9, <1>11 DEF Takes
  <2> QED BY <1>8, <2>1 DEF Hop
<1> QED BY <1>3, <1>10, <1>11

LEMMA ReadRowHops ==
    ASSUME Inv, CapabilityTypeOK, NEW r \in Requests, ReadRow(r)
    PROVE  Hop
<1> DEFINE f == flight[r]
           x == entry[f.entry]
           b == f.host \in Reach(x)
           c == f.host \in metaIndependentProviderEgress(x.provider, x.meta)
           s == [f EXCEPT !.pc = "owner", !.recorded = b, !.counts = c]
<1>1. f \in OutRows /\ f.pc = "row"
  BY FlightForm DEF ReadRow, CapabilityTypeOK, OutPcs
<1>2. f.entry \in Entries /\ f.host \in Hosts /\ Live(f.entry)
  BY <1>1 DEF OutRows, ReadRow
<1>3. /\ b => Pending(f.entry, f.host)
      /\ c => f.host \in Led(f.entry)
  BY <1>2, RowIsPending
<1>4. UNCHANGED <<vars, tokenVars, history>> /\ flight' = [flight EXCEPT ![r] = s]
  BY DEF ReadRow, Set, Reach
<1>5. b \in BOOLEAN /\ c \in BOOLEAN
  OBVIOUS
<1> HIDE DEF b, c
<1>6. /\ s \in OutRows /\ s.pc = "owner" /\ s.token = f.token /\ s.also = f.also
      /\ s.entry = f.entry /\ s.host = f.host /\ s.recorded = b /\ s.counts = c
  BY <1>1, <1>5 DEF OutRows, OutPcs
<1> HIDE DEF s
<1>7. Cleared(f) => Cleared(s)
  BY <1>1, <1>3, <1>6 DEF Cleared, OutPcs
<1>8. s \in FlightRows
  BY <1>6, RowsFly
<1>9. Takes(r, s)
  BY <1>1, <1>4, <1>6, <1>7 DEF Takes, OutPcs
<1> QED BY <1>8, <1>9 DEF Hop

LEMMA ReadOwnerHops ==
    ASSUME Inv, CapabilityTypeOK, NEW r \in Requests, ReadOwner(r)
    PROVE  Hop
<1> DEFINE f == flight[r]
           c == OwnerCounts(f)
           s == [f EXCEPT !.pc = "targets", !.recorded = FALSE, !.counts = c]
<1>1. f \in OutRows /\ f.pc = "owner"
  BY FlightForm DEF ReadOwner, CapabilityTypeOK, OutPcs
<1>2. f.entry \in Entries /\ f.host \in Hosts /\ Live(f.entry) /\ f.counts \in BOOLEAN /\ f.recorded \in BOOLEAN
  BY <1>1 DEF OutRows, ReadOwner
<1>3. entry[f.entry] # Gone
  BY <1>2 DEF Live, Gone
<1>4. Cleared(f) => (c => f.host \in Led(f.entry))
  BY <1>1, <1>2, <1>3 DEF Cleared, OwnerCounts, Pending, recordedOwnerMayDirect
<1>5. c \in BOOLEAN
  BY DEF OwnerCounts
<1>6. UNCHANGED <<vars, tokenVars, history>> /\ flight' = [flight EXCEPT ![r] = s]
  BY DEF ReadOwner, Set
<1> HIDE DEF c
<1>7. /\ s \in OutRows /\ s.pc = "targets" /\ s.token = f.token /\ s.also = f.also
      /\ s.entry = f.entry /\ s.host = f.host /\ s.counts = c
  BY <1>1, <1>5 DEF OutRows, OutPcs
<1> HIDE DEF s
<1>8. Cleared(f) => Cleared(s)
  BY <1>1, <1>4, <1>7 DEF Cleared, OutPcs
<1>9. s \in FlightRows
  BY <1>7, RowsFly
<1>10. Takes(r, s)
  BY <1>1, <1>6, <1>7, <1>8 DEF Takes, OutPcs
<1> QED BY <1>9, <1>10 DEF Hop

LEMMA ReadTargetsHops ==
    ASSUME Inv, CapabilityTypeOK, NEW r \in Requests, ReadTargets(r)
    PROVE  Hop
<1> DEFINE f == flight[r]
           s == [f EXCEPT !.pc = "send", !.counts = FALSE]
<1>1. f \in OutRows /\ f.pc = "targets"
  BY FlightForm DEF ReadTargets, CapabilityTypeOK, OutPcs
<1>2. f.entry \in Entries /\ f.host \in Hosts
  BY <1>1 DEF OutRows
<1>3. ASSUME Live(f.entry), f.host \in targetHosts(f.entry)
      PROVE  f.host \in Led(f.entry)
  <2> DEFINE u == entry[f.entry].targets[f.host].by
  <2>1. u # Nobody /\ mayConfigureDelivery(u, f.entry)
    BY <1>3 DEF targetHosts
  <2>2. entry[f.entry].targets[f.host] # NoTarget
    BY <2>1 DEF NoTarget
  <2>3. <<u, f.host>> \in chosen[f.entry].stamps
    BY <1>2, <1>3, <2>2, TargetStamped
  <2> HIDE DEF u
  <2> QED BY <1>2, <2>1, <2>3, StampedIsLed
<1>4. Cleared(f) => f.host \in Led(f.entry)
  BY <1>1, <1>3 DEF Cleared, ReadTargets
<1>5. UNCHANGED <<vars, tokenVars, history>> /\ flight' = [flight EXCEPT ![r] = s]
  BY DEF ReadTargets, Set
<1>6. /\ s \in OutRows /\ s.pc = "send" /\ s.token = f.token /\ s.also = f.also
      /\ s.entry = f.entry /\ s.host = f.host
  BY <1>1 DEF OutRows, OutPcs
<1> HIDE DEF s
<1>7. Cleared(f) => Cleared(s)
  <2>1. Cleared(f) => s.also = Nobody /\ s.also \notin Entries
    BY <1>1, <1>6, CustodyAssumption DEF Cleared, OutPcs
  <2> QED BY <1>4, <1>6, <2>1 DEF Cleared
<1>8. s \in FlightRows
  BY <1>6, RowsFly
<1>9. Takes(r, s)
  BY <1>1, <1>5, <1>6, <1>7 DEF Takes, OutPcs
<1> QED BY <1>8, <1>9 DEF Hop

(* A request that starts, or is handed on, with nothing but a token it had. *)
LEMMA LeavingHops ==
    ASSUME NEW r \in Requests, NEW pc \in OutPcs, NEW e \in Entries, NEW also \in Entries \cup {Nobody},
           NEW h \in Hosts, Set(r, Leaving(pc, Nobody, e, also, h)), UNCHANGED <<vars, tokenVars, history>>,
           pc # "send" => also = Nobody,
           pc = "send" => (Cleared(flight[r]) => h \in Led(e) /\ (also \in Entries => h \in Led(also)))
    PROVE  Hop
<1> DEFINE f == Leaving(pc, Nobody, e, also, h)
<1>1. /\ f \in FlightRows /\ f.pc = pc /\ f.token = Nobody /\ f.entry = e /\ f.host = h
      /\ f.also = also /\ ~f.recorded /\ ~f.counts
  BY FlightShapes
<1>2. flight' = [flight EXCEPT ![r] = f]
  BY DEF Set
<1> HIDE DEF f
<1>3. Cleared(flight[r]) => Cleared(f)
  BY <1>1 DEF Cleared, OutPcs
<1>4. Takes(r, f)
  BY <1>1, <1>2, <1>3 DEF Takes, OutPcs
<1> QED BY <1>1, <1>4 DEF Hop

LEMMA DeliverHops ==
    ASSUME Inv, NEW r \in Requests, NEW e \in Entries, NEW h \in Hosts, DeliverRotatedKey(r, e, h)
    PROVE  Hop
<1> DEFINE t == entry[e].targets[h]
           f == [pc |-> "deliver", entry |-> e, host |-> h, by |-> t.by, kind |-> t.kind, also |-> Nobody]
<1>1. /\ Live(e) /\ t # NoTarget
      /\ flight' = [flight EXCEPT ![r] = f] /\ UNCHANGED <<vars, tokenVars, history>>
  BY DEF DeliverRotatedKey, Set
<1>2. t \in TargetRows
  BY <1>1, LiveForm DEF Inv, LiveRows, Targets
<1>3. <<t.by, h>> \in chosen[e].stamps
  BY <1>1, TargetStamped
<1>4. t.by \in Users \cup {Nobody} /\ t.kind \in Kinds
  BY <1>2 DEF TargetRows
<1> HIDE DEF t
<1>6. f \in HandRows /\ f.pc = "deliver" /\ f.by = t.by /\ f.host = h /\ f.entry = e
  BY <1>4 DEF HandRows
<1> HIDE DEF f
<1>7. Cleared(f)
  BY <1>3, <1>6 DEF Cleared, OutPcs
<1>8. f \in FlightRows
  BY <1>6, RowsFly
<1>9. Takes(r, f)
  BY <1>1, <1>6, <1>7 DEF Takes, OutPcs
<1> QED BY <1>8, <1>9 DEF Hop

LEMMA WebhookHops ==
    ASSUME Inv, CapabilityTypeOK, NEW r \in Requests, deliverToWebhook(r)
    PROVE  Hop
<1> DEFINE f == flight[r]
<1>1. f \in HandRows /\ f.pc = "deliver"
  BY FlightForm DEF deliverToWebhook, CapabilityTypeOK
<1>2. f.entry \in Entries /\ f.host \in Hosts
  BY <1>1 DEF HandRows
<1>3. f.by # Nobody /\ mayConfigureDelivery(f.by, f.entry)
  BY CustodyAssumption DEF deliverToWebhook, targetStillAuthorized, AccountLive, ChosenByUser
<1>4. Cleared(f) => f.host \in Led(f.entry)
  <2>1. Cleared(f) => <<f.by, f.host>> \in chosen[f.entry].stamps
    BY <1>1, <1>3 DEF Cleared
  <2> QED BY <1>2, <1>3, <2>1, StampedIsLed
<1>5. Set(r, Leaving("send", Nobody, f.entry, Nobody, f.host)) /\ UNCHANGED <<vars, tokenVars, history>>
  BY DEF deliverToWebhook
<1>6. "send" \in OutPcs /\ Nobody \notin Entries
  BY CustodyAssumption DEF OutPcs
<1> QED BY <1>2, <1>4, <1>5, <1>6, LeavingHops

LEMMA ForgejoHops ==
    ASSUME Inv, CapabilityTypeOK, NEW r \in Requests, NEW g \in Entries, deliverToForgejoSecret(r, g)
    PROVE  Hop
<1> DEFINE f == flight[r]
           s == [f EXCEPT !.pc = "push", !.also = g]
<1>1. f \in HandRows /\ f.pc = "deliver"
  BY FlightForm DEF deliverToForgejoSecret, CapabilityTypeOK
<1>2. f.entry \in Entries /\ f.host \in Hosts
  BY <1>1 DEF HandRows
<1>3. f.by # Nobody /\ mayConfigureDelivery(f.by, g)
  BY CustodyAssumption DEF deliverToForgejoSecret, targetStillAuthorized, AccountLive, ChosenByUser
<1>4. Cleared(f) => <<f.by, f.host>> \in chosen[f.entry].stamps
  BY <1>1, <1>3 DEF Cleared
<1>5. Cleared(f) => f.host \in Led(g)
  BY <1>2, <1>3, <1>4, StampedIsLed
<1>6. UNCHANGED <<vars, tokenVars, history>> /\ flight' = [flight EXCEPT ![r] = s]
  BY DEF deliverToForgejoSecret, Set
<1>7. /\ s \in HandRows /\ s.pc = "push" /\ s.also = g
      /\ s.entry = f.entry /\ s.host = f.host /\ s.by = f.by
  BY <1>1 DEF HandRows
<1> HIDE DEF s
<1>8. Cleared(f) => Cleared(s)
  BY <1>4, <1>5, <1>7 DEF Cleared, OutPcs
<1>9. s \in FlightRows
  BY <1>7, RowsFly
<1>10. Takes(r, s)
  BY <1>6, <1>7, <1>8 DEF Takes, OutPcs
<1> QED BY <1>9, <1>10 DEF Hop

LEMMA PushHops ==
    ASSUME Inv, CapabilityTypeOK, NEW r \in Requests, PushRotated(r)
    PROVE  Hop
<1> DEFINE f == flight[r]
<1>1. f \in HandRows /\ f.pc = "push"
  BY FlightForm DEF PushRotated, CapabilityTypeOK
<1>2. f.entry \in Entries /\ f.host \in Hosts /\ f.also \in Entries \cup {Nobody}
  BY <1>1 DEF HandRows
<1>3. mayConfigureDelivery(f.by, f.entry)
  BY DEF PushRotated, ChosenByUser
<1>4. f.by # Nobody
  BY <1>3, CustodyAssumption
  DEF mayConfigureDelivery, mayDirectSecretEgress, entryAccess, grantFor, AccountLive
<1>5. Cleared(f) => f.host \in Led(f.entry) /\ (f.also \in Entries => f.host \in Led(f.also))
  <2>1. Cleared(f) => /\ <<f.by, f.host>> \in chosen[f.entry].stamps
                      /\ f.also \in Entries => f.host \in Led(f.also)
    BY <1>1, <1>4 DEF Cleared
  <2> QED BY <1>2, <1>3, <2>1, StampedIsLed
<1>6. Set(r, Leaving("send", Nobody, f.entry, f.also, f.host)) /\ UNCHANGED <<vars, tokenVars, history>>
  BY DEF PushRotated
<1>7. "send" \in OutPcs
  BY DEF OutPcs
<1> QED BY <1>2, <1>5, <1>6, <1>7, LeavingHops

LEMMA ProviderHops ==
    ASSUME Inv, NEW r \in Requests, NEW e \in Entries, providerDo(r, e)
    PROVE  Hop
<1>1. PICK h \in Declared(e) : Set(r, Leaving("pin", Nobody, e, Nobody, h))
  BY DEF providerDo
<1>2. entry[e] \in LiveRows
  BY LiveForm DEF providerDo, Inv
<1>3. h \in Hosts
  BY <1>2, CustodyAssumption DEF Declared, declaredProviderEgress, Chooses, LiveRows, NoHost
<1>4. UNCHANGED <<vars, tokenVars, history>>
  BY DEF providerDo
<1>5. "pin" \in OutPcs
  BY DEF OutPcs
<1> QED BY <1>1, <1>3, <1>4, <1>5, LeavingHops

LEMMA GatewayHops ==
    ASSUME Inv, NEW r \in Requests, NEW p \in Providers, AIGatewayProxy(r, p)
    PROVE  Hop
<1>1. wired[p] \in Entries /\ UNCHANGED <<vars, tokenVars, history>>
      /\ Set(r, Leaving("send", Nobody, wired[p], Nobody, ApiHost[p]))
  BY DEF AIGatewayProxy
<1>2. ApiHost[p] \in providerPinFor(wired[p])
  BY DEF providerPinFor
<1>3. ApiHost[p] \in Hosts /\ ApiHost[p] \in Led(wired[p])
  BY <1>1, <1>2, PinIsLed
<1>4. "send" \in OutPcs /\ Nobody \notin Entries
  BY CustodyAssumption DEF OutPcs
<1> QED BY <1>1, <1>3, <1>4, LeavingHops

LEMMA DropHops ==
    ASSUME NEW r \in Requests, Drop(r)
    PROVE  Hop
<1>1. Cleared(Grounded)
  BY FlightShapes DEF Cleared, OutPcs
<1>2. flight' = [flight EXCEPT ![r] = Grounded] /\ UNCHANGED <<vars, tokenVars, history>>
  BY DEF Drop, Set
<1>3. Takes(r, Grounded)
  BY <1>1, <1>2, FlightShapes DEF Takes, OutPcs
<1> QED BY <1>3, FlightShapes DEF Hop

LEMMA StepsAreMoves ==
    ASSUME Inv, CapabilityTypeOK, Signed, [CapabilityNext]_allVars
    PROVE  Moves
<1>0. TypeOK /\ \A r \in Requests : flight[r] \in FlightRows
  BY DEF CapabilityTypeOK, Inv
<1>1. CASE UNCHANGED allVars
  BY <1>1 DEF Moves
<1>2. CASE CustodyStep
  BY <1>2 DEF Moves
<1>3. ASSUME NEW u \in Users, NEW e \in Entries, NEW k \in Tokens, NEW want \in SUBSET Hosts,
             Issue(u, e, k, want)
      PROVE  Minted
  <2> DEFINE t == Sign(u, e, Narrowed(e, want))
  <2>1. Live(e)
    BY <1>3 DEF Issue, agentCanUse, accessibleEntries
  <2>2. Narrowed(e, want) \subseteq Hosts
    BY <1>0, <2>1, LiveForm DEF Narrowed, ceilingOf, LiveRows
  <2>3. t \in TokenRows /\ t # Unminted
    BY <2>2 DEF Sign, TokenRows, Unminted
  <2>4. /\ token[k] = Unminted /\ token' = [token EXCEPT ![k] = t]
        /\ UNCHANGED <<vars, expired, spent, flight, history>>
    BY <1>3 DEF Issue
  <2> HIDE DEF t
  <2> QED BY <2>3, <2>4 DEF Minted
<1>4. ASSUME NEW k \in Tokens, Expire(k) PROVE Expires
  BY <1>4 DEF Expire, Expires
<1>5. CASE PruneSpentNonces
  <2>1. PICK k \in spent \cap expired :
          /\ StallsPastMidnight \/ \A r \in Requests :
                flight[r].pc = "verified" => flight[r].token # k
          /\ spent' = spent \ {k}
    BY <1>5 DEF PruneSpentNonces
  <2>2. k \in Tokens /\ k \in expired
    BY DEF CapabilityTypeOK
  <2>3. ~StallsPastMidnight => \A r \in Requests : ~Presents(r, k)
    BY <2>1 DEF Presents
  <2>4. UNCHANGED <<vars, token, expired, flight, history>>
    BY <1>5 DEF PruneSpentNonces
  <2> QED BY <2>1, <2>2, <2>3, <2>4 DEF Pruned, Moves
<1>6. ASSUME NEW r \in Requests, NEW k \in Tokens, NEW h \in Hosts, Verify(r, k, h) PROVE Verified
  BY <1>6 DEF Verify, Verified, Set, Ready
<1>7. ASSUME NEW r \in Requests, ProxySnapshot(r) PROVE Spent
  <2> DEFINE k == flight[r].token
             e == token[k].entry
             h == flight[r].host
  <2>1. Presents(r, k) /\ k \in Tokens /\ h \in Hosts
    BY <1>0, <1>7, FlightForm DEF ProxySnapshot, Presents
  <2>2. token[k] \in TokenRows /\ token[k] # Unminted
    BY <1>7, <2>1 DEF CapabilityTypeOK, Signed, ProxySnapshot
  <2>3. e \in Entries
    BY <2>2, TokenForm
  <2>4. /\ k \notin spent /\ spent' = spent \cup {k}
        /\ \/ flight' = [flight EXCEPT ![r] = Leaving("pin", k, e, Nobody, h)]
           \/ flight' = [flight EXCEPT ![r] = Grounded]
        /\ UNCHANGED <<vars, token, expired, history>>
    BY <1>7 DEF ProxySnapshot, spendNonce, Set
  <2> HIDE DEF k, e, h
  <2> QED BY <2>1, <2>3, <2>4 DEF Spent
<1>8. ASSUME NEW r \in Requests, Send(r) PROVE Sent
  <2>1. /\ flight[r].pc = "send"
        /\ forwards' = [j \in Tokens |-> IF j = flight[r].token THEN forwards[j] + 1 ELSE forwards[j]]
        /\ sent' = [e \in Entries |-> IF e \in {flight[r].entry, flight[r].also}
                                      THEN sent[e] \cup {flight[r].host} ELSE sent[e]]
        /\ flight' = [flight EXCEPT ![r] = Grounded]
        /\ UNCHANGED <<vars, tokenVars, late>>
    BY <1>8 DEF Send, Set
  <2> QED BY <2>1 DEF Sent
<1>9. CASE TokenStep
  BY <1>3, <1>4, <1>5, <1>6, <1>9 DEF TokenStep, Moves
<1>10. ASSUME NEW r \in Requests, ExitStep(r) PROVE Moves
  BY <1>10, ProviderHops, DeliverHops, GatewayHops DEF ExitStep, Moves
<1>11. ASSUME NEW r \in Requests, FlightStep(r) PROVE Moves
  BY <1>7, <1>8, <1>11, ReadPinHops, ReadRowHops, ReadOwnerHops, ReadTargetsHops, WebhookHops,
     ForgejoHops, PushHops, DropHops
  DEF FlightStep, Moves
<1> QED BY <1>1, <1>2, <1>9, <1>10, <1>11 DEF CapabilityNext

(* A step that moves one request. *)
LEMMA FlightSet ==
    ASSUME CapabilityTypeOK, NEW r \in Requests, NEW f \in FlightRows,
           flight' = [flight EXCEPT ![r] = f]
    PROVE  /\ flight' \in [Requests -> FlightRows] /\ flight'[r] = f
           /\ \A q \in Requests : q # r => flight'[q] = flight[q]
  BY DEF CapabilityTypeOK

LEMMA CapabilityTypes ==
    ASSUME CapabilityTypeOK, Signed, Moves
    PROVE  CapabilityTypeOK' /\ Signed'
<1>0. \A q \in Requests : flight[q] \in FlightRows
  BY DEF CapabilityTypeOK
<1>1. CASE UNCHANGED allVars
  BY <1>1 DEF allVars, capVars, CapabilityTypeOK, Signed
<1>2. CASE CustodyStep
  <2>1. /\ UNCHANGED <<token, expired, spent, flight, forwards, sent>>
        /\ late' = [e \in Entries |-> late[e] \cup {flight[r].host : r \in Overtaken(e)}]
    BY <1>2 DEF CustodyStep, tokenVars
  <2>2. ASSUME NEW e \in Entries, NEW r \in Overtaken(e) PROVE flight[r].host \in Hosts
    <3>1. r \in Requests /\ flight[r].pc \in OutPcs
      BY DEF Overtaken, OutPcs
    <3> QED BY <1>0, <3>1, FlightForm DEF OutRows
  <2>3. late' \in [Entries -> SUBSET Hosts]
    BY <2>1, <2>2 DEF CapabilityTypeOK
  <2> QED BY <2>1, <2>3 DEF CapabilityTypeOK, Signed
<1>3. CASE Minted
  <2>1. PICK k \in Tokens, t \in TokenRows :
          token[k] = Unminted /\ t # Unminted /\ token' = [token EXCEPT ![k] = t]
          /\ UNCHANGED <<vars, expired, spent, flight, history>>
    BY <1>3 DEF Minted
  <2>2. \A j \in Tokens : token[j] # Unminted => token'[j] # Unminted
    BY <2>1 DEF CapabilityTypeOK
  <2>3. Signed'
    BY <1>0, <2>1, <2>2, FlightForm DEF Signed
  <2> QED BY <2>1, <2>3 DEF CapabilityTypeOK, history
<1>4. CASE Expires
  BY <1>4 DEF Expires, CapabilityTypeOK, Signed, history
<1>5. CASE Pruned
  BY <1>5 DEF Pruned, CapabilityTypeOK, Signed, history
<1>6. ASSUME NEW r \in Requests, NEW f \in FlightRows,
             flight' = [flight EXCEPT ![r] = f], UNCHANGED <<token, expired, late>>,
             f.pc = "verified" => token[f.token] # Unminted,
             spent' \subseteq Tokens, forwards' \in [Tokens -> Nat], sent' \in [Entries -> SUBSET Hosts]
      PROVE  CapabilityTypeOK' /\ Signed'
  <2>1. CapabilityTypeOK'
    BY <1>6, FlightSet DEF CapabilityTypeOK
  <2>2. Signed'
    BY <1>6, FlightSet DEF Signed
  <2> QED BY <2>1, <2>2
<1>7. CASE Verified
  <2>1. PICK r \in Requests, k \in Tokens, h \in Hosts :
          /\ token[k] # Unminted
          /\ flight' = [flight EXCEPT ![r] = Ready(k, h)]
          /\ UNCHANGED <<token, expired, spent, forwards, sent, late>>
    BY <1>7 DEF Verified, tokenVars, history
  <2>2. Ready(k, h) \in FlightRows /\ Ready(k, h).token = k
    BY FlightShapes
  <2> QED BY <1>6, <2>1, <2>2 DEF CapabilityTypeOK
<1>8. CASE Spent
  <2>1. PICK r \in Requests, k \in Tokens, e \in Entries, h \in Hosts :
          /\ spent' = spent \cup {k}
          /\ \/ flight' = [flight EXCEPT ![r] = Leaving("pin", k, e, Nobody, h)]
             \/ flight' = [flight EXCEPT ![r] = Grounded]
          /\ UNCHANGED <<token, expired, forwards, sent, late>>
    BY <1>8 DEF Spent, history
  <2> DEFINE f == Leaving("pin", k, e, Nobody, h)
  <2>2. /\ f \in FlightRows /\ f.pc = "pin"
        /\ Grounded \in FlightRows /\ Grounded.pc = "idle"
    BY FlightShapes DEF OutPcs
  <2>3. spent' \subseteq Tokens /\ forwards' \in [Tokens -> Nat] /\ sent' \in [Entries -> SUBSET Hosts]
    BY <2>1 DEF CapabilityTypeOK
  <2> HIDE DEF f
  <2>4. CASE flight' = [flight EXCEPT ![r] = f]
    BY <1>6, <2>1, <2>2, <2>3, <2>4
  <2>5. CASE flight' = [flight EXCEPT ![r] = Grounded]
    BY <1>6, <2>1, <2>2, <2>3, <2>5
  <2> QED BY <2>1, <2>4, <2>5 DEF f
<1>9. CASE Hop
  <2>1. PICK r \in Requests, f \in FlightRows : Takes(r, f)
    BY <1>9 DEF Hop
  <2>2. /\ flight' = [flight EXCEPT ![r] = f] /\ f.pc # "verified"
        /\ UNCHANGED <<token, expired, spent, forwards, sent, late>>
    BY <2>1 DEF Takes, tokenVars, history
  <2> QED BY <1>6, <2>2 DEF CapabilityTypeOK
<1>10. CASE Sent
  <2>1. PICK r \in Requests :
          /\ flight[r].pc = "send"
          /\ forwards' = [j \in Tokens |-> IF j = flight[r].token THEN forwards[j] + 1 ELSE forwards[j]]
          /\ sent' = [e \in Entries |-> IF e = flight[r].entry \/ e = flight[r].also
                                        THEN sent[e] \cup {flight[r].host} ELSE sent[e]]
          /\ flight' = [flight EXCEPT ![r] = Grounded]
          /\ UNCHANGED <<vars, tokenVars, late>>
    BY <1>10 DEF Sent
  <2>2. flight[r] \in OutRows
    BY <1>0, <2>1, FlightForm DEF OutPcs
  <2>3. flight[r].host \in Hosts
    BY <2>2 DEF OutRows
  <2>4. forwards' \in [Tokens -> Nat] /\ sent' \in [Entries -> SUBSET Hosts]
    BY <2>1, <2>3 DEF CapabilityTypeOK
  <2> QED BY <1>6, <2>1, <2>4, FlightShapes DEF CapabilityTypeOK, tokenVars
<1> QED BY <1>1, <1>2, <1>3, <1>4, <1>5, <1>7, <1>8, <1>9, <1>10 DEF Moves

LEMMA CapabilityInitial == ASSUME CapabilityInit PROVE CapabilityTypeOK /\ Signed
  BY FlightShapes DEF CapabilityInit, CapabilityTypeOK, Signed, TokenRows

LEMMA CapabilityInvariant == CapabilitySpec => [](Inv /\ CapabilityTypeOK /\ Signed)
<1>1. CapabilityInit => CapabilityTypeOK /\ Signed
  BY CapabilityInitial
<1>2. Inv /\ CapabilityTypeOK /\ Signed /\ [CapabilityNext]_allVars => (CapabilityTypeOK /\ Signed)'
  BY CapabilityTypes, StepsAreMoves
<1> QED BY <1>1, <1>2, CustodyInvariant, PTL DEF CapabilitySpec

(* Tokens, spent nonces and requests in flight have their types: what a      *)
(* request that was verified presents is a token that was signed             *)
(* (capability.go).                                                          *)
THEOREM CapabilityTypeCorrect == CapabilitySpec => []CapabilityTypeOK
  BY CapabilityInvariant, PTL

-----------------------------------------------------------------------------
(* A token is spent once. *)

(* A request that comes to carry no token, or none it did not carry. *)
LEMMA SpendQuiet ==
    ASSUME CapabilityTypeOK, Spendable, UNCHANGED forwards, spent \subseteq spent', expired \subseteq expired',
           NEW r \in Requests, NEW f \in FlightRows, flight' = [flight EXCEPT ![r] = f],
           f.pc # "verified",
           f.pc \in OutPcs => f.token = Nobody \/ (flight[r].pc \in OutPcs /\ f.token = flight[r].token)
    PROVE  Spendable'
<1>1. flight'[r] = f /\ \A q \in Requests : q # r => flight'[q] = flight[q]
  BY FlightSet
<1>2. SUFFICES ASSUME NEW k \in Tokens PROVE SpentOnce(k)'
  BY DEF Spendable
<1>3. SpentOnce(k) /\ k # Nobody
  BY CapabilityAssumption DEF Spendable
<1>4. \A q \in Requests : Carries(q, k)' => Carries(q, k)
  BY <1>1, <1>3 DEF Carries
<1>5. \A q \in Requests : Presents(q, k)' => Presents(q, k)
  BY <1>1 DEF Presents
<1>6. Used(k)' => Used(k)
  BY <1>4 DEF Used
<1> QED BY <1>3, <1>4, <1>5, <1>6 DEF SpentOnce

LEMMA SpendStep ==
    ASSUME ~StallsPastMidnight, CapabilityTypeOK, Spendable, Moves
    PROVE  Spendable'
<1>0. \A q \in Requests : flight[q] \in FlightRows
  BY DEF CapabilityTypeOK
<1>1. CASE CustodyStep \/ UNCHANGED allVars
  <2>1. UNCHANGED <<expired, spent, flight, forwards>>
    BY <1>1 DEF CustodyStep, tokenVars, allVars, capVars
  <2> QED BY <2>1 DEF Spendable, SpentOnce, Used, Carries, Presents
<1>2. CASE Minted
  BY <1>2 DEF Minted, Spendable, SpentOnce, Used, Carries, Presents, history
<1>3. CASE Expires
  BY <1>3 DEF Expires, Spendable, SpentOnce, Used, Carries, Presents, history
<1>4. CASE Pruned
  BY <1>4 DEF Pruned, Spendable, SpentOnce, Used, Carries, Presents, history
<1>5. CASE Verified
  <2>1. PICK r \in Requests, k \in Tokens, h \in Hosts :
          /\ flight[r] = Grounded /\ k \notin expired
          /\ flight' = [flight EXCEPT ![r] = Ready(k, h)]
          /\ UNCHANGED <<expired, spent, forwards>>
    BY <1>5 DEF Verified, tokenVars, history
  <2>2. Ready(k, h) \in FlightRows /\ Ready(k, h).pc = "verified" /\ Ready(k, h).token = k
    BY FlightShapes
  <2>3. flight'[r] = Ready(k, h) /\ \A q \in Requests : q # r => flight'[q] = flight[q]
    BY <2>1, <2>2, FlightSet
  <2>4. SUFFICES ASSUME NEW j \in Tokens PROVE SpentOnce(j)'
    BY DEF Spendable
  <2>5. SpentOnce(j)
    BY DEF Spendable
  <2>6. \A q \in Requests : Carries(q, j)' <=> Carries(q, j)
    BY <2>1, <2>2, <2>3, FlightShapes DEF Carries, OutPcs
  <2>7. Used(j)' <=> Used(j)
    BY <2>1, <2>6 DEF Used
  <2>8. j \in expired => \A q \in Requests : Presents(q, j)' => Presents(q, j)
    BY <2>1, <2>2, <2>3 DEF Presents
  <2> QED BY <2>1, <2>5, <2>6, <2>7, <2>8 DEF SpentOnce
<1>6. CASE Spent
  <2>1. PICK r \in Requests, k \in Tokens, e \in Entries, h \in Hosts :
          /\ Presents(r, k) /\ k \notin spent /\ spent' = spent \cup {k}
          /\ \/ flight' = [flight EXCEPT ![r] = Leaving("pin", k, e, Nobody, h)]
             \/ flight' = [flight EXCEPT ![r] = Grounded]
          /\ UNCHANGED <<expired, forwards>>
    BY <1>6 DEF Spent, history
  <2> DEFINE f == Leaving("pin", k, e, Nobody, h)
  <2>2. /\ f \in FlightRows /\ f.pc = "pin" /\ f.token = k
        /\ Grounded \in FlightRows /\ Grounded.pc = "idle"
    BY FlightShapes DEF OutPcs
  <2> HIDE DEF f
  <2>3. CASE flight' = [flight EXCEPT ![r] = Grounded]
    <3>1. Grounded.pc \notin OutPcs
      BY <2>2 DEF OutPcs
    <3> QED BY <2>1, <2>2, <2>3, <3>1, SpendQuiet
  <2>4. CASE flight' = [flight EXCEPT ![r] = f]
    <3>1. flight'[r] = f /\ \A q \in Requests : q # r => flight'[q] = flight[q]
      BY <2>2, <2>4, FlightSet
    <3>2. SUFFICES ASSUME NEW j \in Tokens PROVE SpentOnce(j)'
      BY DEF Spendable
    <3>3. SpentOnce(j) /\ SpentOnce(k)
      BY DEF Spendable
    <3>4. CASE j # k
      <4>1. \A q \in Requests : (Carries(q, j)' <=> Carries(q, j)) /\ (Presents(q, j)' => Presents(q, j))
        BY <2>1, <2>2, <3>1, <3>4 DEF Carries, Presents, OutPcs
      <4>2. Used(j)' <=> Used(j)
        BY <2>1, <4>1 DEF Used
      <4> QED BY <2>1, <3>3, <4>1, <4>2 DEF SpentOnce
    <3>5. CASE j = k
      <4>1. ~Used(k)
        BY <2>1, <3>3 DEF SpentOnce
      <4>2. forwards[k] = 0 /\ \A q \in Requests : ~Carries(q, k)
        BY <4>1 DEF Used, CapabilityTypeOK
      <4>3. \A q \in Requests : Carries(q, k)' => q = r
        BY <3>1, <4>2 DEF Carries
      <4> QED BY <2>1, <3>5, <4>2, <4>3 DEF SpentOnce
    <3> QED BY <3>4, <3>5
  <2> QED BY <2>1, <2>3, <2>4 DEF f
<1>7. CASE Hop
  <2>1. PICK r \in Requests, f \in FlightRows : Takes(r, f)
    BY <1>7 DEF Hop
  <2>2. /\ flight' = [flight EXCEPT ![r] = f] /\ f.pc # "verified"
        /\ f.pc \in OutPcs => f.token = Nobody \/ (flight[r].pc \in OutPcs /\ f.token = flight[r].token)
        /\ UNCHANGED <<expired, spent, forwards>>
    BY <2>1 DEF Takes, tokenVars, history
  <2> QED BY <2>2, SpendQuiet
<1>8. CASE Sent
  <2>1. PICK r \in Requests :
          /\ flight[r].pc = "send"
          /\ forwards' = [j \in Tokens |-> IF j = flight[r].token THEN forwards[j] + 1 ELSE forwards[j]]
          /\ flight' = [flight EXCEPT ![r] = Grounded]
          /\ UNCHANGED <<expired, spent>>
    BY <1>8 DEF Sent, tokenVars
  <2>2. flight'[r] = Grounded /\ \A q \in Requests : q # r => flight'[q] = flight[q]
    BY <2>1, FlightShapes, FlightSet
  <2>3. SUFFICES ASSUME NEW j \in Tokens PROVE SpentOnce(j)'
    BY DEF Spendable
  <2>4. SpentOnce(j) /\ forwards[j] \in Nat
    BY DEF Spendable, CapabilityTypeOK
  <2>5. \A q \in Requests : /\ Carries(q, j)' => Carries(q, j) /\ q # r
                            /\ Presents(q, j)' => Presents(q, j)
    <3>1. flight'[r].pc = "idle"
      BY <2>2, FlightShapes
    <3>2. ASSUME NEW q \in Requests
          PROVE  /\ Carries(q, j)' => Carries(q, j) /\ q # r
                 /\ Presents(q, j)' => Presents(q, j)
      BY <2>2, <3>1 DEF Carries, Presents, OutPcs
    <3> QED BY <3>2
  <2>6. CASE j # flight[r].token
    <3>1. forwards'[j] = forwards[j]
      BY <2>1, <2>6
    <3>2. Used(j)' => Used(j)
      BY <2>5, <3>1 DEF Used
    <3> QED BY <2>1, <2>4, <2>5, <3>1, <3>2 DEF SpentOnce
  <2>7. CASE j = flight[r].token
    <3>1. Carries(r, j) /\ Used(j)
      BY <2>1, <2>7 DEF Carries, Used, OutPcs
    <3>2. forwards[j] = 0 /\ forwards'[j] = 1
      BY <2>1, <2>4, <2>7, <3>1 DEF SpentOnce
    <3>3. \A q \in Requests : ~Carries(q, j)'
      BY <2>4, <2>5, <3>1 DEF SpentOnce
    <3> QED BY <2>1, <2>4, <2>5, <3>1, <3>2, <3>3 DEF SpentOnce
  <2> QED BY <2>6, <2>7
<1> QED BY <1>1, <1>2, <1>3, <1>4, <1>5, <1>6, <1>7, <1>8 DEF Moves

(* As long as no request that was verified stalls past midnight, a token     *)
(* sends its secret at most once, whichever of the requests that presented   *)
(* it wins and whether or not the secret opened: its nonce stays spent until *)
(* nobody can present it any more (capability.go, spendNonce,                *)
(* PruneSpentNonces).                                                        *)
THEOREM TokensAreSpentOnce ==
    ASSUME ~StallsPastMidnight
    PROVE  CapabilitySpec => []SingleUse
<1>1. CapabilityInit => Spendable
  <2>1. SUFFICES ASSUME CapabilityInit PROVE Spendable
    OBVIOUS
  <2>2. /\ \A r \in Requests : flight[r].pc = "idle"
        /\ \A k \in Tokens : forwards[k] = 0
    BY <2>1 DEF CapabilityInit, Grounded
  <2> QED BY <2>2 DEF Spendable, SpentOnce, Used, Carries, OutPcs
<1>2. (Inv /\ CapabilityTypeOK /\ Signed) /\ Spendable /\ [CapabilityNext]_allVars => Spendable'
  BY StepsAreMoves, SpendStep
<1>3. Spendable => SingleUse
  BY DEF Spendable, SpentOnce, SingleUse
<1> QED BY <1>1, <1>2, <1>3, CapabilityInvariant, PTL DEF CapabilitySpec

-----------------------------------------------------------------------------
(* A secret goes where it was directed. *)

(* Who was an administrator stays one who was. *)
LEMMA ClaimsGrow ==
    ASSUME TypeOK, [Next]_vars
    PROVE  Admins \subseteq Admins'
<1>1. SUFFICES \A u \in Users : claims[u] \subseteq claims'[u]
  BY DEF Admins
<1>2. ASSUME NEW t \in Users, NEW q, UpdateUserRole(t, q) PROVE \A u \in Users : claims[u] \subseteq claims'[u]
  BY <1>2 DEF UpdateUserRole, TypeOK
<1>3. ASSUME NEW t \in Users, EnableUser(t) PROVE \A u \in Users : claims[u] \subseteq claims'[u]
  BY <1>3 DEF EnableUser, TypeOK
<1>4. ASSUME NEW u, NEW isAdmin, NEW f, EntryStep(u, isAdmin, f) PROVE UNCHANGED claims
  <2>1. ASSUME NEW c, NEW svc, NEW h, Create(u, isAdmin, f, c, svc, h) PROVE UNCHANGED claims
    BY <2>1 DEF Create, accountVars
  <2>2. ASSUME NEW c, MoveToCollection(u, isAdmin, f, c) PROVE UNCHANGED claims
    BY <2>2 DEF MoveToCollection, accountVars
  <2>3. ASSUME NEW rename, NEW ceiling, NEW svc, NEW h, Update(u, isAdmin, f, rename, ceiling, svc, h)
        PROVE  UNCHANGED claims
    <3>1. UNCHANGED accountVars
      BY <2>3, Zenon DEF Update
    <3> QED BY <3>1 DEF accountVars
  <2>4. ASSUME NEW want, UpdateTargets(u, isAdmin, f, want) PROVE UNCHANGED claims
    <3>1. UNCHANGED accountVars
      BY <2>4, Zenon DEF UpdateTargets
    <3> QED BY <3>1 DEF accountVars
  <2>5. Delete(u, isAdmin, f) => UNCHANGED claims
    BY DEF Delete, accountVars
  <2> QED BY <1>4, <2>1, <2>2, <2>3, <2>4, <2>5 DEF EntryStep
<1>5. ASSUME NEW u, AdminStep(u) PROVE UNCHANGED claims
  BY <1>5 DEF AdminStep, ClaimSecretOwnership, RestoreSecretOwnership, UpdateConfig, HardDelete, accountVars
<1>6. ASSUME NEW p, PurgeStep(p) PROVE UNCHANGED claims
  BY <1>6 DEF PurgeStep, ListVaultEntryTargets, PurgeTargets, PurgeLost, accountVars
<1>7. ASSUME NEW c, DeleteCollection(c) PROVE UNCHANGED claims
  BY <1>7 DEF DeleteCollection, accountVars
<1>8. ASSUME NEW t \in Movers, TeamStep(t) PROVE \A u \in Users : claims[u] \subseteq claims'[u]
  <2>1. t \in Users
    BY SceneForm DEF TypeOK
  <2>2. CASE DisableUser(t)
    BY <2>2 DEF DisableUser
  <2>3. CASE \E c \in Collections, q \in scene.roles : SetMember(c, t, q)
    BY <2>3 DEF SetMember, accountVars
  <2>4. CASE \E c \in Collections : RemoveMember(c, t)
    BY <2>4 DEF RemoveMember, accountVars
  <2> QED BY <1>2, <1>3, <1>8, <2>1, <2>2, <2>3, <2>4 DEF TeamStep
<1>9. CASE UNCHANGED vars
  BY <1>9 DEF vars
<1> QED BY <1>4, <1>5, <1>6, <1>7, <1>8, <1>9 DEF Next

(* What was chosen stays chosen, and a row that went does not come back. *)
Follows(x, y) == (x = Gone => y = Gone) /\ (x.state = "live" => y = Gone \/ y.state = "live")
Stays == \A e \in Entries : Follows(entry[e], entry'[e])
Grows == \A e \in Entries : Widens(chosen[e], chosen'[e])

LEMMA StaysOne ==
    ASSUME TypeOK, NEW e \in Entries, NEW x, entry' = [entry EXCEPT ![e] = x], Follows(entry[e], x)
    PROVE  Stays
  BY DEF TypeOK, Stays, Follows

LEMMA StaysPut == ASSUME UNCHANGED entry PROVE Stays
  BY DEF Stays, Follows

LEMMA GrowsOne ==
    ASSUME TypeOK, NEW e \in Entries, NEW ch, chosen' = [chosen EXCEPT ![e] = ch], Widens(chosen[e], ch)
    PROVE  Grows
  BY DEF TypeOK, Grows, Widens

LEMMA GrowsNone == ASSUME UNCHANGED chosen PROVE Grows
  BY DEF Grows, Widens

(* A row that is saved stays live, under whatever edit. *)
LEMMA FollowsLive ==
    ASSUME NEW x, NEW y, x.state = "live", y.state = "live"
    PROVE  Follows(x, y)
  BY DEF Follows, Gone

LEMMA GrowsAdds ==
    ASSUME TypeOK, NEW e \in Entries, NEW u, NEW hosts, Adds(u, e, hosts)
    PROVE  Grows
<1>1. chosen[e] \in ChoiceRows
  BY LiveForm
<1> DEFINE ch == [chosen[e] EXCEPT !.hosts = chosen[e].hosts \cup ({u} \X hosts)]
<1>2. chosen' = [chosen EXCEPT ![e] = ch]
  BY DEF Adds
<1>3. Widens(chosen[e], ch)
  BY <1>1 DEF Widens, ChoiceRows
<1> HIDE DEF ch
<1> QED BY <1>2, <1>3, GrowsOne

LEMMA CreateKeeps ==
    ASSUME Inv, NEW u, NEW isAdmin, NEW e \in Entries, NEW c, NEW svc, NEW h,
           Create(u, isAdmin, e, c, svc, h)
    PROVE  Stays /\ Grows
<1>1. entry[e] = Unborn /\ Unborn # Gone /\ Unborn.state = "unborn"
  BY DEF Create, Unborn, Gone
<1>2. chosen[e] = Untouched
  BY <1>1 DEF Inv, Rows, RowOK, Backed
<1>3. ASSUME NEW x PROVE Follows(entry[e], x)
  BY <1>1 DEF Follows
<1>4. ASSUME NEW ch PROVE Widens(chosen[e], ch)
  BY <1>2 DEF Widens
<1>5. Stays
  BY <1>3, StaysOne DEF Create, Inv
<1>6. Grows
  BY <1>4, GrowsOne DEF Create, Inv
<1> QED BY <1>5, <1>6

LEMMA MoveKeeps ==
    ASSUME TypeOK, NEW u, NEW isAdmin, NEW e \in Entries, NEW c, MoveToCollection(u, isAdmin, e, c)
    PROVE  Stays /\ Grows
<1> DEFINE x == Reindexed([entry[e] EXCEPT !.coll = c], entry[e].holder, c)
<1>1. entry[e] \in LiveRows /\ entry[e].state = "live"
  BY ManagedIsLive, LiveForm DEF MoveToCollection, Live
<1>2. entry' = [entry EXCEPT ![e] = x] /\ UNCHANGED chosen
  BY DEF MoveToCollection
<1>3. x.state = "live"
  BY <1>1 DEF Reindexed, LiveRows
<1> HIDE DEF x
<1> QED BY <1>1, <1>2, <1>3, FollowsLive, StaysOne, GrowsNone

LEMMA UpdateKeeps ==
    ASSUME TypeOK, NEW u, NEW isAdmin, NEW e \in Entries, NEW rename, NEW ceiling, NEW svc, NEW h,
           Update(u, isAdmin, e, rename, ceiling, svc, h)
    PROVE  Stays /\ Grows
<1> DEFINE may == mayDirectSecretEgress(u, isAdmin, e)
           row == IF rename THEN Renamed(u, isAdmin, e) ELSE entry[e]
           hosts == declaredProviderEgress(svc, h)
           seeded == IF <<svc, h>> # <<entry[e].provider, entry[e].meta>> /\ may
                     THEN seedCapabilityDefaults(ceiling, hosts) ELSE ceiling
           added == (seeded \ ceilingOf(e)) \cup (hosts \ Declared(e))
           x == [row EXCEPT !.ceiling = seeded, !.provider = svc, !.meta = h]
<1>1. entryAccess(u, isAdmin, e)
  BY Zenon DEF Update
<1>2. entry[e] \in LiveRows /\ entry[e].state = "live"
  BY <1>1, ManagedIsLive, LiveForm DEF Live
<1>3. entry' = [entry EXCEPT ![e] = x] /\ Adds(u, e, added)
  BY Zenon DEF Update
<1>4. /\ DOMAIN row = DOMAIN entry[e] /\ row.state = "live"
      /\ "state" \in DOMAIN row
  BY <1>2 DEF Renamed, AdoptAndRenameVaultEntry, LiveRows
<1> HIDE DEF row, seeded
<1>5. x.state = "live"
  BY <1>4
<1> HIDE DEF x, added
<1> QED BY <1>2, <1>3, <1>5, FollowsLive, StaysOne, GrowsAdds

LEMMA TargetsKeep ==
    ASSUME TypeOK, NEW u, NEW isAdmin, NEW e \in Entries, NEW want, UpdateTargets(u, isAdmin, e, want)
    PROVE  Stays /\ Grows
<1> DEFINE new == Attributed(e, u, want)
           had == rotationTargetIdentity(entry[e].targets)
           has == rotationTargetIdentity(new)
           hosts == {<<u, y[1]>> : y \in has \ had}
           stamps == {<<new[y[1]].by, y[1]>> : y \in has}
           x == [entry[e] EXCEPT !.targets = new]
           ch == [chosen[e] EXCEPT !.hosts = chosen[e].hosts \cup hosts,
                                   !.stamps = chosen[e].stamps \cup stamps]
<1>1. entryAccess(u, isAdmin, e)
  BY Zenon DEF UpdateTargets
<1>2. entry[e] \in LiveRows /\ entry[e].state = "live" /\ chosen[e] \in ChoiceRows
  BY <1>1, ManagedIsLive, LiveForm DEF Live
<1>3. /\ entry' = [entry EXCEPT ![e].targets = new]
      /\ chosen' = [chosen EXCEPT ![e].hosts = @ \cup hosts, ![e].stamps = @ \cup stamps]
  BY Zenon DEF UpdateTargets
<1> HIDE DEF new, hosts, stamps
<1>4. entry' = [entry EXCEPT ![e] = x] /\ chosen' = [chosen EXCEPT ![e] = ch]
  BY <1>3 DEF TypeOK
<1>5. x.state = "live" /\ Widens(chosen[e], ch)
  BY <1>2 DEF LiveRows, ChoiceRows, Widens
<1> HIDE DEF x, ch
<1> QED BY <1>2, <1>4, <1>5, FollowsLive, StaysOne, GrowsOne

LEMMA AdminKeeps ==
    ASSUME Inv, NEW u \in Users, AdminStep(u), Movers \subseteq Users
    PROVE  Stays /\ Grows
<1>0. TypeOK /\ Current
  BY DEF Inv
<1>1. ASSUME NEW e \in Entries, ClaimSecretOwnership(u, e) PROVE Stays /\ Grows
  <2> DEFINE x == Reindexed(disarmRecordedDestinations(TransferSecretOwnership(entry[e], u)), u, entry[e].coll)
             added == Declared(e)' \ Declared(e)
  <2>1. entry[e] \in LiveRows /\ entry[e].state = "live"
    BY <1>0, <1>1, LiveForm DEF ClaimSecretOwnership, ListUnownedEntries,
       ListVaultEntriesWithNoRecordedOwner, expiredOwnerEntries, Live
  <2>2. entry' = [entry EXCEPT ![e] = x] /\ Adds(u, e, added)
    BY <1>1 DEF ClaimSecretOwnership
  <2>3. x.state = "live"
    BY <2>1 DEF Reindexed, disarmRecordedDestinations, TransferSecretOwnership, LiveRows
  <2> HIDE DEF x, added
  <2> QED BY <1>0, <2>1, <2>2, <2>3, FollowsLive, StaysOne, GrowsAdds
<1>2. ASSUME NEW e \in Entries, RestoreSecretOwnership(u, e) PROVE Stays /\ Grows
  <2> DEFINE prev == claim[e].prev
             x == Reindexed(TransferSecretOwnership(entry[e], prev), prev, entry[e].coll)
  <2>1. entry[e] \in LiveRows /\ entry[e].state = "live"
    BY <1>0, <1>2, LiveForm DEF RestoreSecretOwnership, Live
  <2>2. entry' = [entry EXCEPT ![e] = x] /\ UNCHANGED chosen
    BY <1>2 DEF RestoreSecretOwnership
  <2>3. x.state = "live"
    BY <2>1 DEF Reindexed, TransferSecretOwnership, LiveRows
  <2> HIDE DEF x
  <2> QED BY <1>0, <2>1, <2>2, <2>3, FollowsLive, StaysOne, GrowsNone
<1>3. ASSUME NEW p \in Providers, NEW e \in Entries \cup {Nobody}, UpdateConfig(u, p, e)
      PROVE  Stays /\ Grows
  <2>1. UNCHANGED entry /\ (UNCHANGED chosen \/ (e \in Entries /\ Adds(u, e, {ApiHost[p]})))
    BY <1>3 DEF UpdateConfig
  <2> QED BY <1>0, <2>1, StaysPut, GrowsNone, GrowsAdds
<1>4. ASSUME NEW t \in Users, HardDelete(u, t) PROVE Stays /\ Grows
  <2>1. u \in Admins
    BY <1>0, <1>4, ActingAdmin DEF HardDelete
  <2>2. ASSUME NEW e \in Entries
        PROVE  Follows(entry[e], entry'[e]) /\ Widens(chosen[e], chosen'[e])
    <3>1. /\ entry'[e] = hardDeleteCleanup(entry[e], t, u)
          /\ chosen'[e] = IF Unanswered(e, t) THEN Inherited(e) ELSE chosen[e]
      BY <1>4 DEF HardDelete
    <3>2. Widens(chosen[e], chosen'[e])
      BY <2>1, <3>1, CleanedRow
    <3>3. CASE ~Live(e)
      BY <3>1, <3>2, <3>3 DEF hardDeleteCleanup, Live, Follows
    <3>4. CASE Live(e)
      <4>1. entry[e] \in LiveRows /\ entry[e].state = "live"
        BY <1>0, <3>4, LiveForm DEF Live
      <4>2. entry'[e] = Gone \/ entry'[e].state = "live"
        BY <3>1, <4>1 DEF hardDeleteCleanup, TransferSecretOwnership, LiveRows
      <4>3. entry[e] # Gone
        BY <4>1 DEF Gone
      <4> QED BY <3>2, <4>2, <4>3 DEF Follows
    <3> QED BY <3>3, <3>4
  <2> QED BY <2>2 DEF Stays, Grows
<1> QED BY <1>1, <1>2, <1>3, <1>4 DEF AdminStep

LEMMA NextKeeps ==
    ASSUME Inv, [Next]_vars
    PROVE  Stays /\ Grows
<1>0. TypeOK /\ Movers \subseteq Users /\ scene.rows \subseteq Entries
  BY SceneForm DEF Inv, TypeOK
<1>1. ASSUME NEW u, NEW isAdmin, NEW f \in Entries, EntryStep(u, isAdmin, f) PROVE Stays /\ Grows
  <2>1. ASSUME Delete(u, isAdmin, f) PROVE Stays /\ Grows
    <3>1. Live(f) /\ entry' = [entry EXCEPT ![f] = Gone] /\ UNCHANGED chosen
      BY <2>1, ManagedIsLive DEF Delete
    <3>2. Follows(entry[f], Gone)
      BY DEF Follows
    <3> QED BY <1>0, <3>1, <3>2, StaysOne, GrowsNone
  <2> QED BY <1>0, <1>1, <2>1, CreateKeeps, MoveKeeps, UpdateKeeps, TargetsKeep DEF EntryStep
<1>2. ASSUME NEW p, PurgeStep(p) PROVE Stays /\ Grows
  <2>1. ASSUME NEW e \in Entries, PurgeTargets(p, e) PROVE Stays /\ Grows
    <3> DEFINE x == [entry[e] EXCEPT !.targets = Kept(purge[p].seen[e], purge[p].user)]
    <3>1. UNCHANGED chosen /\ (UNCHANGED entry \/ (Live(e) /\ entry' = [entry EXCEPT ![e] = x]))
      BY <1>0, <2>1 DEF PurgeTargets, TypeOK
    <3>2. Live(e) => entry[e].state = "live" /\ x.state = "live"
      BY <1>0, LiveForm DEF Live, LiveRows
    <3> HIDE DEF x
    <3> QED BY <1>0, <3>1, <3>2, FollowsLive, StaysOne, StaysPut, GrowsNone
  <2>2. ASSUME ListVaultEntryTargets(p) \/ PurgeLost(p) PROVE Stays /\ Grows
    BY <2>2, StaysPut, GrowsNone DEF ListVaultEntryTargets, PurgeLost
  <2> QED BY <1>2, <2>1, <2>2 DEF PurgeStep
<1>3. ASSUME NEW c, DeleteCollection(c) PROVE Stays /\ Grows
  <2>1. \A e \in Entries : entry'[e] = Gone \/ entry'[e] = entry[e]
    BY <1>3 DEF DeleteCollection
  <2>2. UNCHANGED chosen
    BY <1>3 DEF DeleteCollection
  <2> QED BY <2>1, <2>2, GrowsNone DEF Stays, Follows
<1>4. ASSUME NEW t, TeamStep(t) PROVE Stays /\ Grows
  <2>1. UNCHANGED <<entry, chosen>>
    BY <1>4 DEF TeamStep, UpdateUserRole, DisableUser, EnableUser, SetMember, RemoveMember
  <2> QED BY <2>1, StaysPut, GrowsNone
<1>5. CASE UNCHANGED vars
  BY <1>5, StaysPut, GrowsNone DEF vars
<1> QED BY <1>0, <1>1, <1>2, <1>3, <1>4, <1>5, AdminKeeps DEF Next

LEMMA LedGrows ==
    ASSUME Admins \subseteq Admins', Grows, \A e \in Entries : late[e] \subseteq late'[e],
           NEW e \in Entries
    PROVE  Led(e) \subseteq Led(e)'
<1>1. /\ Dir(chosen[e], Admins) \subseteq Dir(chosen'[e], Admins')
      /\ \A f \in Entries : chosen[f].stamps \subseteq chosen'[f].stamps
  BY Growth DEF Grows
<1>2. Entitled(e) \subseteq Entitled(e)'
  <2>1. SUFFICES ASSUME NEW u \in Users, u = chosen[e].by \/ u \in Admins
                 PROVE  u = chosen'[e].by \/ u \in Admins'
    BY DEF Entitled, Admins
  <2>2. chosen'[e].by = chosen[e].by \/ chosen[e] = Untouched
    BY DEF Grows, Widens
  <2>3. chosen[e] = Untouched => u # chosen[e].by
    BY CustodyAssumption DEF Untouched
  <2> QED BY <2>1, <2>2, <2>3
<1>3. SUFFICES ASSUME NEW h \in Led(e) PROVE h \in Led(e)'
  OBVIOUS
<1>4. h \in Hosts
  BY DEF Led
<1>5. CASE h \in Dir(chosen[e], Admins)
  <2>1. h \in Dir(chosen'[e], Admins')
    BY <1>1, <1>5
  <2> QED BY <1>4, <2>1 DEF Led, Dir, Ent
<1>6. CASE Stamped(e, h)
  <2>1. Stamped(e, h)'
    BY <1>1, <1>2, <1>6 DEF Stamped
  <2> QED BY <1>4, <2>1 DEF Led
<1>7. CASE h \in late[e]
  BY <1>4, <1>7 DEF Led
<1> QED BY <1>5, <1>6, <1>7 DEF Led

(* What an exit found recorded on a row that nobody owned is overtaken when  *)
(* somebody comes to own it.                                                 *)
LEMMA PendingStays ==
    ASSUME Inv, CapabilityTypeOK, CustodyStep, NEW r \in Requests,
           flight[r].pc = "owner", flight[r].recorded, Pending(flight[r].entry, flight[r].host),
           Led(flight[r].entry) \subseteq Led(flight[r].entry)', Stays
    PROVE  Pending(flight[r].entry, flight[r].host)'
<1> DEFINE e == flight[r].entry
           h == flight[r].host
<1>1. flight[r] \in OutRows /\ flight'= flight
  BY FlightForm DEF CapabilityTypeOK, OutPcs, CustodyStep
<1>2. e \in Entries /\ h \in Hosts
  BY <1>1 DEF OutRows
<1>3. CASE h \in Led(e)
  <2>1. h \in Led(e)'
    BY <1>3
  <2> QED BY <1>1, <2>1 DEF Pending
<1>4. CASE entry[e] = Gone
  <2>1. entry'[e] = Gone
    BY <1>2, <1>4 DEF Stays, Follows
  <2> QED BY <1>1, <2>1 DEF Pending
<1>5. CASE Live(e) /\ entry[e].owner = Nobody
  <2>1. entry'[e] = Gone \/ entry'[e].state = "live"
    BY <1>2, <1>5 DEF Stays, Follows, Live
  <2>2. CASE entry'[e] = Gone
    BY <1>1, <2>2 DEF Pending
  <2>3. CASE entry'[e].state = "live" /\ entry'[e].owner = Nobody
    BY <1>1, <2>3 DEF Pending, Live
  <2>4. CASE entry'[e].state = "live" /\ entry'[e].owner # Nobody
    <3>1. r \in Overtaken(e)
      BY <1>1, <1>5, <2>4 DEF Overtaken, Live
    <3>2. late' = [d \in Entries |-> late[d] \cup {flight[q].host : q \in Overtaken(d)}]
      BY DEF CustodyStep
    <3>3. h \in late'[e]
      BY <1>2, <3>1, <3>2
    <3> QED BY <1>1, <1>2, <3>3 DEF Pending, Led
  <2> QED BY <2>1, <2>2, <2>3, <2>4
<1> QED BY <1>3, <1>4, <1>5 DEF Pending

LEMMA CustodyBound ==
    ASSUME Inv, CapabilityTypeOK, Bound, CustodyStep
    PROVE  Bound'
<1>1. [Next]_vars /\ flight' = flight /\ sent' = sent
  BY DEF CustodyStep
<1>2. Admins \subseteq Admins' /\ Stays /\ Grows
  BY <1>1, ClaimsGrow, NextKeeps DEF Inv
<1>3. \A e \in Entries : late[e] \subseteq late'[e]
  BY DEF CustodyStep
<1>4. \A e \in Entries : Led(e) \subseteq Led(e)'
  BY <1>2, <1>3, LedGrows
<1>5. ASSUME NEW r \in Requests PROVE Cleared(flight[r])'
  <2> DEFINE f == flight[r]
  <2>1. Cleared(f) /\ f \in FlightRows
    BY DEF Bound, CapabilityTypeOK
  <2>2. f.pc \in OutPcs => f.entry \in Entries /\ f.also \in Entries \cup {Nobody}
    BY <2>1, FlightForm DEF OutRows
  <2>3. f.pc \in {"deliver", "push"} => f.entry \in Entries /\ f.also \in Entries \cup {Nobody}
    BY <2>1, FlightForm DEF HandRows
  <2>4. f.pc = "owner" /\ f.recorded => Pending(f.entry, f.host)'
    <3>1. ASSUME f.pc = "owner", f.recorded PROVE Pending(f.entry, f.host)'
      <4>1. Pending(f.entry, f.host)
        BY <2>1, <3>1 DEF Cleared
      <4>2. f.entry \in Entries
        BY <2>2, <3>1 DEF OutPcs
      <4>3. Led(f.entry) \subseteq Led(f.entry)'
        BY <1>1, <1>4, <4>2 DEF Led, Stamped, Dir, Ent, Entitled, Admins
      <4> QED BY <1>2, <3>1, <4>1, <4>3, PendingStays
    <3> QED BY <3>1
  <2>5. /\ f.pc \in {"owner", "targets"} /\ f.counts => f.host \in Led(f.entry)'
        /\ f.pc = "send" => f.host \in Led(f.entry)'
        /\ f.pc \in {"send", "push"} /\ f.also \in Entries => f.host \in Led(f.also)'
    <3>1. ASSUME NEW e \in Entries, f.host \in Led(e), NEW g, g' = g, g = e PROVE f.host \in Led(g)'
      BY <1>1, <1>4, <3>1
    <3> QED BY <1>1, <1>4, <2>1, <2>2, <2>3, <3>1 DEF Cleared, OutPcs
  <2>6. f.pc \in {"deliver", "push"} /\ f.by # Nobody => <<f.by, f.host>> \in chosen'[f.entry].stamps
    <3>1. \A e \in Entries : chosen[e].stamps \subseteq chosen'[e].stamps
      BY <1>2, Growth DEF Grows
    <3> QED BY <2>1, <2>3, <3>1 DEF Cleared
  <2>7. f.pc \in OutPcs \ {"send"} => f.also = Nobody
    BY <2>1 DEF Cleared
  <2> QED BY <1>1, <2>4, <2>5, <2>6, <2>7 DEF Cleared
<1>6. ASSUME NEW e \in Entries PROVE sent'[e] \subseteq Led(e)'
  BY <1>1, <1>4 DEF Bound
<1> QED BY <1>5, <1>6 DEF Bound

(* A step of Capability that leaves the rows and what was learned late. *)
LEMMA ClearedStays ==
    ASSUME UNCHANGED <<vars, late>>
    PROVE  /\ \A e : Led(e)' = Led(e)
           /\ \A f \in FlightRows : Cleared(f)' <=> Cleared(f)
<1>1. UNCHANGED <<status, role, member, entry, chosen, claims, late>>
  BY DEF vars
<1>2. Admins' = Admins
  BY <1>1 DEF Admins
<1>3. ASSUME NEW e PROVE Led(e)' = Led(e)
  BY <1>1, <1>2 DEF Led, Stamped, Entitled
<1>4. ASSUME NEW e, NEW h PROVE Pending(e, h)' <=> Pending(e, h)
  BY <1>1, <1>3 DEF Pending, Live
<1>5. ASSUME NEW f \in FlightRows PROVE Cleared(f)' <=> Cleared(f)
  BY <1>1, <1>3, <1>4 DEF Cleared
<1> QED BY <1>3, <1>5

(* One that moves one request. *)
LEMMA BoundSet ==
    ASSUME CapabilityTypeOK, Bound, UNCHANGED <<vars, late>>,
           NEW r \in Requests, NEW f \in FlightRows, flight' = [flight EXCEPT ![r] = f],
           Cleared(f), \A e \in Entries : sent'[e] \subseteq Led(e)
    PROVE  Bound'
<1>1. flight'[r] = f /\ \A q \in Requests : q # r => flight'[q] = flight[q]
  BY FlightSet
<1>2. \A q \in Requests : flight'[q] \in FlightRows /\ Cleared(flight'[q])
  BY <1>1 DEF Bound, CapabilityTypeOK
<1>3. ASSUME NEW q \in Requests PROVE Cleared(flight[q])'
  <2>1. \A g \in FlightRows : Cleared(g)' <=> Cleared(g)
    BY ClearedStays
  <2>2. PICK g \in FlightRows : g = flight'[q]
    BY <1>2
  <2>3. Cleared(g)
    BY <1>2, <2>2
  <2>4. Cleared(g)'
    BY <2>1, <2>3
  <2> QED BY <2>2, <2>4 DEF Cleared
<1>4. \A e \in Entries : sent'[e] \subseteq Led(e)'
  BY ClearedStays
<1> QED BY <1>3, <1>4 DEF Bound

LEMMA BoundStep ==
    ASSUME Inv, CapabilityTypeOK, Bound, Moves
    PROVE  Bound'
<1>0. /\ \A q \in Requests : flight[q] \in FlightRows /\ Cleared(flight[q])
      /\ \A e \in Entries : sent[e] \subseteq Led(e)
  BY DEF CapabilityTypeOK, Bound
<1>1. CASE CustodyStep
  BY <1>1, CustodyBound
<1>2. CASE UNCHANGED allVars \/ Minted \/ Expires \/ Pruned
  <2>1. UNCHANGED <<vars, flight, sent, late>>
    BY <1>2 DEF allVars, capVars, Minted, Expires, Pruned, history
  <2>2. /\ \A e : Led(e)' = Led(e)
        /\ \A f \in FlightRows : Cleared(f)' <=> Cleared(f)
    BY <2>1, ClearedStays
  <2>3. ASSUME NEW q \in Requests PROVE Cleared(flight[q])'
    <3>1. PICK g \in FlightRows : g = flight[q]
      BY <1>0
    <3>2. Cleared(g)'
      BY <1>0, <2>2, <3>1
    <3> QED BY <2>1, <3>1, <3>2 DEF Cleared
  <2>4. \A e \in Entries : sent'[e] \subseteq Led(e)'
    BY <1>0, <2>1, <2>2
  <2> QED BY <2>3, <2>4 DEF Bound
<1>3. CASE Verified
  <2>1. PICK r \in Requests, k \in Tokens, h \in Hosts :
          flight' = [flight EXCEPT ![r] = Ready(k, h)] /\ UNCHANGED <<vars, sent, late>>
    BY <1>3 DEF Verified, history
  <2> DEFINE f == Ready(k, h)
  <2>2. f \in FlightRows /\ f.pc = "verified"
    BY FlightShapes
  <2> HIDE DEF f
  <2>3. Cleared(f)
    BY <2>2 DEF Cleared, OutPcs
  <2>4. flight' = [flight EXCEPT ![r] = f]
    BY <2>1 DEF f
  <2> QED BY <1>0, <2>1, <2>2, <2>3, <2>4, BoundSet
<1>4. Grounded \in FlightRows /\ Cleared(Grounded)
  BY FlightShapes DEF Cleared, OutPcs
<1>5. CASE Spent
  <2>1. PICK r \in Requests, k \in Tokens, e \in Entries, h \in Hosts :
          /\ \/ flight' = [flight EXCEPT ![r] = Leaving("pin", k, e, Nobody, h)]
             \/ flight' = [flight EXCEPT ![r] = Grounded]
          /\ UNCHANGED <<vars, sent, late>>
    BY <1>5 DEF Spent, history
  <2> DEFINE f == Leaving("pin", k, e, Nobody, h)
  <2>2. f \in FlightRows /\ f.pc = "pin" /\ f.also = Nobody
    BY FlightShapes DEF OutPcs
  <2> HIDE DEF f
  <2>3. Cleared(f)
    BY <2>2 DEF Cleared
  <2>4. CASE flight' = [flight EXCEPT ![r] = f]
    BY <1>0, <2>1, <2>2, <2>3, <2>4, BoundSet
  <2>5. CASE flight' = [flight EXCEPT ![r] = Grounded]
    BY <1>0, <1>4, <2>1, <2>5, BoundSet
  <2> QED BY <2>1, <2>4, <2>5 DEF f
<1>6. CASE Hop
  <2>1. PICK r \in Requests, f \in FlightRows : Takes(r, f)
    BY <1>6 DEF Hop
  <2>2. /\ flight' = [flight EXCEPT ![r] = f] /\ UNCHANGED <<vars, sent, late>>
        /\ Cleared(flight[r]) => Cleared(f)
    BY <2>1 DEF Takes, history
  <2> QED BY <1>0, <2>2, BoundSet
<1>7. CASE Sent
  <2>1. PICK r \in Requests :
          /\ flight[r].pc = "send"
          /\ sent' = [e \in Entries |-> IF e = flight[r].entry \/ e = flight[r].also
                                        THEN sent[e] \cup {flight[r].host} ELSE sent[e]]
          /\ flight' = [flight EXCEPT ![r] = Grounded]
          /\ UNCHANGED <<vars, late>>
    BY <1>7 DEF Sent
  <2>2. /\ flight[r].host \in Led(flight[r].entry)
        /\ flight[r].also \in Entries => flight[r].host \in Led(flight[r].also)
    BY <1>0, <2>1 DEF Cleared
  <2>3. \A e \in Entries : sent'[e] \subseteq Led(e)
    BY <1>0, <2>1, <2>2
  <2> QED BY <1>4, <2>1, <2>3, BoundSet
<1> QED BY <1>1, <1>2, <1>3, <1>5, <1>6, <1>7 DEF Moves

(* By whatever way it leaves and however late, a secret goes only to a host  *)
(* that its depositor or an administrator recorded on it, or as the          *)
(* configurer of a target, on it or on another entry that spends it, or one  *)
(* that an exit had read before a claim overtook it                          *)
(* (secret_exit_authority.go).                                               *)
THEOREM SecretsGoWhereDirected == CapabilitySpec => []SentOnlyWhereDirected
<1>1. CapabilityInit => Bound
  <2>1. SUFFICES ASSUME CapabilityInit PROVE Bound
    OBVIOUS
  <2>2. /\ \A r \in Requests : flight[r].pc = "idle"
        /\ \A e \in Entries : sent[e] = {}
    BY <2>1 DEF CapabilityInit, Grounded
  <2> QED BY <2>2 DEF Bound, Cleared, OutPcs
<1>2. (Inv /\ CapabilityTypeOK /\ Signed) /\ Bound /\ [CapabilityNext]_allVars => Bound'
  BY StepsAreMoves, BoundStep
<1>3. Inv /\ Bound => SentOnlyWhereDirected
  <2>1. SUFFICES ASSUME Inv, Bound, NEW e \in Entries, NEW h \in sent[e]
                 PROVE  h \in Directed(e) \/ Stamped(e, h) \/ h \in late[e]
    BY DEF SentOnlyWhereDirected, Stamped
  <2>2. h \in Led(e)
    BY <2>1 DEF Bound
  <2>3. chosen[e] \in ChoiceRows
    BY <2>1, LiveForm DEF Inv
  <2>4. Ent(chosen[e], Admins) \subseteq Entitled(e) \cup {Nobody}
    BY <2>3 DEF Ent, Entitled, Admins, ChoiceRows
  <2>5. Dir(chosen[e], Admins) \subseteq Directed(e)
    BY <2>4 DEF Dir, Directed
  <2> QED BY <2>2, <2>5 DEF Led
<1> QED BY <1>1, <1>2, <1>3, CapabilityInvariant, PTL DEF CapabilitySpec
=============================================================================
