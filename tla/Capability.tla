----------------------------- MODULE Capability -----------------------------
(* The ways a vault secret leaves the server: a capability token spent at    *)
(* the proxy, a provider call of the rotation engine, the delivery of a      *)
(* rotated key to a target, and the AI gateway.  Custody decides where each  *)
(* may go; here the answer is asked for in one step and used in a later one. *)
(*                                                                           *)
(* A token is checked three times: its signature and expiry when the request *)
(* arrives, everything the database says in the one transaction that spends  *)
(* its nonce, and the owner's authority when the plaintext is released.      *)
(* That last answer is put together from reads that are not of one           *)
(* transaction, and each of them is a step.                                  *)
EXTENDS Custody

CONSTANTS
    Tokens,              \* nonces of the tokens minted
    Requests,            \* requests in flight at once
    StallsPastMidnight,  \* may a request that was verified stall until its
                         \* token's spent row was pruned, on a later day?
    Unreadable           \* may a stored secret fail to open?

ASSUME CapabilityAssumption ==
    /\ StallsPastMidnight \in BOOLEAN /\ Unreadable \in BOOLEAN
    /\ Nobody \notin Tokens

VARIABLES
    token,     \* of a nonce: unminted, or issuer, entry and destinations
    expired,   \* the tokens past their expiry
    spent,     \* capability_spent_nonces
    flight,    \* the requests that are about to send a secret
    forwards,  \* history: how often a token's secret was sent
    sent,      \* history: the hosts an entry's secret was sent to
    late       \* history: the hosts an exit had read on an entry that nobody
               \* owned when somebody came to own it

tokenVars == <<token, expired, spent>>
history == <<forwards, sent, late>>
capVars == <<token, expired, spent, flight, forwards, sent, late>>
allVars == <<vars, capVars>>

Unminted == [state |-> "unminted"]
TokenRows == {Unminted} \cup
    [state : {"minted"}, issuer : Users, entry : Entries, dests : SUBSET Hosts]
Grounded == [pc |-> "idle"]
FlightRows == {Grounded}
    \cup [pc : {"verified"}, token : Tokens, host : Hosts]
    \cup [pc : {"pin", "row", "owner", "targets", "send"}, token : Tokens \cup {Nobody},
          entry : Entries, also : Entries \cup {Nobody}, host : Hosts,
          recorded : BOOLEAN, counts : BOOLEAN]
    \cup [pc : {"deliver", "push"}, entry : Entries, host : Hosts, by : Users \cup {Nobody},
          kind : Kinds, also : Entries \cup {Nobody}]

(* Every variable holds a value of the row or of the request it models. *)
CapabilityTypeOK ==
    /\ token \in [Tokens -> TokenRows]
    /\ expired \subseteq Tokens /\ spent \subseteq Tokens
    /\ flight \in [Requests -> FlightRows]
    /\ forwards \in [Tokens -> Nat]
    /\ sent \in [Entries -> SUBSET Hosts]
    /\ late \in [Entries -> SUBSET Hosts]

CapabilityInit ==
    /\ Init
    /\ token = [k \in Tokens |-> Unminted]
    /\ expired = {} /\ spent = {}
    /\ flight = [r \in Requests |-> Grounded]
    /\ forwards = [k \in Tokens |-> 0]
    /\ sent = [e \in Entries |-> {}]
    /\ late = [e \in Entries |-> {}]

-----------------------------------------------------------------------------
(* Minting. *)

Accepted(c, u) == c # Personal /\ GetCollectionMemberRole(c, u) # "none"

(* accessibleEntriesPredicate, the SQL of the lookups and of agentCanUse:    *)
(* the capability_grants table has no writer, so it never decides.           *)
accessibleEntries(u) ==
    {e \in Entries : /\ Live(e) /\ AccountLive(u)
                     /\ \/ entry[e].coll = Personal /\ entry[e].holder = u
                        \/ Accepted(entry[e].coll, u)}
agentCanUse(u, e) == e \in accessibleEntries(u)

(* lookupSecretByDestination: more than one match is refused. *)
lookupSecretByDestination(u, h) == {e \in accessibleEntries(u) : h \in ceilingOf(e)}
Lookup(u, e, h) == e \in accessibleEntries(u)
                   \/ lookupSecretByDestination(u, h) = {e}

(* What is asked for is cut to the ceiling; nothing asked for is all of it. *)
Narrowed(e, want) == IF want = {} THEN ceilingOf(e) ELSE want \cap ceilingOf(e)

Sign(u, e, dests) == [state |-> "minted", issuer |-> u, entry |-> e, dests |-> dests]

Issue(u, e, k, want) ==
    LET dests == Narrowed(e, want)
    IN  /\ \E h \in Hosts : Lookup(u, e, h)
        /\ agentCanUse(u, e)
        /\ dests # {}
        /\ ~OutsidePin(e, dests)
        /\ token[k] = Unminted
        /\ token' = [token EXCEPT ![k] = Sign(u, e, dests)]
        /\ UNCHANGED <<vars, expired, spent, flight, history>>

(* exp passes. *)
Expire(k) ==
    /\ token[k] # Unminted /\ k \notin expired
    /\ expired' = expired \cup {k}
    /\ UNCHANGED <<vars, token, spent, flight, history>>

(* The rows of tokens that expired on an earlier day go: both dates are      *)
(* compared as text, and of one day 'T' sorts after the blank.               *)
PruneSpentNonces ==
    /\ \E k \in spent \cap expired :
         /\ StallsPastMidnight \/ \A r \in Requests :
               flight[r].pc = "verified" => flight[r].token # k
         /\ spent' = spent \ {k}
    /\ UNCHANGED <<vars, token, expired, flight, history>>

-----------------------------------------------------------------------------
(* Spending. *)

Set(r, f) == flight' = [flight EXCEPT ![r] = f]

(* A secret on its way out to h, and another that goes along with it. *)
Leaving(pc, k, e, also, h) ==
    [pc |-> pc, token |-> k, entry |-> e, also |-> also, host |-> h,
     recorded |-> FALSE, counts |-> FALSE]

(* Signature and expiry, before anything is read. *)
Verify(r, k, h) ==
    /\ flight[r] = Grounded
    /\ token[k] # Unminted /\ k \notin expired
    /\ Set(r, [pc |-> "verified", token |-> k, host |-> h])
    /\ UNCHANGED <<vars, tokenVars, history>>

(* Mutant: whoever holds the row may use it, in a collection or not. *)
HolderMayUse(u, e) ==
    /\ Live(e) /\ AccountLive(u)
    /\ entry[e].holder = u \/ Accepted(entry[e].coll, u)
capabilityIssuerCanStillUse(u, e) ==
    /\ Live(e) /\ AccountLive(u)
    /\ \/ entry[e].coll = Personal /\ entry[e].holder = u
       \/ Accepted(entry[e].coll, u)

(* Mutant: the nonce is looked up and written after the secret was sent. *)
NeverCollides(k) == TRUE
spendNonce(k) == k \notin spent

(* The transaction of the proxy.  A secret that does not open is refused,    *)
(* but its nonce stays spent.                                                *)
ProxySnapshot(r) ==
    /\ flight[r].pc = "verified"
    /\ LET k == flight[r].token
           h == flight[r].host
           e == token[k].entry
           u == token[k].issuer
       IN  /\ capabilityIssuerCanStillUse(u, e)
           /\ agentCanUse(u, e)
           /\ h \in token[k].dests
           /\ h \in ceilingOf(e)
           /\ ~OutsidePin(e, {h})
           /\ spendNonce(k)
           /\ spent' = spent \cup {k}
           /\ \/ Set(r, Leaving("pin", k, e, Nobody, h))
              \/ Unreadable /\ Set(r, Grounded)
    /\ UNCHANGED <<vars, token, expired, history>>

(* AuthorizeSecretExit, for a destination the entry itself records.  First   *)
(* whether it is a provider's key: then only that provider's host is.        *)
ReadPin(r) ==
    /\ flight[r].pc = "pin"
    /\ LET pin == providerPinFor(flight[r].entry)
       IN  IF pin = {} THEN Set(r, [flight[r] EXCEPT !.pc = "row"])
           ELSE flight[r].host \in pin /\ Set(r, [flight[r] EXCEPT !.pc = "send"])
    /\ UNCHANGED <<vars, tokenVars, history>>

(* Then what is recorded on its row, and what of that needs no owner. *)
ReadRow(r) ==
    /\ flight[r].pc = "row"
    /\ LET x == entry[flight[r].entry]
           h == flight[r].host
       IN  /\ Live(flight[r].entry)
           /\ Set(r, [flight[r] EXCEPT !.pc = "owner",
                  !.recorded = h \in x.ceiling \cup declaredProviderEgress(x.provider, x.meta),
                  !.counts = h \in metaIndependentProviderEgress(x.provider, x.meta)])
    /\ UNCHANGED <<vars, tokenVars, history>>

(* Mutant: what is recorded counts, whether or not its owner may direct it. *)
RecordCounts(f) == f.counts \/ f.recorded
OwnerCounts(f) == f.counts \/ (f.recorded /\ recordedOwnerMayDirect(f.entry))

(* Then who owns it, and whether he may still direct it. *)
ReadOwner(r) ==
    /\ flight[r].pc = "owner"
    /\ Live(flight[r].entry)
    /\ Set(r, [flight[r] EXCEPT !.pc = "targets", !.recorded = FALSE,
                                !.counts = OwnerCounts(flight[r])])
    /\ UNCHANGED <<vars, tokenVars, history>>

(* Then its targets: a list that cannot be read adds nothing. *)
ReadTargets(r) ==
    /\ flight[r].pc = "targets"
    /\ LET e == flight[r].entry
       IN  flight[r].counts \/ (Live(e) /\ flight[r].host \in targetHosts(e))
    /\ Set(r, [flight[r] EXCEPT !.pc = "send", !.counts = FALSE])
    /\ UNCHANGED <<vars, tokenVars, history>>

(* The request leaves for the host it was released for: CheckHost compares   *)
(* the two, redirects included.                                              *)
Send(r) ==
    /\ flight[r].pc = "send"
    /\ LET k == flight[r].token
           out == {flight[r].entry, flight[r].also}
       IN  /\ forwards' = [j \in Tokens |-> IF j = k THEN forwards[j] + 1 ELSE forwards[j]]
           /\ sent' = [e \in Entries |-> IF e \in out THEN sent[e] \cup {flight[r].host} ELSE sent[e]]
    /\ Set(r, Grounded)
    /\ UNCHANGED <<vars, tokenVars, late>>

(* A refusal, an error, a client that hangs up, a server that stops. *)
Drop(r) ==
    /\ flight[r] # Grounded
    /\ Set(r, Grounded)
    /\ UNCHANGED <<vars, tokenVars, history>>

-----------------------------------------------------------------------------
(* The other ways out. *)

(* spendProviderSecret: a call of the rotation engine to its provider, whose *)
(* host it took from the row.                                                *)
providerDo(r, e) ==
    /\ flight[r] = Grounded
    /\ Live(e)
    /\ ~OutsidePin(e, Declared(e))
    /\ \E h \in Declared(e) : Set(r, Leaving("pin", Nobody, e, Nobody, h))
    /\ UNCHANGED <<vars, tokenVars, history>>

(* The targets are read once; each is asked about when its turn comes. *)
DeliverRotatedKey(r, e, h) ==
    LET t == entry[e].targets[h]
    IN  /\ flight[r] = Grounded
        /\ Live(e) /\ providerPinFor(e) = {}
        /\ t # NoTarget
        /\ Set(r, [pc |-> "deliver", entry |-> e, host |-> h, by |-> t.by, kind |-> t.kind,
                   also |-> Nobody])
        /\ UNCHANGED <<vars, tokenVars, history>>

(* Somebody configured it, whose account is there and not disabled. *)
targetStillAuthorized(f) == AccountLive(f.by)

(* A destination a person chose: he is asked about now, by the record, for   *)
(* the entry the secret is of.                                               *)
ChosenByUser(u, e) == mayConfigureDelivery(u, e)

deliverToWebhook(r) ==
    /\ flight[r].pc = "deliver" /\ flight[r].kind = "webhook"
    /\ targetStillAuthorized(flight[r])
    /\ ChosenByUser(flight[r].by, flight[r].entry)
    /\ Set(r, Leaving("send", Nobody, flight[r].entry, Nobody, flight[r].host))
    /\ UNCHANGED <<vars, tokenVars, history>>

(* The bearer of a Forgejo delivery is the secret of another entry, f: what  *)
(* the name resolves to now, among what the configurer may use.  By now it   *)
(* may be any of them.                                                       *)
deliverToForgejoSecret(r, f) ==
    /\ flight[r].pc = "deliver" /\ flight[r].kind = "forgejo_secret"
    /\ targetStillAuthorized(flight[r])
    /\ entryCurrentlyUsableBy(flight[r].by, f)
    /\ ChosenByUser(flight[r].by, f)
    /\ Set(r, [flight[r] EXCEPT !.pc = "push", !.also = f])
    /\ UNCHANGED <<vars, tokenVars, history>>

(* Its second exit, of the rotated value. *)
PushRotated(r) ==
    /\ flight[r].pc = "push"
    /\ ChosenByUser(flight[r].by, flight[r].entry)
    /\ Set(r, Leaving("send", Nobody, flight[r].entry, flight[r].also, flight[r].host))
    /\ UNCHANGED <<vars, tokenVars, history>>

(* The gateway reads the setting and the secret in one transaction and sends *)
(* to its own provider's host.                                               *)
AIGatewayProxy(r, p) ==
    /\ flight[r] = Grounded
    /\ wired[p] \in Entries /\ Live(wired[p])
    /\ Set(r, Leaving("send", Nobody, wired[p], Nobody, ApiHost[p]))
    /\ UNCHANGED <<vars, tokenVars, history>>

-----------------------------------------------------------------------------
(* The bound on the requests in flight leaves room for another. *)
Calling == Cardinality({r \in Requests : flight[r] # Grounded}) < scene.calls

TokenStep ==
    \/ \E u \in Users, e \in Entries, k \in Tokens, want \in SUBSET Hosts : Issue(u, e, k, want)
    \/ \E k \in Tokens : Expire(k)
    \/ PruneSpentNonces
    \/ Calling /\ \E r \in Requests, k \in Tokens, h \in Hosts : Verify(r, k, h)

ExitStep(r) ==
    \/ \E e \in Entries : providerDo(r, e)
    \/ \E e \in Entries, h \in Hosts : Live(e) /\ DeliverRotatedKey(r, e, h)
    \/ \E p \in Providers : AIGatewayProxy(r, p)

FlightStep(r) ==
    \/ ProxySnapshot(r)
    \/ ReadPin(r) \/ ReadRow(r) \/ ReadOwner(r) \/ ReadTargets(r)
    \/ deliverToWebhook(r) \/ PushRotated(r)
    \/ \E f \in Entries : deliverToForgejoSecret(r, f)
    \/ Send(r) \/ Drop(r)

(* The exits that are between the reads of the row and of its owner when an  *)
(* entry without one gets one.                                               *)
Overtaken(e) ==
    {r \in Requests : /\ flight[r].pc = "owner" /\ flight[r].entry = e /\ flight[r].recorded
                      /\ Live(e) /\ entry[e].owner = Nobody
                      /\ Live(e)' /\ entry'[e].owner # Nobody}
CustodyStep ==
    /\ Next
    /\ late' = [e \in Entries |-> late[e] \cup {flight[r].host : r \in Overtaken(e)}]
    /\ UNCHANGED <<tokenVars, flight, forwards, sent>>

CapabilityNext ==
    \/ CustodyStep
    \/ "tokens" \in Doors /\ TokenStep
    \/ "exits" \in Doors /\ Calling /\ \E r \in Requests : ExitStep(r)
    \/ \E r \in Requests : FlightStep(r)

CapabilitySpec == CapabilityInit /\ [][CapabilityNext]_allVars

-----------------------------------------------------------------------------
(* Properties. *)

(* A capability token sends its secret at most once, whichever of two        *)
(* requests that both presented it wins, and whether or not the secret could *)
(* be opened the first time (capability.go, spendNonce).                     *)
SingleUse == \A k \in Tokens : forwards[k] <= 1

(* By whatever way it leaves, and however late the request is sent, a        *)
(* secret goes only to a host that its depositor or an administrator         *)
(* recorded on it, or as the configurer of a target, on it or on another     *)
(* entry that spends it: not to one a row of before owners carried, one that *)
(* an adopter or an editor planted, or one that a token was minted for       *)
(* (secret_exit_authority.go).  On a row of before owners a vendor's own     *)
(* host counts for nobody's choice, the hosts it carried count once deleting *)
(* its holder gives it an owner (see HardDelete), and one that an exit had   *)
(* read may still be used when a claim lands before it reads the owner.      *)
SentOnlyWhereDirected ==
    \A e \in Entries : \A h \in sent[e] :
        \/ h \in Directed(e)
        \/ \E u \in Entitled(e), f \in Entries : <<u, h>> \in chosen[f].stamps
        \/ h \in late[e]

(* The SQL that decides whether a token's issuer may still use the entry     *)
(* never says yes where the grant says no: a holder who left the collection, *)
(* a disabled account (capability.go, capabilityIssuerCanStillUse).          *)
TokenNeverBeatsGrant ==
    \A u \in Users, e \in Entries :
        capabilityIssuerCanStillUse(u, e) => "use" \in grantFor(u, FALSE, e)

=============================================================================
