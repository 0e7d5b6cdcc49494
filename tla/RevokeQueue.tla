--------------------------- MODULE RevokeQueue ---------------------------
(* The pending-revoke queue that a rotation keeps inside an entry's         *)
(* provider_meta column, and the alarm text it keeps in                     *)
(* last_rotation_error, as pure operators                                   *)
(* (internal/handlers/vault_pending_revoke_history.go and the defer/alarm   *)
(* half of vault_providers.go and vault_rotation_core.go).                  *)
(*                                                                          *)
(* A predecessor is represented by its key.  The four head markers          *)
(* (method, url, auth, key id) and a backlog entry all name exactly one     *)
(* key, so comparing keys is comparing ids, or URLs where no id was         *)
(* recorded.  The backlog is server-owned and is only ever written by       *)
(* setStrandedRevokes, so the unparseable backlog is not represented.       *)
EXTENDS Naturals, Sequences

CONSTANTS
    Key,                \* upstream credentials, each with an id of its own
    NoKey,              \* an absent id
    Unnameable,         \* keys whose id revokeTargetIsNameable refuses
    OddId,              \* keys whose id fails conservativeKeyIDPattern
    maxStrandedRevokes  \* bound on the backlog (32 in the code)

ASSUME QueueAssumption ==
    /\ NoKey \notin Key
    /\ Unnameable \subseteq Key
    /\ OddId \subseteq Key
    /\ maxStrandedRevokes \in Nat

OptKey == Key \cup {NoKey}

(* provider_meta: the id of the credential in use, the head marker set and  *)
(* the stranded backlog, oldest first.                                      *)
Meta == [keyID : OptKey, head : OptKey, backlog : Seq(Key)]

NoMeta == [keyID |-> NoKey, head |-> NoKey, backlog |-> << >>]

Backlogged(m) == {m.backlog[i] : i \in DOMAIN m.backlog}

(* Every key the marker set can still lead somebody to. *)
outstandingRevokeKeyIDs(m) == ({m.head} \ {NoKey}) \cup Backlogged(m)

(* May the surviving head be displaced by a defer of k?  The two refusals   *)
(* of pushDisplacedHeadOntoBacklog are its veto.                            *)
HeadMoves(m, k) == m.head \notin {NoKey, k} /\ m.head \notin Backlogged(m)

Vetoed(m, k) == HeadMoves(m, k) /\ Len(m.backlog) >= maxStrandedRevokes

(* Mutant: the new head evicts the old one. *)
pushEvicts(m, k) == m.backlog

pushDisplacedHeadOntoBacklog(m, k) ==
    IF HeadMoves(m, k) THEN Append(m.backlog, m.head) ELSE m.backlog

(* A defer that is refused records nothing and sets last_revoke_error. *)
Refused(m, k) == k \in Unnameable \/ Vetoed(m, k)

deferRevokeOldProviderKey(m, k) ==
    IF Refused(m, k)
      THEN m
      ELSE [m EXCEPT !.head = k, !.backlog = pushDisplacedHeadOntoBacklog(m, k)]

(* Drop the head and promote the oldest stranded key into its place. *)
dischargePendingRevokeHead(m) ==
    IF m.backlog = << >>
      THEN [m EXCEPT !.head = NoKey]
      ELSE [m EXCEPT !.head = Head(m.backlog), !.backlog = Tail(m.backlog)]

----------------------------------------------------------------------------
(* last_rotation_error.  The column is prose joined with "; "; what the     *)
(* code tells apart in it is the structural failure, the revoke clause with *)
(* its key list, and the write-back clause.                                 *)

Reason == {"", "unknown_provider", "destroys_in_place", "decrypt", "provider",
           "encrypt", "persist", "conflict", "undeliverable", "delivery",
           "internal"}

MetaClause == {"", "write_back_failed", "provider_changed"}

RotationError ==
    [fail : Reason, revoke : BOOLEAN, keys : SUBSET Key, meta : MetaClause]

Clean == [fail |-> "", revoke |-> FALSE, keys |-> {}, meta |-> ""]

FailureOf(reason) == [Clean EXCEPT !.fail = reason]

(* Only ids inside the conservative charset reach the column. *)
sanitizeRevokeKeyIDs(ids) == ids \ OddId

foldRevokeOutcome(e, warn, ids) ==
    IF warn
      THEN [e EXCEPT !.revoke = TRUE, !.keys = sanitizeRevokeKeyIDs(ids)]
      ELSE e

(* Mutant: the write-back's error is discarded. *)
foldIgnoresMetaWrite(e, clause) == e

foldMetaWriteOutcome(e, clause) == [e EXCEPT !.meta = clause]

(* Mutant: one settled key settles the whole clause. *)
withoutRevokeClause(e, settled) == [e EXCEPT !.keys = {}, !.revoke = FALSE]

(* Settle some keys: the clause goes once no listed key is left, so a       *)
(* clause that lists nothing goes as a whole.                               *)
withoutRevokeStillLiveKeys(e, settled) ==
    LET left == e.keys \ settled
    IN  [e EXCEPT !.keys = left, !.revoke = e.revoke /\ left # {}]

withoutMetaWriteClauses(e) ==
    [e EXCEPT !.meta = IF @ = "write_back_failed" THEN "" ELSE @]
============================================================================
