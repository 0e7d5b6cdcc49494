--------------------------- MODULE RotationProofs ---------------------------
(* Proofs about Rotation, for any number of rotations, retries and editors  *)
(* in flight, any keys, providers and faults.                               *)
EXTENDS Rotation, TLAPS

----------------------------------------------------------------------------
(* The queue operators, in terms of the keys a map names. *)

(* A map with another key id names the same predecessors. *)
LEMMA KeyIDFacts ==
    ASSUME NEW m \in Meta, NEW k \in OptKey
    PROVE  /\ [m EXCEPT !.keyID = k] \in Meta
           /\ [m EXCEPT !.keyID = k].keyID = k
           /\ outstandingRevokeKeyIDs([m EXCEPT !.keyID = k]) = outstandingRevokeKeyIDs(m)
  BY DEF Meta, outstandingRevokeKeyIDs, Backlogged

(* The empty map names nobody. *)
LEMMA NoMetaFacts ==
    /\ NoMeta \in Meta
    /\ NoMeta.keyID = NoKey
    /\ outstandingRevokeKeyIDs(NoMeta) = {}
  BY DEF Meta, NoMeta, OptKey, outstandingRevokeKeyIDs, Backlogged

(* A map names keys, among them its head. *)
LEMMA NamedKeys ==
    ASSUME NEW m \in Meta
    PROVE  /\ m.keyID \in OptKey
           /\ outstandingRevokeKeyIDs(m) \subseteq Key
           /\ m.head # NoKey => m.head \in outstandingRevokeKeyIDs(m)
  BY QueueAssumption DEF Meta, OptKey, outstandingRevokeKeyIDs, Backlogged

(* deferRevokeOldProviderKey adds the deferred key and nothing else. *)
LEMMA DeferFacts ==
    ASSUME NEW m \in Meta, NEW k \in Key
    PROVE  /\ deferRevokeOldProviderKey(m, k) \in Meta
           /\ deferRevokeOldProviderKey(m, k).keyID = m.keyID
           /\ outstandingRevokeKeyIDs(deferRevokeOldProviderKey(m, k))
                \subseteq outstandingRevokeKeyIDs(m) \cup {k}
<1> DEFINE b == pushDisplacedHeadOntoBacklog(m, k)
           d == [m EXCEPT !.head = k, !.backlog = b]
<1>1. m.head \in OptKey /\ m.backlog \in Seq(Key)
  BY DEF Meta
<1>2. b \in Seq(Key) /\ {b[i] : i \in DOMAIN b} \subseteq outstandingRevokeKeyIDs(m)
  <2>1. CASE HeadMoves(m, k)
    <3>1. m.head \in Key
      BY <1>1, <2>1 DEF HeadMoves, OptKey
    <3>2. b = Append(m.backlog, m.head)
      BY <2>1 DEF pushDisplacedHeadOntoBacklog
    <3>3. /\ b \in Seq(Key)
          /\ DOMAIN b = 1 .. Len(m.backlog) + 1
          /\ \A i \in 1 .. Len(m.backlog) : b[i] = m.backlog[i]
          /\ b[Len(m.backlog) + 1] = m.head
      BY <1>1, <3>1, <3>2
    <3>4. DOMAIN m.backlog = 1 .. Len(m.backlog)
      BY <1>1
    <3>5. ASSUME NEW i \in DOMAIN b
          PROVE  b[i] \in outstandingRevokeKeyIDs(m)
      <4>1. CASE i \in DOMAIN m.backlog
        BY <3>3, <3>4, <4>1 DEF outstandingRevokeKeyIDs, Backlogged
      <4>2. CASE i \notin DOMAIN m.backlog
        <5>1. b[i] = m.head
          BY <1>1, <3>3, <3>4, <4>2
        <5> QED BY <5>1, <3>1, QueueAssumption DEF outstandingRevokeKeyIDs
      <4> QED BY <4>1, <4>2
    <3> QED BY <3>3, <3>5
  <2>2. CASE ~HeadMoves(m, k)
    BY <1>1, <2>2 DEF pushDisplacedHeadOntoBacklog, outstandingRevokeKeyIDs, Backlogged
  <2> QED BY <2>1, <2>2
<1>3. CASE Refused(m, k)
  BY <1>3 DEF deferRevokeOldProviderKey
<1>4. CASE ~Refused(m, k)
  <2>1. deferRevokeOldProviderKey(m, k) = d
    BY <1>4 DEF deferRevokeOldProviderKey
  <2>2. d \in Meta /\ d.keyID = m.keyID /\ d.head = k /\ d.backlog = b
    BY <1>2 DEF Meta, OptKey
  <2> QED BY <1>2, <2>1, <2>2 DEF outstandingRevokeKeyIDs, Backlogged
<1> QED BY <1>3, <1>4

(* dischargePendingRevokeHead names no key that was not named. *)
LEMMA DischargeFacts ==
    ASSUME NEW m \in Meta
    PROVE  /\ dischargePendingRevokeHead(m) \in Meta
           /\ dischargePendingRevokeHead(m).keyID = m.keyID
           /\ outstandingRevokeKeyIDs(dischargePendingRevokeHead(m))
                \subseteq outstandingRevokeKeyIDs(m)
<1>1. m.head \in OptKey /\ m.backlog \in Seq(Key)
  BY DEF Meta
<1>2. CASE m.backlog = << >>
  <2>1. /\ dischargePendingRevokeHead(m) = [m EXCEPT !.head = NoKey]
        /\ [m EXCEPT !.head = NoKey] \in Meta
    BY <1>2 DEF dischargePendingRevokeHead, Meta, OptKey
  <2> QED BY <2>1 DEF outstandingRevokeKeyIDs, Backlogged, Meta
<1>3. CASE m.backlog # << >>
  <2> DEFINE h == Head(m.backlog)
             b == Tail(m.backlog)
             d == [m EXCEPT !.head = h, !.backlog = b]
  <2>1. dischargePendingRevokeHead(m) = d
    BY <1>3 DEF dischargePendingRevokeHead
  <2>2. /\ h \in Key
        /\ b \in Seq(Key)
        /\ h = m.backlog[1]
        /\ 1 \in DOMAIN m.backlog
    BY <1>1, <1>3
  <2>3. \A i \in DOMAIN b : i + 1 \in DOMAIN m.backlog /\ b[i] = m.backlog[i + 1]
    BY <1>1, <1>3
  <2>4. d \in Meta /\ d.keyID = m.keyID /\ d.head = h /\ d.backlog = b
    BY <2>2 DEF Meta, OptKey
  <2>5. {h} \cup {b[i] : i \in DOMAIN b} \subseteq Backlogged(m)
    BY <2>2, <2>3 DEF Backlogged
  <2> QED BY <2>1, <2>4, <2>5 DEF outstandingRevokeKeyIDs, Backlogged
<1> QED BY <1>2, <1>3
----------------------------------------------------------------------------
(* The alarm operators keep the alarm's type. *)
LEMMA AlarmFacts ==
    ASSUME NEW e \in RotationError, NEW ids \in SUBSET Key, NEW clause \in MetaClause,
           NEW warn \in BOOLEAN
    PROVE  /\ foldRevokeOutcome(e, warn, ids) \in RotationError
           /\ foldMetaWriteOutcome(e, clause) \in RotationError
           /\ withoutRevokeStillLiveKeys(e, ids) \in RotationError
           /\ withoutMetaWriteClauses(e) \in RotationError
<1>1. foldRevokeOutcome(e, warn, ids) \in RotationError
  BY DEF RotationError, foldRevokeOutcome, sanitizeRevokeKeyIDs
<1>2. foldMetaWriteOutcome(e, clause) \in RotationError
  BY DEF RotationError, foldMetaWriteOutcome
<1>3. withoutRevokeStillLiveKeys(e, ids) \in RotationError
  <2>1. (e.revoke /\ e.keys \ ids # {}) \in BOOLEAN
    OBVIOUS
  <2> QED BY <2>1 DEF RotationError, withoutRevokeStillLiveKeys
<1>4. withoutMetaWriteClauses(e) \in RotationError
  BY DEF RotationError, withoutMetaWriteClauses, MetaClause
<1> QED BY <1>1, <1>2, <1>3, <1>4

LEMMA FailureFacts ==
    /\ Clean \in RotationError
    /\ \A reason \in Reason : FailureOf(reason) \in RotationError
  BY DEF Clean, FailureOf, RotationError, MetaClause, Reason

----------------------------------------------------------------------------
Inv == TypeOK /\ Safe

(* The idle handlers are well typed. *)
LEMMA IdleFacts ==
    /\ IdleRot \in RotState
    /\ IdleRetry \in RetryState
    /\ IdleEdit \in EditState
<1>1. IdleRot \in RotState
  BY NoMetaFacts DEF IdleRot, RotState, OptKey, MetaClause, Reason
<1>2. IdleRetry \in RetryState
  BY NoMetaFacts, FailureFacts, RotationAssumption DEF IdleRetry, RetryState, OptKey
<1>3. IdleEdit \in EditState
  BY FailureFacts DEF IdleEdit, EditState, OptKey
<1> QED BY <1>1, <1>2, <1>3

(* What was safe stays safe while keys never stored take over and displaced *)
(* keys die.                                                                *)
LEMMA CopyStaysSafe ==
    ASSUME NEW m \in Meta, NEW v, NEW f, NEW v2, NEW f2,
           CopySafe(m, v, f), f \subseteq f2, v2 = v \/ v2 \notin f
    PROVE  CopySafe(m, v2, f2)
  BY DEF CopySafe

LEMMA PassStaysSafe ==
    ASSUME NEW r \in RotState, NEW v, NEW f, NEW l, NEW v2, NEW f2, NEW l2,
           PassSafe(r, v, f, l), f \subseteq f2, v2 = v \/ v2 \notin f,
           l \ l2 \subseteq f,
           r.pc = "store" => r.new \notin f2
    PROVE  PassSafe(r, v2, f2, l2)
<1>1. r.m \in Meta
  BY DEF RotState
<1> QED BY <1>1, CopyStaysSafe DEF PassSafe

LEMMA RequestStaysSafe ==
    ASSUME NEW r \in RetryState, NEW v, NEW f, NEW v2, NEW f2,
           RequestSafe(r, v, f), f \subseteq f2, v2 = v \/ v2 \notin f
    PROVE  RequestSafe(r, v2, f2)
<1>1. r.m \in Meta
  BY DEF RetryState
<1> QED BY <1>1, CopyStaysSafe DEF RequestSafe

(* One attempt at the head of a safe copy kills a displaced key or nothing, *)
(* and leaves the copy safe.                                                *)
LEMMA RevokeFacts ==
    ASSUME NEW m \in Meta, NEW v, NEW f, CopySafe(m, v, f), m.head # NoKey,
           NEW p, NEW u, NEW ok \in BOOLEAN, performPendingRevoke(p, m, u, ok)
    PROVE  /\ live' \subseteq live
           /\ live \ live' \subseteq f \ {v}
           /\ AfterRevoke(m, ok) \in Meta
           /\ CopySafe(AfterRevoke(m, ok), v, f)
<1>1. m.head \in f \ {v}
  BY NamedKeys DEF CopySafe
<1>2. live' \in {live, live \ {m.head}}
  BY DEF performPendingRevoke
<1>3. AfterRevoke(m, ok) \in Meta /\ CopySafe(AfterRevoke(m, ok), v, f)
  BY DischargeFacts DEF AfterRevoke, CopySafe
<1> QED BY <1>1, <1>2, <1>3
----------------------------------------------------------------------------
(* A step of one handler that replaces no value: what the handler's new     *)
(* state and the row must satisfy for the invariant to survive.             *)

RowKept ==
    /\ row' \in Row
    /\ row'.value = row.value
    /\ CopySafe(row'.meta, row.value, former)
    /\ former' = former
    /\ managed' \subseteq Key
    /\ disclosed' \subseteq Key
    /\ metaTok' \subseteq Retriers \cup Editors

KeysKept ==
    /\ minted \subseteq minted'
    /\ minted' \subseteq Key
    /\ live' \subseteq minted'
    /\ live \ live' \subseteq former \ {row.value}

LEMMA PassStep ==
    ASSUME Inv, NEW w \in Rotators, NEW r \in RotState, Step(w, r),
           UNCHANGED <<retry, edit>>, RowKept, KeysKept,
           PassSafe(r, row.value, former, live'),
           r.pc = "store" => r.new \notin minted
    PROVE  Inv'
<1>1. TypeOK'
  BY DEF Inv, TypeOK, Step, RowKept, KeysKept
<1>2. rot' \in [Rotators -> RotState] /\ rot'[w] = r
      /\ \A x \in Rotators \ {w} : rot'[x] = rot[x]
  BY <1>1 DEF Inv, TypeOK, Step
<1>3. /\ row'.value \in live' \cap former'
      /\ former' \subseteq minted'
      /\ live' \subseteq minted'
      /\ CopySafe(row'.meta, row'.value, former')
  BY DEF Inv, Safe, RowKept, KeysKept
<1>4. ASSUME NEW x \in Rotators
      PROVE  PassSafe(rot'[x], row'.value, former', live')
  <2>1. CASE x = w
    BY <2>1, <1>2 DEF RowKept
  <2>2. CASE x # w
    <3>1. rot[x] \in RotState /\ rot'[x] = rot[x]
      BY <1>2, <2>2 DEF Inv, TypeOK
    <3>2. PassSafe(rot[x], row.value, former, live)
      BY DEF Inv, Safe
    <3>3. rot[x].pc = "store" => rot[x].new \notin former
      BY <3>2 DEF PassSafe
    <3> QED BY <3>1, <3>2, <3>3, PassStaysSafe DEF RowKept, KeysKept
  <2> QED BY <2>1, <2>2
<1>5. SuccessorsDiffer'
  <2>1. \A x \in Rotators : rot[x].pc = "store" => rot[x].new \in minted
    BY DEF Inv, Safe, PassSafe
  <2> QED BY <1>2, <2>1 DEF Inv, Safe, SuccessorsDiffer
<1>6. \A t \in Retriers : RequestSafe(retry'[t], row'.value, former')
  BY DEF Inv, Safe, RowKept
<1>7. \A e \in Editors : edit'[e].kid \in former' \cup {NoKey}
  BY DEF Inv, Safe, RowKept
<1> QED BY <1>1, <1>3, <1>4, <1>5, <1>6, <1>7 DEF Inv, Safe

LEMMA RequestStep ==
    ASSUME Inv, NEW t \in Retriers, NEW r \in RetryState, RetryStep(t, r),
           UNCHANGED <<rot, edit>>, RowKept, KeysKept,
           RequestSafe(r, row.value, former)
    PROVE  Inv'
<1>1. TypeOK'
  BY DEF Inv, TypeOK, RetryStep, RowKept, KeysKept
<1>2. retry'[t] = r /\ \A u \in Retriers \ {t} : retry'[u] = retry[u]
  BY DEF Inv, TypeOK, RetryStep
<1>3. /\ row'.value \in live' \cap former'
      /\ former' \subseteq minted'
      /\ live' \subseteq minted'
      /\ CopySafe(row'.meta, row'.value, former')
  BY DEF Inv, Safe, RowKept, KeysKept
<1>4. ASSUME NEW x \in Rotators
      PROVE  PassSafe(rot'[x], row'.value, former', live')
  <2>1. rot[x] \in RotState /\ rot'[x] = rot[x]
    BY DEF Inv, TypeOK
  <2>2. PassSafe(rot[x], row.value, former, live)
    BY DEF Inv, Safe
  <2>3. rot[x].pc = "store" => rot[x].new \notin former
    BY <2>2 DEF PassSafe
  <2> QED BY <2>1, <2>2, <2>3, PassStaysSafe DEF RowKept, KeysKept
<1>5. SuccessorsDiffer'
  BY DEF Inv, Safe, SuccessorsDiffer
<1>6. \A u \in Retriers : RequestSafe(retry'[u], row'.value, former')
  BY <1>2 DEF Inv, Safe, RowKept
<1>7. \A e \in Editors : edit'[e].kid \in former' \cup {NoKey}
  BY DEF Inv, Safe, RowKept
<1> QED BY <1>1, <1>3, <1>4, <1>5, <1>6, <1>7 DEF Inv, Safe

LEMMA EditorStep ==
    ASSUME Inv, NEW e \in Editors, NEW r \in EditState, EditStep(e, r),
           UNCHANGED <<rot, retry>>, RowKept, KeysKept,
           r.kid \in former \cup {NoKey}
    PROVE  Inv'
<1>1. TypeOK'
  BY DEF Inv, TypeOK, EditStep, RowKept, KeysKept
<1>2. edit'[e] = r /\ \A u \in Editors \ {e} : edit'[u] = edit[u]
  BY DEF Inv, TypeOK, EditStep
<1>3. /\ row'.value \in live' \cap former'
      /\ former' \subseteq minted'
      /\ live' \subseteq minted'
      /\ CopySafe(row'.meta, row'.value, former')
  BY DEF Inv, Safe, RowKept, KeysKept
<1>4. ASSUME NEW x \in Rotators
      PROVE  PassSafe(rot'[x], row'.value, former', live')
  <2>1. rot[x] \in RotState /\ rot'[x] = rot[x]
    BY DEF Inv, TypeOK
  <2>2. PassSafe(rot[x], row.value, former, live)
    BY DEF Inv, Safe
  <2>3. rot[x].pc = "store" => rot[x].new \notin former
    BY <2>2 DEF PassSafe
  <2> QED BY <2>1, <2>2, <2>3, PassStaysSafe DEF RowKept, KeysKept
<1>5. SuccessorsDiffer'
  BY DEF Inv, Safe, SuccessorsDiffer
<1>6. \A t \in Retriers : RequestSafe(retry'[t], row'.value, former')
  BY DEF Inv, Safe, RowKept
<1>7. \A u \in Editors : edit'[u].kid \in former' \cup {NoKey}
  BY <1>2 DEF Inv, Safe, RowKept
<1> QED BY <1>1, <1>3, <1>4, <1>5, <1>6, <1>7 DEF Inv, Safe
----------------------------------------------------------------------------
(* Facts that every action's proof starts from. *)

LEMMA InvFacts ==
    ASSUME Inv
    PROVE  /\ row \in Row
           /\ row.value \in Key
           /\ row.provider \in Provider
           /\ row.meta \in Meta
           /\ row.err \in RotationError
           /\ CopySafe(row.meta, row.value, former)
           /\ row.value \in former
           /\ former \subseteq minted
           /\ live \subseteq minted
           /\ minted \subseteq Key
           /\ managed \subseteq Key
           /\ disclosed \subseteq Key
           /\ metaTok \subseteq Retriers \cup Editors
           /\ \A w \in Rotators : /\ rot[w] \in RotState
                                  /\ rot[w].m \in Meta
                                  /\ PassSafe(rot[w], row.value, former, live)
           /\ \A t \in Retriers : /\ retry[t] \in RetryState
                                  /\ retry[t].m \in Meta
                                  /\ RequestSafe(retry[t], row.value, former)
           /\ \A e \in Editors : /\ edit[e] \in EditState
                                 /\ edit[e].kid \in former \cup {NoKey}
<1>1. row.value \in Key /\ row.provider \in Provider /\ row.meta \in Meta
      /\ row.err \in RotationError
  BY DEF Inv, TypeOK, Row
<1>2. \A w \in Rotators : rot[w] \in RotState /\ rot[w].m \in Meta
  BY DEF Inv, TypeOK, RotState
<1>3. \A t \in Retriers : retry[t] \in RetryState /\ retry[t].m \in Meta
  BY DEF Inv, TypeOK, RetryState
<1>4. \A e \in Editors : edit[e] \in EditState
  BY DEF Inv, TypeOK
<1> QED BY <1>1, <1>2, <1>3, <1>4 DEF Inv, TypeOK, Safe

(* The row is left alone, or only its alarm is written. *)
LEMMA QuietRow ==
    ASSUME Inv, UNCHANGED <<former, managed>>, disclosed' \subseteq Key,
           metaTok' \subseteq Retriers \cup Editors,
           \/ UNCHANGED row
           \/ \E e \in RotationError : row' = [row EXCEPT !.err = e]
    PROVE  RowKept
<1>1. row' \in Row /\ row'.value = row.value /\ row'.meta = row.meta
  BY InvFacts DEF Row
<1> QED BY <1>1, InvFacts DEF RowKept

LEMMA QuietKeys ==
    ASSUME Inv, UNCHANGED minted, live' \subseteq live,
           live \ live' \subseteq former \ {row.value}
    PROVE  KeysKept
  BY InvFacts DEF KeysKept

(* The pass gives up, or fails, and touches nothing else. *)
LEMMA PassEnds ==
    ASSUME Inv, NEW w \in Rotators, NEW reason \in Reason,
           Step(w, IdleRot) \/ Fail(w, reason),
           UNCHANGED <<row, upstream, retry, edit, metaTok, history>>
    PROVE  Inv'
<1> DEFINE f == [rot[w] EXCEPT !.pc = "fail", !.reason = reason]
<1>1. RowKept /\ KeysKept
  BY InvFacts, QuietRow, QuietKeys DEF upstream, history
<1>2. CASE Step(w, IdleRot)
  <2>1. PassSafe(IdleRot, row.value, former, live') /\ IdleRot.pc # "store"
    BY DEF PassSafe, IdleRot
  <2> QED BY <1>1, <1>2, <2>1, IdleFacts, PassStep
<1>3. CASE Fail(w, reason)
  <2>1. f \in RotState /\ f.pc = "fail"
    BY InvFacts DEF RotState
  <2>2. PassSafe(f, row.value, former, live')
    BY <2>1 DEF PassSafe
  <2>3. Step(w, f)
    BY <1>3 DEF Fail
  <2> QED BY <1>1, <2>1, <2>2, <2>3, PassStep
<1> QED BY <1>2, <1>3

----------------------------------------------------------------------------
(* Rotation passes. *)

LEMMA SnapshotInv ==
    ASSUME Inv, NEW w \in Rotators, Snapshot(w)
    PROVE  Inv'
<1> DEFINE seen == [IdleRot EXCEPT !.prov = row.provider, !.old = row.value, !.m = row.meta]
           refuse(reason) == [seen EXCEPT !.pc = "fail", !.reason = reason]
           begin(pc) == [seen EXCEPT !.pc = pc]
<1>1. RowKept /\ KeysKept /\ UNCHANGED <<retry, edit, live>>
  BY InvFacts, QuietRow, QuietKeys DEF Snapshot, upstream, history
<1>2. seen \in RotState /\ seen.m = row.meta
  BY InvFacts, IdleFacts DEF RotState, IdleRot, OptKey
<1>3. ASSUME NEW reason \in Reason, Step(w, refuse(reason))
      PROVE  Inv'
  <2>1. refuse(reason) \in RotState /\ refuse(reason).pc = "fail"
    BY <1>2 DEF RotState
  <2>2. PassSafe(refuse(reason), row.value, former, live')
    BY <2>1 DEF PassSafe
  <2> HIDE DEF refuse
  <2> QED BY <1>1, <1>3, <2>1, <2>2, PassStep
<1>4. ASSUME NEW pc \in {"retry", "generate"}, Step(w, begin(pc))
      PROVE  Inv'
  <2>1. begin(pc) \in RotState /\ begin(pc).pc = pc /\ begin(pc).m = row.meta
    BY <1>2 DEF RotState
  <2>2. PassSafe(begin(pc), row.value, former, live')
    BY <2>1, InvFacts DEF PassSafe
  <2> HIDE DEF begin
  <2> QED BY <1>1, <1>4, <2>1, <2>2, PassStep
<1>5. \/ \E reason \in Reason : Step(w, refuse(reason))
      \/ \E pc \in {"retry", "generate"} : Step(w, begin(pc))
  BY DEF Snapshot, Reason
<1> QED BY <1>3, <1>4, <1>5

LEMMA RefuseSpendInv ==
    ASSUME Inv, NEW w \in Rotators, RefuseSpend(w)
    PROVE  Inv'
<1>1. Step(w, IdleRot) \/ Fail(w, "provider")
  BY DEF RefuseSpend
<1> QED BY <1>1, PassEnds DEF RefuseSpend, Reason

LEMMA EncryptFailsInv ==
    ASSUME Inv, NEW w \in Rotators, EncryptFails(w)
    PROVE  Inv'
<1>1. Step(w, IdleRot) \/ Fail(w, "encrypt")
  BY DEF EncryptFails
<1> QED BY <1>1, PassEnds DEF EncryptFails, Reason

LEMMA PanicInv ==
    ASSUME Inv, NEW w \in Rotators, Panic(w)
    PROVE  Inv'
<1>1. Step(w, IdleRot) \/ Fail(w, "internal")
  BY DEF Panic
<1> QED BY <1>1, PassEnds DEF Panic, Reason
LEMMA retryOutstandingRevokeInv ==
    ASSUME Inv, NEW w \in Rotators, retryOutstandingRevoke(w)
    PROVE  Inv'
<1> DEFINE r == rot[w]
           after(ok) == [r EXCEPT !.pc = "mint", !.warn = ~ok, !.m = AfterRevoke(r.m, ok)]
<1>1. RowKept /\ UNCHANGED <<retry, edit, minted>>
  BY InvFacts, QuietRow DEF retryOutstandingRevoke, history
<1>2. r \in RotState /\ r.m \in Meta /\ CopySafe(r.m, row.value, former)
  BY InvFacts DEF retryOutstandingRevoke, PassSafe
<1>3. CASE r.m.head = NoKey
  <2> DEFINE next == [r EXCEPT !.pc = "mint"]
  <2>1. live' = live /\ Step(w, next)
    BY <1>3 DEF retryOutstandingRevoke
  <2>2. next \in RotState /\ next.pc = "mint" /\ next.m = r.m
    BY <1>2 DEF RotState
  <2>3. PassSafe(next, row.value, former, live')
    BY <1>2, <2>2 DEF PassSafe
  <2>4. KeysKept
    BY <1>1, <2>1, QuietKeys
  <2> HIDE DEF next
  <2> QED BY <1>1, <2>1, <2>2, <2>3, <2>4, PassStep
<1>4. CASE r.m.head # NoKey
  <2>1. PICK ok \in BOOLEAN : performPendingRevoke(r.prov, r.m, r.old, ok) /\ Step(w, after(ok))
    BY <1>4 DEF retryOutstandingRevoke
  <2>2. /\ live' \subseteq live
        /\ live \ live' \subseteq former \ {row.value}
        /\ AfterRevoke(r.m, ok) \in Meta
        /\ CopySafe(AfterRevoke(r.m, ok), row.value, former)
    BY <1>2, <1>4, <2>1, RevokeFacts
  <2>3. after(ok) \in RotState /\ after(ok).pc = "mint" /\ after(ok).m = AfterRevoke(r.m, ok)
    BY <1>2, <2>2 DEF RotState
  <2>4. PassSafe(after(ok), row.value, former, live')
    BY <2>2, <2>3 DEF PassSafe
  <2>5. KeysKept
    BY <1>1, <2>2, QuietKeys
  <2> HIDE DEF after
  <2> QED BY <1>1, <2>1, <2>3, <2>4, <2>5, PassStep
<1> QED BY <1>3, <1>4

LEMMA RevokeOldInv ==
    ASSUME Inv, NEW w \in Rotators, RevokeOld(w)
    PROVE  Inv'
<1> DEFINE r == rot[w]
           after(ok) == [r EXCEPT !.pc = "read_back", !.warn = @ \/ ~ok,
                                  !.m = AfterRevoke(r.m, ok)]
<1>1. RowKept /\ UNCHANGED <<retry, edit, minted>>
  BY InvFacts, QuietRow DEF RevokeOld, history
<1>2. r \in RotState /\ r.m \in Meta /\ CopySafe(r.m, row.value, former)
  BY InvFacts DEF RevokeOld, PassSafe
<1>3. CASE r.m.head = NoKey
  <2> DEFINE next == [r EXCEPT !.pc = "read_back"]
  <2>1. live' = live /\ Step(w, next)
    BY <1>3 DEF RevokeOld
  <2>2. next \in RotState /\ next.pc = "read_back" /\ next.m = r.m
    BY <1>2 DEF RotState
  <2>3. PassSafe(next, row.value, former, live')
    BY <1>2, <2>2 DEF PassSafe
  <2>4. KeysKept
    BY <1>1, <2>1, QuietKeys
  <2> HIDE DEF next
  <2> QED BY <1>1, <2>1, <2>2, <2>3, <2>4, PassStep
<1>4. CASE r.m.head # NoKey
  <2>1. PICK ok \in BOOLEAN : performPendingRevoke(r.prov, r.m, r.new, ok) /\ Step(w, after(ok))
    BY <1>4 DEF RevokeOld
  <2>2. /\ live' \subseteq live
        /\ live \ live' \subseteq former \ {row.value}
        /\ AfterRevoke(r.m, ok) \in Meta
        /\ CopySafe(AfterRevoke(r.m, ok), row.value, former)
    BY <1>2, <1>4, <2>1, RevokeFacts
  <2>3. after(ok) \in RotState /\ after(ok).pc = "read_back"
        /\ after(ok).m = AfterRevoke(r.m, ok)
    <3>1. (r.warn \/ ~ok) \in BOOLEAN
      OBVIOUS
    <3> QED BY <1>2, <2>2, <3>1 DEF RotState
  <2>4. PassSafe(after(ok), row.value, former, live')
    BY <2>2, <2>3 DEF PassSafe
  <2>5. KeysKept
    BY <1>1, <2>2, QuietKeys
  <2> HIDE DEF after
  <2> QED BY <1>1, <2>1, <2>3, <2>4, <2>5, PassStep
<1> QED BY <1>3, <1>4

(* The pass after a mint: the predecessor it queues is a key that was       *)
(* stored, and may still be.                                                *)
LEMMA MintedFacts ==
    ASSUME NEW r \in RotState, NEW k \in Key, NEW v, NEW f,
           f \subseteq Key, CopySafe(r.m, v, f)
    PROVE  /\ Minted(r, k) \in RotState
           /\ Minted(r, k).pc = "store"
           /\ Minted(r, k).new = k
           /\ outstandingRevokeKeyIDs(Minted(r, k).m) \subseteq f
           /\ Minted(r, k).m.keyID \in f \cup {NoKey, k}
<1> DEFINE pred == r.m.keyID
           tracks == SchemeOf[r.prov] # "keep"
           declined == tracks /\ pred # NoKey /\ Refused(r.m, pred)
           queued == IF pred = NoKey THEN r.m ELSE deferRevokeOldProviderKey(r.m, pred)
           m2 == IF tracks THEN [queued EXCEPT !.keyID = k] ELSE r.m
<1>1. r.m \in Meta
  BY DEF RotState
<1>2. pred \in f \cup {NoKey} /\ pred \in OptKey /\ outstandingRevokeKeyIDs(r.m) \subseteq f
  BY <1>1, NamedKeys DEF CopySafe
<1>3. queued \in Meta /\ outstandingRevokeKeyIDs(queued) \subseteq f
  <2>1. CASE pred = NoKey
    BY <1>1, <1>2, <2>1
  <2>2. CASE pred # NoKey
    <3>1. pred \in Key /\ pred \in f
      BY <1>2, <2>2
    <3> QED BY <1>1, <1>2, <2>2, <3>1, DeferFacts
  <2> QED BY <2>1, <2>2
<1>4. m2 \in Meta /\ outstandingRevokeKeyIDs(m2) \subseteq f /\ m2.keyID \in f \cup {NoKey, k}
  <2>1. k \in OptKey
    BY DEF OptKey
  <2> HIDE DEF queued
  <2> QED BY <1>1, <1>2, <1>3, <2>1, KeyIDFacts
<1>5. Minted(r, k) = [r EXCEPT !.pc = "store", !.new = k, !.m = m2, !.warn = @ \/ declined,
                               !.refused = IF declined THEN pred ELSE NoKey]
  BY DEF Minted
<1>6. (r.warn \/ declined) \in BOOLEAN /\ (IF declined THEN pred ELSE NoKey) \in OptKey
  BY <1>2 DEF OptKey
<1> HIDE DEF m2, declined
<1> QED BY <1>4, <1>5, <1>6 DEF RotState, OptKey

LEMMA WithoutIdFacts ==
    ASSUME NEW r \in RotState, NEW k \in Key, NEW v, NEW f,
           f \subseteq Key, CopySafe(r.m, v, f)
    PROVE  /\ MintedWithoutId(r, k) \in RotState
           /\ MintedWithoutId(r, k).pc = "store"
           /\ MintedWithoutId(r, k).new = k
           /\ outstandingRevokeKeyIDs(MintedWithoutId(r, k).m) \subseteq f
           /\ MintedWithoutId(r, k).m.keyID \in f \cup {NoKey, k}
<1> DEFINE s == MintedWithoutId(r, k)
<1>1. r.m \in Meta /\ r.m.keyID \in OptKey /\ r.m.keyID \in f \cup {NoKey}
      /\ outstandingRevokeKeyIDs(r.m) \subseteq f
  <2>1. r.m \in Meta
    BY DEF RotState
  <2> QED BY <2>1, NamedKeys DEF CopySafe
<1>2. CASE SchemeOf[r.prov] = "bearer"
  <2> DEFINE q == Minted(r, k)
             blank == [q.m EXCEPT !.keyID = NoKey]
  <2>1. q \in RotState /\ q.m \in Meta /\ q.pc = "store" /\ q.new = k
        /\ outstandingRevokeKeyIDs(q.m) \subseteq f
    BY MintedFacts DEF RotState
  <2>2. s = [q EXCEPT !.m = blank]
    BY <1>2 DEF MintedWithoutId
  <2> HIDE DEF q
  <2>3. blank \in Meta /\ outstandingRevokeKeyIDs(blank) \subseteq f /\ blank.keyID = NoKey
    BY <2>1, KeyIDFacts DEF OptKey
  <2> HIDE DEF blank, s
  <2> QED BY <2>1, <2>2, <2>3 DEF RotState, s
<1>3. CASE SchemeOf[r.prov] = "careful"
  <2>1. s = [r EXCEPT !.pc = "store", !.new = k, !.warn = TRUE, !.refused = r.m.keyID]
    BY <1>3 DEF MintedWithoutId
  <2> HIDE DEF s
  <2> QED BY <1>1, <2>1 DEF RotState, OptKey, s
<1>4. CASE SchemeOf[r.prov] \notin {"bearer", "careful"}
  <2>1. s = [r EXCEPT !.pc = "store", !.new = k]
    BY <1>4 DEF MintedWithoutId
  <2> HIDE DEF s
  <2> QED BY <1>1, <2>1 DEF RotState, OptKey, s
<1> QED BY <1>2, <1>3, <1>4

(* A key that was never issued is issued. *)
LEMMA IssueFacts ==
    ASSUME Inv, NEW p, NEW k \in Fresh(p), minted' = minted \cup {k}, live' = live \cup {k}
    PROVE  KeysKept /\ k \in Key /\ k \notin minted /\ k \in live' \ former
  BY InvFacts DEF Fresh, KeysKept

LEMMA MintInv ==
    ASSUME Inv, NEW w \in Rotators, Mint(w)
    PROVE  Inv'
<1> DEFINE r == rot[w]
<1>1. PICK k \in Fresh(r.prov) :
        /\ minted' = minted \cup {k}
        /\ live' = live \cup {k}
        /\ managed' \in {managed, managed \cup {k}}
        /\ Step(w, Minted(r, k)) \/ Step(w, MintedWithoutId(r, k))
  BY DEF Mint
<1>2. KeysKept /\ k \in Key /\ k \notin minted /\ k \in live' \ former
  BY <1>1, IssueFacts
<1>3. RowKept /\ UNCHANGED <<retry, edit>>
  BY <1>1, <1>2, InvFacts DEF Mint, RowKept
<1>4. r \in RotState /\ CopySafe(r.m, row.value, former) /\ former \subseteq Key
  BY InvFacts DEF Mint, PassSafe
<1>5. ASSUME NEW s \in RotState, Step(w, s), s.pc = "store", s.new = k,
             outstandingRevokeKeyIDs(s.m) \subseteq former,
             s.m.keyID \in former \cup {NoKey, k}
      PROVE  Inv'
  <2>1. PassSafe(s, row.value, former, live')
    BY <1>2, <1>5 DEF PassSafe
  <2> QED BY <1>1, <1>2, <1>3, <1>5, <2>1, PassStep
<1>6. CASE Step(w, Minted(r, k))
  <2>1. /\ Minted(r, k) \in RotState
        /\ Minted(r, k).pc = "store"
        /\ Minted(r, k).new = k
        /\ outstandingRevokeKeyIDs(Minted(r, k).m) \subseteq former
        /\ Minted(r, k).m.keyID \in former \cup {NoKey, k}
    BY <1>2, <1>4, MintedFacts
  <2> HIDE DEF r
  <2> QED BY <1>5, <1>6, <2>1
<1>7. CASE Step(w, MintedWithoutId(r, k))
  <2>1. /\ MintedWithoutId(r, k) \in RotState
        /\ MintedWithoutId(r, k).pc = "store"
        /\ MintedWithoutId(r, k).new = k
        /\ outstandingRevokeKeyIDs(MintedWithoutId(r, k).m) \subseteq former
        /\ MintedWithoutId(r, k).m.keyID \in former \cup {NoKey, k}
    BY <1>2, <1>4, WithoutIdFacts
  <2> HIDE DEF r
  <2> QED BY <1>5, <1>7, <2>1
<1> QED BY <1>1, <1>6, <1>7

LEMMA GenerateInv ==
    ASSUME Inv, NEW w \in Rotators, Generate(w)
    PROVE  Inv'
<1> DEFINE r == rot[w]
           next(k) == [r EXCEPT !.pc = "store", !.new = k]
<1>1. PICK k \in Fresh(r.prov) :
        /\ minted' = minted \cup {k}
        /\ live' = live \cup {k}
        /\ Step(w, next(k))
  BY DEF Generate
<1>2. KeysKept /\ k \in Key /\ k \notin minted /\ k \in live' \ former
  BY <1>1, IssueFacts
<1>3. RowKept /\ UNCHANGED <<retry, edit>>
  BY InvFacts, QuietRow DEF Generate, history
<1>4. r \in RotState /\ CopySafe(r.m, row.value, former)
  BY InvFacts DEF Generate, PassSafe
<1>5. next(k) \in RotState /\ next(k).pc = "store" /\ next(k).new = k /\ next(k).m = r.m
  BY <1>2, <1>4 DEF RotState, OptKey
<1>6. PassSafe(next(k), row.value, former, live')
  BY <1>2, <1>4, <1>5 DEF PassSafe, CopySafe
<1> HIDE DEF next
<1> QED BY <1>1, <1>2, <1>3, <1>5, <1>6, PassStep

LEMMA MintFailsInv ==
    ASSUME Inv, NEW w \in Rotators, MintFails(w)
    PROVE  Inv'
<1> DEFINE f == [rot[w] EXCEPT !.pc = "fail", !.reason = "provider"]
<1>1. RowKept /\ UNCHANGED <<retry, edit>>
  BY InvFacts, QuietRow DEF MintFails, history
<1>2. KeysKept
  <2>1. CASE UNCHANGED upstream
    BY <2>1, QuietKeys DEF upstream
  <2>2. CASE \E k \in Fresh(rot[w].prov) : minted' = minted \cup {k} /\ live' = live \cup {k}
    BY <2>2, IssueFacts
  <2> QED BY <2>1, <2>2 DEF MintFails
<1>3. f \in RotState /\ f.pc = "fail"
  BY InvFacts DEF RotState, Reason
<1>4. PassSafe(f, row.value, former, live')
  BY <1>3 DEF PassSafe
<1>5. Step(w, f)
  BY DEF MintFails, Fail
<1> QED BY <1>1, <1>2, <1>3, <1>4, <1>5, PassStep

(* The one step of a pass that replaces the value: everybody else's copy    *)
(* names only keys that were stored before, so none of them names the       *)
(* successor, and the copy of this pass becomes safe by the replacement.    *)
LEMMA StoreInv ==
    ASSUME Inv, NEW w \in Rotators, NEW pc \in {"revoke", "record"}, rot[w].pc = "store",
           row' = [row EXCEPT !.value = rot[w].new], former' = former \cup {rot[w].new},
           Step(w, [rot[w] EXCEPT !.pc = pc]),
           UNCHANGED <<upstream, retry, edit, metaTok, managed, disclosed>>
    PROVE  Inv'
<1> DEFINE k == rot[w].new
           next == [rot[w] EXCEPT !.pc = pc]
<1>1. /\ k \in live /\ k \notin former /\ k \in Key
      /\ outstandingRevokeKeyIDs(rot[w].m) \subseteq former
      /\ rot[w].m.keyID \in former \cup {NoKey, k}
  BY InvFacts DEF PassSafe
<1>2. next \in RotState /\ next.pc = pc /\ next.m = rot[w].m
  BY InvFacts DEF RotState
<1>3. row' \in Row /\ row'.value = k /\ row'.meta = row.meta
  BY <1>1, InvFacts DEF Row
<1>4. rot' \in [Rotators -> RotState] /\ rot'[w] = next
      /\ \A x \in Rotators \ {w} : rot'[x] = rot[x]
  BY <1>2 DEF Step, Inv, TypeOK
<1>5. TypeOK'
  BY <1>1, <1>3, <1>4 DEF Inv, TypeOK, upstream
<1>6. /\ row'.value \in live' \cap former'
      /\ former' \subseteq minted'
      /\ live' \subseteq minted'
  BY <1>1, <1>3, InvFacts DEF upstream
<1>7. CopySafe(row'.meta, row'.value, former')
  BY <1>1, <1>3, InvFacts, CopyStaysSafe
<1>8. ASSUME NEW x \in Rotators
      PROVE  PassSafe(rot'[x], row'.value, former', live')
  <2>1. CASE x = w
    BY <1>1, <1>2, <1>3, <1>4, <2>1 DEF PassSafe, CopySafe
  <2>2. CASE x # w
    <3>1. rot[x] \in RotState /\ PassSafe(rot[x], row.value, former, live)
      BY InvFacts
    <3>2. rot[x].pc = "store" => rot[x].new \notin former'
      <4>1. rot[x].pc = "store" => rot[x].new # k
        BY <2>2 DEF Inv, Safe, SuccessorsDiffer
      <4> QED BY <3>1, <4>1 DEF PassSafe
    <3> QED BY <1>1, <1>3, <1>4, <2>2, <3>1, <3>2, PassStaysSafe DEF upstream
  <2> QED BY <2>1, <2>2
<1>9. SuccessorsDiffer'
  <2>1. \A x \in Rotators : rot'[x].pc = "store" => rot'[x] = rot[x]
    BY <1>2, <1>4
  <2> QED BY <2>1 DEF Inv, Safe, SuccessorsDiffer
<1>10. \A t \in Retriers : RequestSafe(retry'[t], row'.value, former')
  BY <1>1, <1>3, InvFacts, RequestStaysSafe
<1>11. \A e \in Editors : edit'[e].kid \in former' \cup {NoKey}
  BY InvFacts
<1> QED BY <1>5, <1>6, <1>7, <1>8, <1>9, <1>10, <1>11 DEF Inv, Safe

LEMMA persistRotatedValueInv ==
    ASSUME Inv, NEW w \in Rotators, persistRotatedValue(w)
    PROVE  Inv'
<1> DEFINE r == rot[w]
           to == IF RoleOf[r.prov] = "auto" THEN "revoke" ELSE "record"
<1>1. CASE /\ row' = [row EXCEPT !.value = r.new]
           /\ former' = former \cup {r.new}
           /\ Step(w, [r EXCEPT !.pc = to])
  BY <1>1, StoreInv DEF persistRotatedValue
<1>2. CASE /\ Step(w, IdleRot) \/ Fail(w, "conflict") \/ Fail(w, "persist")
           /\ UNCHANGED <<row, former>>
  BY <1>2, PassEnds DEF persistRotatedValue, history, Reason
<1> QED BY <1>1, <1>2 DEF persistRotatedValue
LEMMA ReadBackInv ==
    ASSUME Inv, NEW w \in Rotators, ReadBack(w)
    PROVE  Inv'
<1> DEFINE r == rot[w]
           merged == [r EXCEPT !.pc = "write_back", !.m = MergedMeta(r.prov, row.meta, @)]
           skip(clause) == [r EXCEPT !.pc = "record", !.clause = clause]
<1>1. RowKept /\ KeysKept /\ UNCHANGED <<retry, edit, live>>
  BY InvFacts, QuietRow, QuietKeys DEF ReadBack, upstream, history
<1>2. r \in RotState /\ r.m \in Meta /\ CopySafe(r.m, row.value, former)
  BY InvFacts DEF ReadBack, PassSafe
<1>3. CASE Step(w, merged)
  <2> DEFINE kid == IF r.m.keyID = NoKey /\ SchemeOf[r.prov] # "bearer" THEN row.meta.keyID ELSE r.m.keyID
  <2>1. kid \in former \cup {NoKey} /\ kid \in OptKey
    BY <1>2, InvFacts, NamedKeys DEF CopySafe
  <2>2. MergedMeta(r.prov, row.meta, r.m) = [r.m EXCEPT !.keyID = kid]
    BY DEF MergedMeta
  <2>3. MergedMeta(r.prov, row.meta, r.m) \in Meta /\ CopySafe(MergedMeta(r.prov, row.meta, r.m), row.value, former)
    BY <1>2, <2>1, <2>2, KeyIDFacts DEF CopySafe
  <2>4. merged \in RotState /\ merged.pc = "write_back" /\ merged.m = MergedMeta(r.prov, row.meta, r.m)
    BY <1>2, <2>3 DEF RotState
  <2>5. PassSafe(merged, row.value, former, live')
    BY <2>3, <2>4 DEF PassSafe
  <2> HIDE DEF merged
  <2> QED BY <1>1, <1>3, <2>4, <2>5, PassStep
<1>4. ASSUME NEW clause \in MetaClause, Step(w, skip(clause))
      PROVE  Inv'
  <2>1. skip(clause) \in RotState /\ skip(clause).pc = "record"
    BY <1>2 DEF RotState
  <2>2. PassSafe(skip(clause), row.value, former, live')
    BY <2>1 DEF PassSafe
  <2> HIDE DEF skip
  <2> QED BY <1>1, <1>4, <2>1, <2>2, PassStep
<1> QED BY <1>3, <1>4 DEF ReadBack, MetaClause

(* A row whose provider_meta is replaced by a safe copy. *)
LEMMA MetaRow ==
    ASSUME Inv, NEW m \in Meta, CopySafe(m, row.value, former),
           row' = [row EXCEPT !.meta = m],
           UNCHANGED <<former, managed, disclosed>>, metaTok' = {}
    PROVE  RowKept
<1>1. row' \in Row /\ row'.value = row.value /\ row'.meta = m
  BY InvFacts DEF Row
<1> QED BY <1>1, InvFacts DEF RowKept

LEMMA WriteBackInv ==
    ASSUME Inv, NEW w \in Rotators, WriteBack(w)
    PROVE  Inv'
<1> DEFINE r == rot[w]
           next == [r EXCEPT !.pc = "record"]
           skip == [r EXCEPT !.pc = "record", !.clause = "write_back_failed"]
<1>1. KeysKept /\ UNCHANGED <<retry, edit, live>>
  BY QuietKeys DEF WriteBack, upstream
<1>2. r \in RotState /\ r.m \in Meta /\ CopySafe(r.m, row.value, former)
  BY InvFacts DEF WriteBack, PassSafe
<1>3. next \in RotState /\ next.pc = "record" /\ skip \in RotState /\ skip.pc = "record"
  BY <1>2 DEF RotState, MetaClause
<1>4. PassSafe(next, row.value, former, live') /\ PassSafe(skip, row.value, former, live')
  BY <1>3 DEF PassSafe
<1>5. CASE row' = [row EXCEPT !.meta = r.m] /\ metaTok' = {} /\ Step(w, next)
  <2>1. RowKept
    BY <1>2, <1>5, MetaRow DEF WriteBack, history
  <2> HIDE DEF next
  <2> QED BY <1>1, <1>3, <1>4, <1>5, <2>1, PassStep
<1>6. CASE Step(w, skip) /\ UNCHANGED <<row, metaTok>>
  <2>1. RowKept
    BY <1>6, InvFacts, QuietRow DEF WriteBack, history
  <2> HIDE DEF skip
  <2> QED BY <1>1, <1>3, <1>4, <1>6, <2>1, PassStep
<1> QED BY <1>5, <1>6 DEF WriteBack

(* A recorder ends the pass, writes the alarm and tells the operator. *)
LEMMA RecordEnds ==
    ASSUME Inv, NEW w \in Rotators, NEW e \in RotationError, RecordError(e),
           Step(w, IdleRot), disclosed' \subseteq Key,
           UNCHANGED <<upstream, retry, edit, metaTok, former, managed>>
    PROVE  Inv'
<1>1. RowKept /\ KeysKept
  BY InvFacts, QuietRow, QuietKeys DEF RecordError, upstream
<1>2. PassSafe(IdleRot, row.value, former, live') /\ IdleRot.pc # "store"
  BY DEF PassSafe, IdleRot
<1> QED BY <1>1, <1>2, IdleFacts, PassStep

LEMMA ToldFacts ==
    ASSUME NEW r \in RotState
    PROVE  Told(r) \subseteq Key
<1>1. r.m \in Meta /\ r.new \in OptKey /\ r.refused \in OptKey
  BY DEF RotState
<1> QED BY <1>1, NamedKeys DEF Told, OptKey

LEMMA RecordersInv ==
    ASSUME Inv, NEW w \in Rotators,
           \/ recordRotationOutcome(w)
           \/ recordRotationOutcomeUndeliverable(w)
           \/ recordRotationFailure(w)
    PROVE  Inv'
<1> DEFINE r == rot[w]
<1>1. /\ r \in RotState /\ r.m \in Meta /\ r.warn \in BOOLEAN
      /\ r.clause \in MetaClause /\ r.reason \in Reason /\ r.new \in OptKey
      /\ outstandingRevokeKeyIDs(r.m) \subseteq Key
  <2>1. r \in RotState /\ r.m \in Meta
    BY InvFacts
  <2> QED BY <2>1, NamedKeys DEF RotState
<1>2. CASE recordRotationOutcome(w)
  <2>1. PICK delivery \in {"", "delivery"} :
          RecordError(foldMetaWriteOutcome(
                        foldRevokeOutcome(FailureOf(delivery), r.warn,
                                          outstandingRevokeKeyIDs(r.m)), r.clause))
    BY <1>2 DEF recordRotationOutcome
  <2>2. FailureOf(delivery) \in RotationError
    BY FailureFacts DEF Reason
  <2>3. foldRevokeOutcome(FailureOf(delivery), r.warn, outstandingRevokeKeyIDs(r.m))
          \in RotationError
    BY <1>1, <2>2, AlarmFacts
  <2>4. foldMetaWriteOutcome(foldRevokeOutcome(FailureOf(delivery), r.warn,
                                               outstandingRevokeKeyIDs(r.m)), r.clause)
          \in RotationError
    BY <1>1, <2>3, AlarmFacts
  <2>5. disclosed' \subseteq Key
    BY <1>1, <1>2, ToldFacts, InvFacts DEF recordRotationOutcome
  <2> QED BY <1>2, <2>1, <2>4, <2>5, RecordEnds DEF recordRotationOutcome
<1>3. CASE recordRotationOutcomeUndeliverable(w)
  <2> DEFINE q == [r EXCEPT !.refused = NoKey]
  <2>1. FailureOf("undeliverable") \in RotationError
    BY FailureFacts DEF Reason
  <2>2. foldMetaWriteOutcome(FailureOf("undeliverable"), r.clause) \in RotationError
    BY <1>1, <2>1, AlarmFacts
  <2>3. q \in RotState
    BY <1>1 DEF RotState, OptKey
  <2>4. disclosed' = disclosed \cup Told(q)
    BY <1>3 DEF recordRotationOutcomeUndeliverable
  <2> HIDE DEF q
  <2>5. disclosed' \subseteq Key
    BY <2>3, <2>4, ToldFacts, InvFacts
  <2> QED BY <1>3, <2>2, <2>5, RecordEnds DEF recordRotationOutcomeUndeliverable
<1>4. CASE recordRotationFailure(w)
  <2>1. FailureOf(r.reason) \in RotationError
    BY <1>1, FailureFacts
  <2>2. disclosed' \subseteq Key
    BY <1>1, <1>4, InvFacts DEF recordRotationFailure, OptKey
  <2> QED BY <1>4, <2>1, <2>2, RecordEnds DEF recordRotationFailure
<1> QED BY <1>2, <1>3, <1>4
----------------------------------------------------------------------------
(* The retry endpoint. *)

LEMMA RetrySnapshotInv ==
    ASSUME Inv, NEW t \in Retriers, RetrySnapshot(t)
    PROVE  Inv'
<1> DEFINE r == [pc |-> "call", prov |-> row.provider, val |-> row.value,
                 m |-> row.meta, target |-> row.meta.head, err |-> row.err, tries |-> 0]
<1>1. RowKept /\ KeysKept /\ UNCHANGED <<rot, edit>>
  BY InvFacts, QuietRow, QuietKeys DEF RetrySnapshot, upstream, history
<1>2. row.meta.head \in OptKey
  BY InvFacts DEF Meta
<1>3. r \in RetryState
  <2>1. 0 \in 0 .. rotationLogCASAttempts
    BY RotationAssumption
  <2>2. /\ row.provider \in Provider /\ row.value \in OptKey
        /\ row.meta \in Meta /\ row.err \in RotationError
    BY InvFacts DEF OptKey
  <2> QED BY <1>2, <2>1, <2>2 DEF RetryState
<1>4. RequestSafe(r, row.value, former)
  BY InvFacts, RotationAssumption DEF RequestSafe
<1>5. RetryStep(t, r)
  BY DEF RetrySnapshot
<1> HIDE DEF r
<1> QED BY <1>1, <1>3, <1>4, <1>5, RequestStep

(* A request ends. *)
LEMMA RequestEnds ==
    ASSUME Inv, NEW t \in Retriers, RetryStep(t, IdleRetry),
           UNCHANGED <<rot, edit>>, RowKept, KeysKept
    PROVE  Inv'
<1>1. RequestSafe(IdleRetry, row.value, former)
  BY DEF RequestSafe, IdleRetry
<1> QED BY <1>1, IdleFacts, RequestStep

LEMMA RetryCallInv ==
    ASSUME Inv, NEW t \in Retriers, RetryCall(t)
    PROVE  Inv'
<1> DEFINE r == retry[t]
           next == [r EXCEPT !.pc = "cas", !.m = AfterRevoke(@, TRUE)]
<1>1. /\ r \in RetryState /\ r.m \in Meta /\ CopySafe(r.m, row.value, former)
      /\ r.tries < rotationLogCASAttempts
  BY InvFacts DEF RetryCall, RequestSafe
<1>2. PICK ok \in BOOLEAN :
        /\ performPendingRevoke(r.prov, r.m, r.val, ok)
        /\ RetryStep(t, IF ok THEN [r EXCEPT !.pc = "cas", !.m = AfterRevoke(@, ok)]
                              ELSE IdleRetry)
        /\ metaTok' = IF ok THEN metaTok ELSE metaTok \ {t}
  BY DEF RetryCall
<1>3. RowKept /\ UNCHANGED <<rot, edit, minted>>
  BY <1>2, InvFacts, QuietRow DEF RetryCall, history
<1>4. live' \in {live, live \ {r.m.head}}
  BY <1>2 DEF performPendingRevoke
<1>5. r.m.head \in former \ {row.value} \/ r.m.head = NoKey
  BY <1>1, NamedKeys DEF CopySafe
<1>6. KeysKept
  <2>1. NoKey \notin live
    BY InvFacts, QueueAssumption
  <2> QED BY <1>3, <1>4, <1>5, <2>1, QuietKeys
<1>7. CASE ok = TRUE
  <2>1. AfterRevoke(r.m, TRUE) \in Meta /\ CopySafe(AfterRevoke(r.m, TRUE), row.value, former)
    BY <1>1, DischargeFacts DEF AfterRevoke, CopySafe
  <2>2. /\ next \in RetryState /\ next.pc = "cas" /\ next.m = AfterRevoke(r.m, TRUE)
        /\ next.tries = r.tries
    BY <1>1, <2>1 DEF RetryState
  <2>3. RequestSafe(next, row.value, former)
    BY <1>1, <2>1, <2>2 DEF RequestSafe
  <2>4. RetryStep(t, next)
    BY <1>2, <1>7
  <2> HIDE DEF next
  <2> QED BY <1>3, <1>6, <2>2, <2>3, <2>4, RequestStep
<1>8. CASE ok = FALSE
  BY <1>2, <1>3, <1>6, <1>8, RequestEnds
<1> QED BY <1>7, <1>8

LEMMA RetryCASInv ==
    ASSUME Inv, NEW t \in Retriers, RetryCAS(t)
    PROVE  Inv'
<1> DEFINE r == retry[t]
           settled == [r EXCEPT !.pc = "recheck"]
           missed == [r EXCEPT !.pc = "refetch", !.tries = @ + 1]
<1>1. /\ r \in RetryState /\ r.m \in Meta /\ CopySafe(r.m, row.value, former)
      /\ r.tries < rotationLogCASAttempts
  BY InvFacts DEF RetryCAS, RequestSafe
<1>2. KeysKept /\ UNCHANGED <<rot, edit>>
  BY QuietKeys DEF RetryCAS, upstream
<1>3. CASE /\ row' = [row EXCEPT !.meta = Settled(r.m, r.target)]
           /\ metaTok' = {}
           /\ RetryStep(t, settled)
  <2>1. Settled(r.m, r.target) \in Meta /\ CopySafe(Settled(r.m, r.target), row.value, former)
    BY <1>1, DischargeFacts DEF Settled, CopySafe
  <2>2. RowKept
    BY <1>3, <2>1, MetaRow DEF RetryCAS, history
  <2>3. settled \in RetryState /\ settled.pc = "recheck"
    BY <1>1 DEF RetryState
  <2>4. RequestSafe(settled, row.value, former)
    BY <2>3 DEF RequestSafe
  <2> HIDE DEF settled
  <2> QED BY <1>2, <1>3, <2>2, <2>3, <2>4, RequestStep
<1>4. CASE RetryStep(t, missed) /\ UNCHANGED <<row, metaTok>>
  <2>1. RowKept
    BY <1>4, InvFacts, QuietRow DEF RetryCAS, history
  <2>2. missed \in RetryState /\ missed.pc = "refetch"
    <3>1. r.tries \in 0 .. rotationLogCASAttempts
      BY <1>1 DEF RetryState
    <3>2. r.tries + 1 \in 0 .. rotationLogCASAttempts
      BY <1>1, <3>1, RotationAssumption
    <3> QED BY <1>1, <3>2 DEF RetryState
  <2>3. RequestSafe(missed, row.value, former)
    BY <2>2 DEF RequestSafe
  <2> HIDE DEF missed
  <2> QED BY <1>2, <1>4, <2>1, <2>2, <2>3, RequestStep
<1>5. CASE RetryStep(t, IdleRetry) /\ metaTok' = metaTok \ {t} /\ UNCHANGED row
  <2>1. RowKept
    BY <1>5, InvFacts, QuietRow DEF RetryCAS, history
  <2> QED BY <1>2, <1>5, <2>1, RequestEnds
<1> QED BY <1>3, <1>4, <1>5 DEF RetryCAS

LEMMA RetryRefetchInv ==
    ASSUME Inv, NEW t \in Retriers, RetryRefetch(t)
    PROVE  Inv'
<1> DEFINE r == retry[t]
           again == row.meta.head = r.target /\ r.tries < rotationLogCASAttempts
           next == [r EXCEPT !.pc = "cas", !.m = row.meta]
<1>1. RowKept /\ KeysKept /\ UNCHANGED <<rot, edit>>
  BY InvFacts, QuietRow, QuietKeys DEF RetryRefetch, upstream, history
<1>2. CASE again
  <2>1. next \in RetryState /\ next.pc = "cas" /\ next.m = row.meta /\ next.tries = r.tries
    BY InvFacts DEF RetryState
  <2>2. RequestSafe(next, row.value, former)
    BY <1>2, <2>1, InvFacts DEF RequestSafe
  <2>3. RetryStep(t, next)
    BY <1>2 DEF RetryRefetch
  <2> HIDE DEF next
  <2> QED BY <1>1, <2>1, <2>2, <2>3, RequestStep
<1>3. CASE ~again
  <2>1. RetryStep(t, IdleRetry)
    BY <1>3 DEF RetryRefetch
  <2> QED BY <1>1, <2>1, RequestEnds
<1> QED BY <1>2, <1>3

LEMMA RetryRecheckInv ==
    ASSUME Inv, NEW t \in Retriers, RetryRecheck(t)
    PROVE  Inv'
<1> DEFINE next == [retry[t] EXCEPT !.pc = "clear"]
<1>1. RowKept /\ KeysKept /\ UNCHANGED <<rot, edit>>
  BY InvFacts, QuietRow, QuietKeys DEF RetryRecheck, upstream, history
<1>2. CASE RetryStep(t, next)
  <2>1. next \in RetryState /\ next.pc = "clear"
    BY InvFacts DEF RetryState
  <2>2. RequestSafe(next, row.value, former)
    BY <2>1 DEF RequestSafe
  <2> HIDE DEF next
  <2> QED BY <1>1, <1>2, <2>1, <2>2, RequestStep
<1>3. CASE RetryStep(t, IdleRetry)
  BY <1>1, <1>3, RequestEnds
<1> QED BY <1>2, <1>3 DEF RetryRecheck

LEMMA RetryClearInv ==
    ASSUME Inv, NEW t \in Retriers, RetryClear(t)
    PROVE  Inv'
<1> DEFINE r == retry[t]
<1>1. r.target \in OptKey
  BY InvFacts DEF RetryState
<1>2. withoutRevokeStillLiveKeys(row.err, {r.target}) \in RotationError
  BY <1>1, InvFacts DEF withoutRevokeStillLiveKeys, RotationError
<1>3. \/ UNCHANGED row
      \/ \E e \in RotationError : row' = [row EXCEPT !.err = e]
  BY <1>2 DEF RetryClear, clearRevokeHalfOfRotationError
<1>4. RowKept /\ KeysKept /\ UNCHANGED <<rot, edit>>
  BY <1>3, InvFacts, QuietRow, QuietKeys DEF RetryClear, upstream, history
<1> QED BY <1>4, RequestEnds DEF RetryClear
----------------------------------------------------------------------------
(* The resolve endpoint and the editor. *)

LEMMA ResolveInv ==
    ASSUME Inv, ResolvePendingRevoke
    PROVE  Inv'
<1> DEFINE k == row.meta.head
           m2 == dischargePendingRevokeHead(row.meta)
           e2 == withoutRevokeStillLiveKeys(row.err, {k})
<1>1. k \in Key
  BY InvFacts DEF ResolvePendingRevoke, Meta, OptKey
<1>2. m2 \in Meta /\ CopySafe(m2, row.value, former)
  BY InvFacts, DischargeFacts DEF CopySafe
<1>3. e2 \in RotationError
  BY InvFacts DEF withoutRevokeStillLiveKeys, RotationError
<1>4. row' = [row EXCEPT !.meta = m2, !.err = e2]
  BY DEF ResolvePendingRevoke
<1> HIDE DEF m2, e2
<1>5. row' \in Row /\ row'.value = row.value /\ row'.meta = m2
  BY <1>2, <1>3, <1>4, InvFacts DEF Row
<1>6. disclosed' \subseteq Key /\ metaTok' = {} /\ UNCHANGED <<former, managed, live, minted, rot, retry, edit>>
  BY <1>1, InvFacts DEF ResolvePendingRevoke, upstream
<1> QED BY <1>2, <1>5, <1>6 DEF Inv, TypeOK, Safe, SuccessorsDiffer

(* An editor's request ends. *)
LEMMA EditorEnds ==
    ASSUME Inv, NEW e \in Editors, EditStep(e, IdleEdit),
           UNCHANGED <<rot, retry>>, RowKept, KeysKept
    PROVE  Inv'
<1>1. IdleEdit.kid = NoKey
  BY DEF IdleEdit
<1> QED BY <1>1, IdleFacts, EditorStep

LEMMA OpenEditorInv ==
    ASSUME Inv, NEW e \in Editors, OpenEditor(e)
    PROVE  Inv'
<1>1. PICK kid \in {row.meta.keyID, row.value} :
        EditStep(e, [IdleEdit EXCEPT !.pc = "open", !.kid = kid])
  BY DEF OpenEditor
<1> DEFINE next == [IdleEdit EXCEPT !.pc = "open", !.kid = kid]
<1>2. kid \in former \cup {NoKey} /\ kid \in OptKey
  BY InvFacts, NamedKeys DEF CopySafe, OptKey
<1>3. next \in EditState /\ next.kid = kid
  BY <1>2, IdleFacts DEF EditState, IdleEdit
<1>4. RowKept /\ KeysKept /\ UNCHANGED <<rot, retry>>
  BY InvFacts, QuietRow, QuietKeys DEF OpenEditor, upstream, history
<1>5. EditStep(e, next)
  BY <1>1
<1> HIDE DEF next
<1> QED BY <1>2, <1>3, <1>4, <1>5, EditorStep

(* The map a save stores names a queue only if the row did. *)
LEMMA ReconcileFacts ==
    ASSUME NEW m \in Meta, NEW kid \in OptKey, NEW keep \in BOOLEAN
    PROVE  /\ reconcileProviderMetaForStorage(m, kid, keep) \in Meta
           /\ reconcileProviderMetaForStorage(m, kid, keep).keyID = kid
           /\ outstandingRevokeKeyIDs(reconcileProviderMetaForStorage(m, kid, keep))
                \subseteq outstandingRevokeKeyIDs(m)
<1>1. CASE keep
  BY <1>1, KeyIDFacts DEF reconcileProviderMetaForStorage
<1>2. CASE ~keep
  BY <1>2, KeyIDFacts, NoMetaFacts DEF reconcileProviderMetaForStorage
<1> QED BY <1>1, <1>2

(* What the transaction of an editor does, whatever was edited. *)
LEMMA CommitFacts ==
    ASSUME Inv, NEW e \in Editors, NEW p \in Provider, NEW v \in Key, NEW kid \in OptKey,
           NEW sent \in BOOLEAN, NEW touched \in BOOLEAN, Commit(e, p, v, kid, sent, touched)
    PROVE  /\ row' \in Row
           /\ row'.value = v
           /\ row'.meta \in Meta
           /\ row'.meta.keyID = kid
           /\ outstandingRevokeKeyIDs(row'.meta) \subseteq outstandingRevokeKeyIDs(row.meta)
           /\ disclosed' \subseteq Key
           /\ metaTok' \subseteq metaTok \cup {e}
           /\ UNCHANGED <<rot, retry>>
           /\ \E r \in EditState : EditStep(e, r) /\ r.kid = NoKey
<1> DEFINE meta == reconcileProviderMetaForStorage(row.meta, kid, p = row.provider)
           discarded == IF p # row.provider /\ row.meta.head # NoKey
                          THEN outstandingRevokeKeyIDs(row.meta) ELSE {}
           next(pc) == [pc |-> pc, kid |-> NoKey, from |-> row.err, discarded |-> discarded]
<1>1. (p = row.provider) \in BOOLEAN
  OBVIOUS
<1>2. /\ meta \in Meta /\ meta.keyID = kid
      /\ outstandingRevokeKeyIDs(meta) \subseteq outstandingRevokeKeyIDs(row.meta)
  BY <1>1, InvFacts, ReconcileFacts
<1>3. discarded \in SUBSET Key
  BY InvFacts, NamedKeys
<1>4. /\ row' = [row EXCEPT !.provider = p, !.value = v, !.meta = meta]
      /\ metaTok' \subseteq metaTok \cup {e}
      /\ disclosed' = disclosed \cup discarded \cup ({row.value} \ {v})
      /\ UNCHANGED <<rot, retry>>
      /\ \/ EditStep(e, next("clear_meta"))
         \/ EditStep(e, next("recheck"))
         \/ EditStep(e, IdleEdit)
  BY DEF Commit
<1> HIDE DEF meta, discarded
<1>5. row' \in Row /\ row'.value = v /\ row'.meta = meta
  BY <1>2, <1>4, InvFacts DEF Row
<1>6. \A pc \in {"clear_meta", "recheck"} : next(pc) \in EditState /\ next(pc).kid = NoKey
  BY <1>3, InvFacts DEF EditState, OptKey
<1>7. IdleEdit \in EditState /\ IdleEdit.kid = NoKey
  BY IdleFacts DEF IdleEdit
<1>8. disclosed' \subseteq Key
  BY <1>3, <1>4, InvFacts
<1> HIDE DEF next
<1>9. \E r \in EditState : EditStep(e, r) /\ r.kid = NoKey
  BY <1>4, <1>6, <1>7
<1> QED BY <1>2, <1>4, <1>5, <1>8, <1>9

(* A save that leaves the value alone. *)
LEMMA SaveInv ==
    ASSUME Inv, NEW e \in Editors, NEW p \in Provider, NEW kid \in former \cup {NoKey},
           NEW sent \in BOOLEAN, NEW touched \in BOOLEAN,
           Commit(e, p, row.value, kid, sent, touched),
           UNCHANGED <<upstream, former, managed>>
    PROVE  Inv'
<1>1. kid \in OptKey /\ row.value \in Key
  BY InvFacts DEF OptKey
<1>2. /\ row' \in Row
      /\ row'.value = row.value
      /\ row'.meta \in Meta
      /\ row'.meta.keyID = kid
      /\ outstandingRevokeKeyIDs(row'.meta) \subseteq outstandingRevokeKeyIDs(row.meta)
      /\ disclosed' \subseteq Key
      /\ metaTok' \subseteq metaTok \cup {e}
      /\ UNCHANGED <<rot, retry>>
      /\ \E r \in EditState : EditStep(e, r) /\ r.kid = NoKey
  BY <1>1, CommitFacts
<1>3. CopySafe(row'.meta, row.value, former)
  BY <1>2, InvFacts DEF CopySafe
<1>4. RowKept /\ KeysKept
  BY <1>2, <1>3, InvFacts, QuietKeys DEF RowKept, upstream
<1> QED BY <1>2, <1>4, EditorStep

LEMMA SaveConfigInv ==
    ASSUME Inv, NEW e \in Editors, SaveConfig(e)
    PROVE  Inv'
  BY InvFacts, SaveInv DEF SaveConfig

LEMMA ChangeProviderInv ==
    ASSUME Inv, NEW e \in Editors, ChangeProvider(e)
    PROVE  Inv'
<1>1. row.meta.keyID \in former \cup {NoKey}
  BY InvFacts DEF CopySafe
<1> QED BY <1>1, SaveInv DEF ChangeProvider

(* The one step of an editor that replaces the value, with a key nobody has *)
(* seen before.                                                             *)
LEMMA PasteCredentialInv ==
    ASSUME Inv, NEW e \in Editors, PasteCredential(e)
    PROVE  Inv'
<1>1. PICK k \in Key \ minted, tracked \in BOOLEAN :
        /\ minted' = minted \cup {k}
        /\ live' = live \cup {k}
        /\ former' = former \cup {k}
        /\ managed' = IF tracked THEN managed \cup {k} ELSE managed
        /\ Commit(e, HomeOf[k], k, IF tracked THEN k ELSE row.meta.keyID, tracked, FALSE)
  BY DEF PasteCredential
<1> DEFINE kid == IF tracked THEN k ELSE row.meta.keyID
<1>2. kid \in OptKey /\ kid \in former' \cup {NoKey} /\ HomeOf[k] \in Provider /\ k \notin former
  BY <1>1, InvFacts, NamedKeys, RotationAssumption DEF CopySafe, OptKey
<1>3. PICK touched \in BOOLEAN : Commit(e, HomeOf[k], k, kid, tracked, touched)
  BY <1>1
<1> DEFINE p == HomeOf[k]
<1> HIDE DEF kid, p
<1>4. /\ row' \in Row
      /\ row'.value = k
      /\ row'.meta \in Meta
      /\ row'.meta.keyID = kid
      /\ outstandingRevokeKeyIDs(row'.meta) \subseteq outstandingRevokeKeyIDs(row.meta)
      /\ disclosed' \subseteq Key
      /\ metaTok' \subseteq metaTok \cup {e}
      /\ UNCHANGED <<rot, retry>>
      /\ \E r \in EditState : EditStep(e, r) /\ r.kid = NoKey
  <2>1. p \in Provider /\ k \in Key /\ Commit(e, p, k, kid, tracked, touched)
    BY <1>2, <1>3 DEF p
  <2> QED BY <1>2, <2>1, CommitFacts
<1>5. PICK r \in EditState : EditStep(e, r) /\ r.kid = NoKey
  BY <1>4
<1>6. edit' \in [Editors -> EditState] /\ edit'[e] = r
      /\ \A u \in Editors \ {e} : edit'[u] = edit[u]
  BY <1>5 DEF EditStep, Inv, TypeOK
<1>7. TypeOK'
  BY <1>1, <1>4, <1>6 DEF Inv, TypeOK
<1>8. /\ row'.value \in live' \cap former'
      /\ former' \subseteq minted'
      /\ live' \subseteq minted'
  BY <1>1, <1>4, InvFacts
<1>9. CopySafe(row'.meta, row'.value, former')
  BY <1>1, <1>2, <1>4, InvFacts DEF CopySafe
<1>10. ASSUME NEW x \in Rotators
       PROVE  PassSafe(rot'[x], row'.value, former', live')
  <2>1. rot[x] \in RotState /\ rot'[x] = rot[x] /\ PassSafe(rot[x], row.value, former, live)
    BY <1>4, InvFacts
  <2>2. rot[x].pc = "store" => rot[x].new \notin former'
    BY <1>1, <2>1, InvFacts DEF PassSafe
  <2> QED BY <1>1, <1>2, <1>4, <2>1, <2>2, PassStaysSafe
<1>11. SuccessorsDiffer'
  BY <1>4 DEF Inv, Safe, SuccessorsDiffer
<1>12. \A t \in Retriers : RequestSafe(retry'[t], row'.value, former')
  BY <1>1, <1>2, <1>4, InvFacts, RequestStaysSafe
<1>13. \A u \in Editors : edit'[u].kid \in former' \cup {NoKey}
  BY <1>1, <1>5, <1>6, InvFacts
<1> QED BY <1>7, <1>8, <1>9, <1>10, <1>11, <1>12, <1>13 DEF Inv, Safe

LEMMA ClearMetaWriteInv ==
    ASSUME Inv, NEW e \in Editors, ClearMetaWrite(e)
    PROVE  Inv'
<1> DEFINE r == edit[e]
           next(from) == [r EXCEPT !.pc = "recheck", !.from = from]
<1>1. /\ r \in EditState /\ r.from \in RotationError /\ r.kid \in former \cup {NoKey}
      /\ withoutMetaWriteClauses(r.from) \in RotationError
  BY InvFacts DEF EditState, RotationError, withoutMetaWriteClauses, MetaClause
<1>2. \/ UNCHANGED row
      \/ \E x \in RotationError : row' = [row EXCEPT !.err = x]
  BY <1>1 DEF ClearMetaWrite
<1>3. RowKept /\ KeysKept /\ UNCHANGED <<rot, retry>>
  BY <1>2, InvFacts, QuietRow, QuietKeys DEF ClearMetaWrite, upstream, history
<1>4. \/ EditStep(e, IdleEdit)
      \/ \E from \in RotationError : EditStep(e, next(from))
  BY <1>1 DEF ClearMetaWrite
<1>5. ASSUME NEW from \in RotationError
      PROVE  next(from) \in EditState /\ next(from).kid = r.kid
  BY <1>1 DEF EditState
<1> HIDE DEF next
<1> QED BY <1>1, <1>3, <1>4, <1>5, EditorStep, EditorEnds

LEMMA EditRecheckInv ==
    ASSUME Inv, NEW e \in Editors, EditRecheck(e)
    PROVE  Inv'
<1> DEFINE next == [edit[e] EXCEPT !.pc = "clear_revoke"]
<1>1. next \in EditState /\ next.kid \in former \cup {NoKey}
  BY InvFacts DEF EditState
<1>2. RowKept /\ KeysKept /\ UNCHANGED <<rot, retry>>
  BY InvFacts, QuietRow, QuietKeys DEF EditRecheck, upstream, history
<1>3. EditStep(e, next) \/ EditStep(e, IdleEdit)
  BY DEF EditRecheck
<1> HIDE DEF next
<1> QED BY <1>1, <1>2, <1>3, EditorStep, EditorEnds

LEMMA EditClearInv ==
    ASSUME Inv, NEW e \in Editors, EditClear(e)
    PROVE  Inv'
<1> DEFINE r == edit[e]
<1>1. withoutRevokeStillLiveKeys(row.err, r.discarded) \in RotationError
  BY InvFacts DEF withoutRevokeStillLiveKeys, RotationError
<1>2. \/ UNCHANGED row
      \/ \E x \in RotationError : row' = [row EXCEPT !.err = x]
  BY <1>1 DEF EditClear, clearRevokeHalfOfRotationError
<1>3. RowKept /\ KeysKept /\ UNCHANGED <<rot, retry>>
  BY <1>2, InvFacts, QuietRow, QuietKeys DEF EditClear, upstream, history
<1> QED BY <1>3, EditorEnds DEF EditClear

LEMMA CrashInv ==
    ASSUME Inv, Crash
    PROVE  Inv'
<1>1. TypeOK'
  BY IdleFacts DEF Crash, Inv, TypeOK, upstream, history
<1>2. /\ \A w \in Rotators : rot'[w] = IdleRot
      /\ \A t \in Retriers : retry'[t] = IdleRetry
      /\ \A e \in Editors : edit'[e] = IdleEdit
      /\ UNCHANGED <<row, live, minted, former>>
  BY DEF Crash, upstream, history
<1>3. /\ IdleRot.pc = "idle" /\ IdleRetry.pc = "idle" /\ IdleEdit.kid = NoKey
  BY DEF IdleRot, IdleRetry, IdleEdit
<1>4. \A w \in Rotators : PassSafe(rot'[w], row'.value, former', live')
  BY <1>2, <1>3 DEF PassSafe
<1>5. \A t \in Retriers : RequestSafe(retry'[t], row'.value, former')
  BY <1>2, <1>3 DEF RequestSafe
<1> QED BY <1>1, <1>2, <1>3, <1>4, <1>5 DEF Inv, Safe, SuccessorsDiffer

----------------------------------------------------------------------------
(* The invariant holds of every behaviour. *)

LEMMA InitInv ==
    ASSUME Init
    PROVE  Inv
<1>1. PICK k \in Key, tracked \in BOOLEAN :
        /\ row = [value |-> k, provider |-> HomeOf[k], err |-> Clean,
                  meta |-> [NoMeta EXCEPT !.keyID = IF tracked THEN k ELSE NoKey]]
        /\ live = {k}
        /\ minted = {k}
        /\ former = {k}
        /\ managed = IF tracked THEN {k} ELSE {}
        /\ disclosed = {}
        /\ rot = [w \in Rotators |-> IdleRot]
        /\ retry = [t \in Retriers |-> IdleRetry]
        /\ edit = [e \in Editors |-> IdleEdit]
        /\ metaTok = {}
  BY DEF Init
<1> DEFINE kid == IF tracked THEN k ELSE NoKey
           meta == [NoMeta EXCEPT !.keyID = kid]
<1>2. kid \in OptKey /\ kid \in {k, NoKey}
  BY DEF OptKey
<1>3. row = [value |-> k, provider |-> HomeOf[k], err |-> Clean, meta |-> meta]
  BY <1>1
<1> HIDE DEF kid
<1>4. meta \in Meta /\ meta.keyID = kid /\ outstandingRevokeKeyIDs(meta) = {}
  BY <1>2, NoMetaFacts, KeyIDFacts
<1> HIDE DEF meta
<1>5. row \in Row /\ row.value = k /\ row.meta = meta
  BY <1>3, <1>4, FailureFacts, RotationAssumption DEF Row
<1>6. TypeOK
  BY <1>1, <1>5, IdleFacts DEF TypeOK
<1>7. CopySafe(row.meta, row.value, former)
  BY <1>1, <1>2, <1>4, <1>5 DEF CopySafe
<1>8. /\ IdleRot.pc = "idle" /\ IdleRetry.pc = "idle" /\ IdleEdit.kid = NoKey
  BY DEF IdleRot, IdleRetry, IdleEdit
<1>9. /\ \A w \in Rotators : rot[w] = IdleRot
      /\ \A t \in Retriers : retry[t] = IdleRetry
      /\ \A e \in Editors : edit[e] = IdleEdit
  BY <1>1
<1>10. \A w \in Rotators : PassSafe(rot[w], row.value, former, live)
  BY <1>8, <1>9 DEF PassSafe
<1>11. \A t \in Retriers : RequestSafe(retry[t], row.value, former)
  BY <1>8, <1>9 DEF RequestSafe
<1> QED BY <1>1, <1>5, <1>6, <1>7, <1>8, <1>9, <1>10, <1>11
        DEF Inv, Safe, SuccessorsDiffer

LEMMA NextInv ==
    ASSUME Inv, [Next]_vars
    PROVE  Inv'
<1>1. ASSUME NEW w \in Rotators, Snapshot(w) \/ RotateStep(w) \/ Panic(w)
      PROVE  Inv'
  BY <1>1, SnapshotInv, RefuseSpendInv, retryOutstandingRevokeInv, MintInv, MintFailsInv,
     GenerateInv, EncryptFailsInv, persistRotatedValueInv, RevokeOldInv, ReadBackInv,
     WriteBackInv, RecordersInv, PanicInv
     DEF RotateStep
<1>2. ASSUME NEW t \in Retriers, RetrySnapshot(t) \/ RetryProgress(t)
      PROVE  Inv'
  BY <1>2, RetrySnapshotInv, RetryCallInv, RetryCASInv, RetryRefetchInv, RetryRecheckInv,
     RetryClearInv
     DEF RetryProgress
<1>3. CASE ResolvePendingRevoke
  BY <1>3, ResolveInv
<1>4. ASSUME NEW e \in Editors,
             \/ OpenEditor(e) \/ SaveConfig(e) \/ ChangeProvider(e) \/ PasteCredential(e)
             \/ ClearMetaWrite(e) \/ EditRecheck(e) \/ EditClear(e)
      PROVE  Inv'
  BY <1>4, OpenEditorInv, SaveConfigInv, ChangeProviderInv, PasteCredentialInv,
     ClearMetaWriteInv, EditRecheckInv, EditClearInv
<1>5. CASE Crash
  BY <1>5, CrashInv
<1>6. CASE UNCHANGED vars
  <2>1. UNCHANGED <<row, live, minted, rot, retry, edit, metaTok, former, managed, disclosed>>
    BY <1>6 DEF vars
  <2> QED BY <2>1 DEF Inv, TypeOK, Safe, SuccessorsDiffer
<1> QED BY <1>1, <1>2, <1>3, <1>4, <1>5, <1>6 DEF Next

(* Inv is an invariant of the specification. *)
THEOREM Invariance == Spec => []Inv
<1>1. Init => Inv
  BY InitInv
<1>2. Inv /\ [Next]_vars => Inv'
  BY NextInv
<1> QED BY <1>1, <1>2, PTL DEF Spec

(* The row, the handlers in flight and the histories keep their types: in   *)
(* particular a retry request never makes more compare-and-swap attempts    *)
(* than rotationLogCASAttempts.                                             *)
THEOREM TypeCorrect == Spec => []TypeOK
<1>1. Inv => TypeOK
  BY DEF Inv
<1> QED BY <1>1, Invariance, PTL

(* However many rotations, retries and editors overlap, with whatever       *)
(* faults, the stored credential authenticates.                             *)
THEOREM StoredCredentialIsLive == Spec => []CredentialInUseIsLive
<1>1. Inv => CredentialInUseIsLive
  BY DEF Inv, Safe, CredentialInUseIsLive
<1> QED BY <1>1, Invariance, PTL

(* The revoke queue of the row never leads anybody to the credential in use *)
(* or to a key that was never stored.                                       *)
THEOREM QueueIsSafe == Spec => []QueueNamesOnlyDisplacedKeys
<1>1. Inv => QueueNamesOnlyDisplacedKeys
  BY DEF Inv, Safe, CopySafe, QueueNamesOnlyDisplacedKeys
<1> QED BY <1>1, Invariance, PTL

----------------------------------------------------------------------------
(* Rotation implements Credential: the initial states map to initial        *)
(* states, and under Inv every step of a handler issues a key, adopts one   *)
(* that was never in use, retires one that was replaced, or changes none of *)
(* value, live and former.                                                  *)

Quiet == row'.value = row.value /\ live' = live /\ former' = former

Issues == \E k \in Key \ former : /\ live' = live \cup {k}
                                  /\ row'.value = row.value
                                  /\ former' = former

Adopts == \E k \in Key \ former : /\ live' = live \cup {k}
                                  /\ row'.value = k
                                  /\ former' = former \cup {k}

Retires == \E k \in former \ {row.value} : /\ live' = live \ {k}
                                           /\ row'.value = row.value
                                           /\ former' = former

CredentialStep == Quiet \/ Issues \/ Adopts \/ Retires

(* The row keeps its value when another of its columns is written. *)
LEMMA SameValue ==
    ASSUME Inv
    PROVE  /\ \A e : row' = [row EXCEPT !.err = e] => row'.value = row.value
           /\ \A m : row' = [row EXCEPT !.meta = m] => row'.value = row.value
           /\ \A m, e : row' = [row EXCEPT !.meta = m, !.err = e] => row'.value = row.value
  BY InvFacts DEF Row

(* One attempt at the head of a safe copy retires a displaced key. *)
LEMMA RevokeRetires ==
    ASSUME Inv, NEW m \in Meta, CopySafe(m, row.value, former),
           NEW p, NEW v, NEW ok \in BOOLEAN, performPendingRevoke(p, m, v, ok),
           row' = row, former' = former
    PROVE  Quiet \/ Retires
<1>1. live' \in {live, live \ {m.head}}
  BY DEF performPendingRevoke
<1>2. CASE m.head = NoKey
  <2>1. NoKey \notin live
    BY InvFacts, QueueAssumption
  <2> QED BY <1>1, <1>2, <2>1 DEF Quiet
<1>3. CASE m.head # NoKey
  <2>1. m.head \in former \ {row.value}
    BY <1>3, NamedKeys DEF CopySafe
  <2> QED BY <1>1, <2>1 DEF Quiet, Retires
<1> QED BY <1>2, <1>3

(* A fresh key is issued. *)
LEMMA FreshIssues ==
    ASSUME Inv, NEW p, NEW k \in Fresh(p), live' = live \cup {k}, row' = row, former' = former
    PROVE  Issues
  BY InvFacts DEF Fresh, Issues

LEMMA PassImplements ==
    ASSUME Inv, NEW w \in Rotators, Snapshot(w) \/ RotateStep(w) \/ Panic(w)
    PROVE  CredentialStep
<1> DEFINE r == rot[w]
<1>0. r.m \in Meta /\ PassSafe(r, row.value, former, live)
  BY InvFacts
<1>1. CASE Snapshot(w) \/ RefuseSpend(w) \/ EncryptFails(w) \/ Panic(w) \/ ReadBack(w)
  BY <1>1 DEF Snapshot, RefuseSpend, EncryptFails, Panic, ReadBack, upstream, history,
              CredentialStep, Quiet
<1>2. CASE retryOutstandingRevoke(w)
  <2>1. CopySafe(r.m, row.value, former)
    BY <1>0, <1>2 DEF PassSafe, retryOutstandingRevoke
  <2> QED BY <1>0, <1>2, <2>1, RevokeRetires
          DEF retryOutstandingRevoke, history, CredentialStep, Quiet
<1>3. CASE RevokeOld(w)
  <2>1. CopySafe(r.m, row.value, former)
    BY <1>0, <1>3 DEF PassSafe, RevokeOld
  <2> QED BY <1>0, <1>3, <2>1, RevokeRetires
          DEF RevokeOld, history, CredentialStep, Quiet
<1>4. CASE Mint(w)
  BY <1>4, FreshIssues DEF Mint, CredentialStep
<1>5. CASE MintFails(w)
  BY <1>5, FreshIssues DEF MintFails, upstream, history, CredentialStep, Quiet
<1>6. CASE Generate(w)
  BY <1>6, FreshIssues DEF Generate, history, CredentialStep
<1>7. CASE persistRotatedValue(w)
  <2>1. CASE row' = [row EXCEPT !.value = r.new] /\ former' = former \cup {r.new}
    <3>1. r.new \in live \ former /\ r.new \in Key
      BY <1>0, <1>7, InvFacts DEF PassSafe, persistRotatedValue
    <3>2. row'.value = r.new
      BY <2>1, InvFacts DEF Row
    <3> QED BY <1>7, <2>1, <3>1, <3>2
            DEF persistRotatedValue, upstream, CredentialStep, Adopts
  <2>2. CASE UNCHANGED <<row, former>>
    BY <1>7, <2>2 DEF persistRotatedValue, upstream, CredentialStep, Quiet
  <2> QED BY <1>7, <2>1, <2>2 DEF persistRotatedValue
<1>8. CASE WriteBack(w)
  BY <1>8, SameValue DEF WriteBack, upstream, history, CredentialStep, Quiet
<1>9. CASE \/ recordRotationOutcome(w)
           \/ recordRotationOutcomeUndeliverable(w)
           \/ recordRotationFailure(w)
  <2>1. row'.value = row.value
    BY <1>9, SameValue
       DEF recordRotationOutcome, recordRotationOutcomeUndeliverable, recordRotationFailure,
           RecordError
  <2> QED BY <1>9, <2>1
          DEF recordRotationOutcome, recordRotationOutcomeUndeliverable, recordRotationFailure,
              upstream, CredentialStep, Quiet
<1> QED BY <1>1, <1>2, <1>3, <1>4, <1>5, <1>6, <1>7, <1>8, <1>9 DEF RotateStep

LEMMA RequestImplements ==
    ASSUME Inv, NEW t \in Retriers, RetrySnapshot(t) \/ RetryProgress(t)
    PROVE  CredentialStep
<1> DEFINE r == retry[t]
<1>1. CASE RetrySnapshot(t) \/ RetryRefetch(t) \/ RetryRecheck(t)
  BY <1>1 DEF RetrySnapshot, RetryRefetch, RetryRecheck, upstream, history,
              CredentialStep, Quiet
<1>2. CASE RetryCall(t)
  <2>1. r.m \in Meta /\ CopySafe(r.m, row.value, former)
    BY <1>2, InvFacts DEF RetryCall, RequestSafe
  <2> QED BY <1>2, <2>1, RevokeRetires DEF RetryCall, history, CredentialStep
<1>3. CASE RetryCAS(t)
  BY <1>3, SameValue DEF RetryCAS, upstream, history, CredentialStep, Quiet
<1>4. CASE RetryClear(t)
  BY <1>4, SameValue DEF RetryClear, clearRevokeHalfOfRotationError, upstream, history,
                         CredentialStep, Quiet
<1> QED BY <1>1, <1>2, <1>3, <1>4 DEF RetryProgress

LEMMA EditorImplements ==
    ASSUME Inv, NEW e \in Editors,
           \/ OpenEditor(e) \/ SaveConfig(e) \/ ChangeProvider(e) \/ PasteCredential(e)
           \/ ClearMetaWrite(e) \/ EditRecheck(e) \/ EditClear(e)
    PROVE  CredentialStep
<1>0. \A p, v, m : row' = [row EXCEPT !.provider = p, !.value = v, !.meta = m] => row'.value = v
  BY InvFacts DEF Row
<1>1. ASSUME NEW p, NEW v, NEW kid, NEW sent, NEW touched, Commit(e, p, v, kid, sent, touched)
      PROVE  row'.value = v
  <2> DEFINE meta == reconcileProviderMetaForStorage(row.meta, kid, p = row.provider)
  <2>1. row' = [row EXCEPT !.provider = p, !.value = v, !.meta = meta]
    BY <1>1 DEF Commit
  <2> HIDE DEF meta
  <2> QED BY <1>0, <2>1
<1>2. CASE OpenEditor(e) \/ EditRecheck(e)
  BY <1>2 DEF OpenEditor, EditRecheck, upstream, history, CredentialStep, Quiet
<1>3. CASE SaveConfig(e) \/ ChangeProvider(e)
  BY <1>1, <1>3 DEF SaveConfig, ChangeProvider, upstream, CredentialStep, Quiet
<1>4. CASE PasteCredential(e)
  BY <1>1, <1>4, InvFacts DEF PasteCredential, CredentialStep, Adopts
<1>5. CASE ClearMetaWrite(e) \/ EditClear(e)
  <2>1. row'.value = row.value
    BY <1>5, SameValue DEF ClearMetaWrite, EditClear, clearRevokeHalfOfRotationError
  <2> QED BY <1>5, <2>1 DEF ClearMetaWrite, EditClear, upstream, history, CredentialStep, Quiet
<1> QED BY <1>2, <1>3, <1>4, <1>5

LEMMA NextImplements ==
    ASSUME Inv, [Next]_vars
    PROVE  CredentialStep
<1>1. CASE ResolvePendingRevoke
  BY <1>1, SameValue DEF ResolvePendingRevoke, upstream, CredentialStep, Quiet
<1>2. CASE Crash
  BY <1>2 DEF Crash, upstream, history, CredentialStep, Quiet
<1>3. CASE UNCHANGED vars
  BY <1>3 DEF vars, CredentialStep, Quiet
<1> QED BY <1>1, <1>2, <1>3, PassImplements, RequestImplements, EditorImplements DEF Next

(* A step of the concrete system is one of the abstract credential. *)
LEMMA CredentialStepRefines ==
    ASSUME Inv, CredentialStep
    PROVE  [Cred!Next]_(Cred!vars)
<1>1. former \subseteq Key
  BY InvFacts
<1>2. CASE Quiet
  BY <1>2 DEF Quiet, Cred!vars
<1>3. CASE Issues
  BY <1>3 DEF Issues, Cred!Next, Cred!Issue
<1>4. CASE Adopts
  BY <1>4 DEF Adopts, Cred!Next, Cred!Adopt
<1>5. CASE Retires
  BY <1>1, <1>5 DEF Retires, Cred!Next, Cred!Retire
<1> QED BY <1>2, <1>3, <1>4, <1>5 DEF CredentialStep

(* The entry implements the abstract credential, however many rotations,    *)
(* retries and editors overlap and whatever fails: the stored value is only *)
(* ever replaced by a key that was never stored, and the only keys this     *)
(* code kills are ones that were stored and have been replaced.             *)
THEOREM Refinement == Spec => ImplementsCredential
<1>1. Init => Cred!Init
  BY DEF Init, Cred!Init
<1>2. Inv /\ [Next]_vars => [Cred!Next]_(Cred!vars)
  BY NextImplements, CredentialStepRefines
<1> QED BY <1>1, <1>2, Invariance, PTL DEF Spec, ImplementsCredential, Cred!Spec

----------------------------------------------------------------------------
(* What holds where one rotation is in flight at a time, while requests     *)
(* retry, operators acknowledge and edit, and whatever may fail.            *)

OneRotator == \E w : Rotators = {w}

(* A queue without a head is empty: setStrandedRevokes promotes. *)
Compact(m) == m.head = NoKey => m.backlog = << >>

(* m2 names every key of m that is live (l) and not disclosed (d). *)
Carries(m2, m, l, d) ==
    (outstandingRevokeKeyIDs(m) \cap l) \ d \subseteq outstandingRevokeKeyIDs(m2)

(* deferRevokeOldProviderKey loses no key, and drops none silently. *)
LEMMA DeferKeeps ==
    ASSUME NEW m \in Meta, NEW k \in Key
    PROVE  /\ outstandingRevokeKeyIDs(m)
                \subseteq outstandingRevokeKeyIDs(deferRevokeOldProviderKey(m, k))
           /\ Refused(m, k) \/ k \in outstandingRevokeKeyIDs(deferRevokeOldProviderKey(m, k))
           /\ Compact(m) => Compact(deferRevokeOldProviderKey(m, k))
<1> DEFINE b == pushDisplacedHeadOntoBacklog(m, k)
           d == [m EXCEPT !.head = k, !.backlog = b]
<1>1. m.head \in OptKey /\ m.backlog \in Seq(Key) /\ k # NoKey
  BY QueueAssumption DEF Meta
<1>2. CASE Refused(m, k)
  BY <1>2 DEF deferRevokeOldProviderKey
<1>3. CASE ~Refused(m, k)
  <2>1. deferRevokeOldProviderKey(m, k) = d
    BY <1>3 DEF deferRevokeOldProviderKey
  <2>2. d.head = k /\ d.backlog = b
    BY DEF Meta
  <2>3. Backlogged(m) \subseteq {b[i] : i \in DOMAIN b}
        /\ (m.head \notin {NoKey, k} => m.head \in {b[i] : i \in DOMAIN b})
    <3>1. CASE HeadMoves(m, k)
      <4>1. m.head \in Key /\ b = Append(m.backlog, m.head)
        BY <1>1, <3>1 DEF HeadMoves, OptKey, pushDisplacedHeadOntoBacklog
      <4>2. /\ DOMAIN b = 1 .. Len(m.backlog) + 1
            /\ \A i \in 1 .. Len(m.backlog) : b[i] = m.backlog[i]
            /\ b[Len(m.backlog) + 1] = m.head
            /\ DOMAIN m.backlog = 1 .. Len(m.backlog)
            /\ Len(m.backlog) \in Nat
        BY <1>1, <4>1
      <4> QED BY <4>2 DEF Backlogged
    <3>2. CASE ~HeadMoves(m, k)
      BY <3>2 DEF HeadMoves, pushDisplacedHeadOntoBacklog, Backlogged
    <3> QED BY <3>1, <3>2
  <2>4. k \in outstandingRevokeKeyIDs(d) /\ Compact(d)
    BY <1>1, <2>2 DEF outstandingRevokeKeyIDs, Compact
  <2>5. outstandingRevokeKeyIDs(m) \subseteq outstandingRevokeKeyIDs(d)
    BY <1>1, <2>2, <2>3, <2>4 DEF outstandingRevokeKeyIDs, Backlogged
  <2> QED BY <2>1, <2>4, <2>5
<1> QED BY <1>2, <1>3

(* dischargePendingRevokeHead loses the head and no other key. *)
LEMMA DischargeKeeps ==
    ASSUME NEW m \in Meta
    PROVE  /\ outstandingRevokeKeyIDs(m)
                \subseteq outstandingRevokeKeyIDs(dischargePendingRevokeHead(m)) \cup {m.head}
           /\ Compact(m) => Compact(dischargePendingRevokeHead(m))
<1>1. m.head \in OptKey /\ m.backlog \in Seq(Key)
  BY DEF Meta
<1>2. CASE m.backlog = << >>
  <2>1. /\ dischargePendingRevokeHead(m) = [m EXCEPT !.head = NoKey]
        /\ [m EXCEPT !.head = NoKey].backlog = m.backlog
    BY <1>2 DEF dischargePendingRevokeHead, Meta
  <2> QED BY <1>2, <2>1 DEF outstandingRevokeKeyIDs, Backlogged, Compact
<1>3. CASE m.backlog # << >>
  <2> DEFINE h == Head(m.backlog)
             b == Tail(m.backlog)
             d == [m EXCEPT !.head = h, !.backlog = b]
  <2>1. dischargePendingRevokeHead(m) = d /\ d.head = h /\ d.backlog = b
    BY <1>3 DEF dischargePendingRevokeHead, Meta
  <2>2. h \in Key /\ h # NoKey /\ h = m.backlog[1]
    BY <1>1, <1>3, QueueAssumption
  <2>3. \A i \in DOMAIN m.backlog : i = 1 \/ (i - 1 \in DOMAIN b /\ b[i - 1] = m.backlog[i])
    BY <1>1, <1>3
  <2>4. Backlogged(m) \subseteq {h} \cup {b[i] : i \in DOMAIN b}
    BY <2>2, <2>3 DEF Backlogged
  <2> HIDE DEF h, b
  <2> QED BY <2>1, <2>2, <2>4 DEF outstandingRevokeKeyIDs, Backlogged, Compact
<1> QED BY <1>2, <1>3

(* A map with another key id is as compact, and so is the empty map. *)
LEMMA KeyIDCompact ==
    /\ \A m \in Meta : \A k : Compact(m) => Compact([m EXCEPT !.keyID = k])
    /\ Compact(NoMeta)
  BY DEF Meta, Compact, NoMeta

(* One attempt at the head loses a key only if the key is dead. *)
LEMMA RevokeKeeps ==
    ASSUME NEW m \in Meta, Compact(m),
           NEW p, NEW v, NEW ok \in BOOLEAN, performPendingRevoke(p, m, v, ok)
    PROVE  /\ live' \subseteq live
           /\ ok => m.head \notin live'
           /\ AfterRevoke(m, ok) \in Meta
           /\ AfterRevoke(m, ok).keyID = m.keyID
           /\ Compact(AfterRevoke(m, ok))
           /\ \A d : Carries(AfterRevoke(m, ok), m, live', d)
           /\ outstandingRevokeKeyIDs(AfterRevoke(m, ok)) \subseteq outstandingRevokeKeyIDs(m)
<1>1. live' \in {live, live \ {m.head}} /\ (ok => m.head \notin live')
  BY DEF performPendingRevoke
<1>2. CASE ok
  BY <1>1, <1>2, DischargeFacts, DischargeKeeps DEF AfterRevoke, Carries
<1>3. CASE ~ok
  BY <1>1, <1>3 DEF AfterRevoke, Carries
<1> QED BY <1>2, <1>3

----------------------------------------------------------------------------
(* What a step of a pass leaves of it. *)

SamePass(r, s) ==
    /\ s.prov = r.prov
    /\ s.old = r.old
    /\ s.new = r.new
    /\ s.refused = r.refused
    /\ s.reason = r.reason

LEMMA StepFacts ==
    ASSUME Inv, NEW w \in Rotators, NEW s, Step(w, s)
    PROVE  rot'[w] = s /\ \A x \in Rotators : x # w => rot'[x] = rot[x]
  BY DEF Inv, TypeOK, Step

LEMMA SnapshotEffect ==
    ASSUME Inv, NEW w \in Rotators, Snapshot(w)
    PROVE  /\ rot[w].pc = "idle"
           /\ rot'[w].pc \in {"fail", "retry", "generate"}
           /\ rot'[w].prov = row.provider
           /\ rot'[w].old = row.value
           /\ rot'[w].new = NoKey
           /\ rot'[w].m = row.meta
           /\ rot'[w].refused = NoKey
           /\ rot'[w].clause = ""
           /\ rot'[w].warn = FALSE
           /\ rot'[w].pc = "fail" => rot'[w].reason # ""
           /\ rot'[w].pc = "retry" => RoleOf[row.provider] = "auto"
           /\ rot'[w].pc = "generate" => RoleOf[row.provider] = "none"
           /\ UNCHANGED <<row, live, minted, retry, edit, metaTok, former, managed, disclosed>>
<1> DEFINE seen == [IdleRot EXCEPT !.prov = row.provider, !.old = row.value, !.m = row.meta]
           refuse(reason) == [seen EXCEPT !.pc = "fail", !.reason = reason]
           begin(pc) == [seen EXCEPT !.pc = pc]
<1>1. /\ rot[w].pc = "idle"
      /\ UNCHANGED <<row, live, minted, retry, edit, metaTok, former, managed, disclosed>>
  BY DEF Snapshot, upstream, history
<1>2. \/ \E reason \in {"unknown_provider", "destroys_in_place", "decrypt"} : Step(w, refuse(reason))
      \/ RoleOf[row.provider] = "auto" /\ Step(w, begin("retry"))
      \/ RoleOf[row.provider] = "none" /\ Step(w, begin("generate"))
  BY DEF Snapshot
<1>3. \A reason :
        /\ refuse(reason).pc = "fail" /\ refuse(reason).reason = reason
        /\ refuse(reason).prov = row.provider /\ refuse(reason).old = row.value
        /\ refuse(reason).new = NoKey /\ refuse(reason).m = row.meta
        /\ refuse(reason).refused = NoKey /\ refuse(reason).clause = ""
        /\ refuse(reason).warn = FALSE
  BY DEF IdleRot
<1>4. \A pc \in {"retry", "generate"} :
        /\ begin(pc).pc = pc
        /\ begin(pc).prov = row.provider /\ begin(pc).old = row.value
        /\ begin(pc).new = NoKey /\ begin(pc).m = row.meta
        /\ begin(pc).refused = NoKey /\ begin(pc).clause = ""
        /\ begin(pc).warn = FALSE
  BY DEF IdleRot
<1> HIDE DEF refuse, begin
<1>5. \/ \E reason \in {"unknown_provider", "destroys_in_place", "decrypt"} :
            rot'[w] = refuse(reason)
      \/ RoleOf[row.provider] = "auto" /\ rot'[w] = begin("retry")
      \/ RoleOf[row.provider] = "none" /\ rot'[w] = begin("generate")
  BY <1>2, StepFacts
<1>6. CASE \E reason \in {"unknown_provider", "destroys_in_place", "decrypt"} :
             rot'[w] = refuse(reason)
  BY <1>1, <1>3, <1>6
<1>7. CASE RoleOf[row.provider] = "auto" /\ rot'[w] = begin("retry")
  BY <1>1, <1>4, <1>7
<1>8. CASE RoleOf[row.provider] = "none" /\ rot'[w] = begin("generate")
  BY <1>1, <1>4, <1>8
<1> QED BY <1>5, <1>6, <1>7, <1>8

(* The pass r gave up or failed, as s. *)
Ended(r, s) ==
    \/ s = IdleRot
    \/ /\ s.pc = "fail"
       /\ s.reason # ""
       /\ s.prov = r.prov
       /\ s.new = r.new
       /\ s.m = r.m
       /\ s.warn = r.warn

LEMMA FailEffect ==
    ASSUME Inv, NEW w \in Rotators, NEW reason \in Reason \ {""},
           Step(w, IdleRot) \/ Fail(w, reason)
    PROVE  Ended(rot[w], rot'[w])
<1> DEFINE f == [rot[w] EXCEPT !.pc = "fail", !.reason = reason]
<1>1. /\ f.pc = "fail" /\ f.reason = reason /\ f.prov = rot[w].prov /\ f.new = rot[w].new
      /\ f.m = rot[w].m /\ f.warn = rot[w].warn
  BY InvFacts DEF RotState
<1>2. rot'[w] = IdleRot \/ rot'[w] = f
  BY StepFacts DEF Fail
<1> HIDE DEF f
<1> QED BY <1>1, <1>2 DEF Ended

LEMMA EndEffect ==
    ASSUME Inv, NEW w \in Rotators, RefuseSpend(w) \/ EncryptFails(w) \/ Panic(w)
    PROVE  /\ Ended(rot[w], rot'[w])
           /\ UNCHANGED <<row, live, minted, retry, edit, metaTok, former, managed, disclosed>>
<1>1. UNCHANGED <<row, live, minted, retry, edit, metaTok, former, managed, disclosed>>
  BY DEF RefuseSpend, EncryptFails, Panic, upstream, history
<1>2. Step(w, IdleRot) \/ Fail(w, "provider") \/ Fail(w, "encrypt") \/ Fail(w, "internal")
  BY DEF RefuseSpend, EncryptFails, Panic
<1>3. {"provider", "encrypt", "internal"} \subseteq Reason \ {""}
  BY DEF Reason
<1> QED BY <1>1, <1>2, <1>3, FailEffect

LEMMA RevokeEffect ==
    ASSUME Inv, NEW w \in Rotators, Compact(rot[w].m),
           retryOutstandingRevoke(w) \/ RevokeOld(w)
    PROVE  /\ SamePass(rot[w], rot'[w]) /\ rot'[w].clause = rot[w].clause
           /\ rot'[w].m.keyID = rot[w].m.keyID
           /\ Compact(rot'[w].m)
           /\ \A d : Carries(rot'[w].m, rot[w].m, live', d)
           /\ outstandingRevokeKeyIDs(rot'[w].m) \subseteq outstandingRevokeKeyIDs(rot[w].m)
           /\ \/ rot[w].pc = "retry" /\ rot'[w].pc = "mint"
              \/ rot[w].pc = "revoke" /\ rot'[w].pc = "read_back"
           /\ live' \subseteq live
           /\ UNCHANGED <<row, minted, retry, edit, metaTok, former, managed, disclosed>>
<1> DEFINE r == rot[w]
           quiet(pc) == [r EXCEPT !.pc = pc]
           after(pc, warn, ok) == [r EXCEPT !.pc = pc, !.warn = warn, !.m = AfterRevoke(r.m, ok)]
<1>1. r \in RotState /\ r.m \in Meta /\ r.old \in OptKey /\ r.new \in OptKey
  BY InvFacts DEF RotState
<1>2. UNCHANGED <<row, minted, retry, edit, metaTok, former, managed, disclosed>>
  BY DEF retryOutstandingRevoke, RevokeOld, history
<1>3. PICK pc \in {"mint", "read_back"} :
        /\ \/ r.pc = "retry" /\ pc = "mint"
           \/ r.pc = "revoke" /\ pc = "read_back"
        /\ \/ live' = live /\ Step(w, quiet(pc))
           \/ /\ r.m.head # NoKey
              /\ \E ok, warn \in BOOLEAN, v \in OptKey :
                   performPendingRevoke(r.prov, r.m, v, ok) /\ Step(w, after(pc, warn, ok))
  <2>1. CASE retryOutstandingRevoke(w)
    BY <1>1, <2>1 DEF retryOutstandingRevoke
  <2>2. CASE RevokeOld(w)
    <3>1. CASE r.m.head = NoKey
      BY <2>2, <3>1 DEF RevokeOld
    <3>2. CASE r.m.head # NoKey
      <4>1. PICK ok \in BOOLEAN : /\ performPendingRevoke(r.prov, r.m, r.new, ok)
                                  /\ Step(w, after("read_back", r.warn \/ ~ok, ok))
        BY <2>2, <3>2 DEF RevokeOld
      <4>2. (r.warn \/ ~ok) \in BOOLEAN
        OBVIOUS
      <4> HIDE DEF after
      <4> QED BY <1>1, <2>2, <3>2, <4>1, <4>2 DEF RevokeOld
    <3> QED BY <3>1, <3>2
  <2> QED BY <2>1, <2>2
<1>4. CASE live' = live /\ Step(w, quiet(pc))
  <2>1. /\ SamePass(r, quiet(pc)) /\ quiet(pc).pc = pc /\ quiet(pc).m = r.m
        /\ quiet(pc).clause = r.clause
    BY <1>1 DEF RotState, SamePass
  <2> HIDE DEF quiet
  <2>2. rot'[w] = quiet(pc)
    BY <1>4, StepFacts
  <2> QED BY <1>2, <1>3, <1>4, <2>1, <2>2 DEF Carries
<1>5. CASE /\ r.m.head # NoKey
           /\ \E ok, warn \in BOOLEAN, v \in OptKey :
                performPendingRevoke(r.prov, r.m, v, ok) /\ Step(w, after(pc, warn, ok))
  <2>1. PICK ok \in BOOLEAN, warn \in BOOLEAN, v \in OptKey :
          performPendingRevoke(r.prov, r.m, v, ok) /\ Step(w, after(pc, warn, ok))
    BY <1>5
  <2>2. /\ SamePass(r, after(pc, warn, ok)) /\ after(pc, warn, ok).pc = pc
        /\ after(pc, warn, ok).m = AfterRevoke(r.m, ok)
        /\ after(pc, warn, ok).clause = r.clause
    BY <1>1 DEF RotState, SamePass
  <2> HIDE DEF after
  <2>3. rot'[w] = after(pc, warn, ok)
    BY <2>1, StepFacts
  <2>4. /\ live' \subseteq live
        /\ AfterRevoke(r.m, ok).keyID = r.m.keyID
        /\ Compact(AfterRevoke(r.m, ok))
        /\ \A d : Carries(AfterRevoke(r.m, ok), r.m, live', d)
        /\ outstandingRevokeKeyIDs(AfterRevoke(r.m, ok)) \subseteq outstandingRevokeKeyIDs(r.m)
    BY <1>1, <2>1, RevokeKeeps
  <2> QED BY <1>2, <1>3, <1>5, <2>2, <2>3, <2>4
<1> QED BY <1>3, <1>4, <1>5

(* The pass after a mint still names every key it named, and the            *)
(* predecessor it recorded is queued or remembered as refused.              *)
LEMMA MintedKeeps ==
    ASSUME NEW r \in RotState, NEW k \in Key
    PROVE  /\ Minted(r, k).pc = "store"
           /\ Minted(r, k).prov = r.prov
           /\ Minted(r, k).old = r.old
           /\ Minted(r, k).new = k
           /\ Minted(r, k).clause = r.clause
           /\ outstandingRevokeKeyIDs(r.m) \subseteq outstandingRevokeKeyIDs(Minted(r, k).m)
           /\ outstandingRevokeKeyIDs(Minted(r, k).m)
                \subseteq outstandingRevokeKeyIDs(r.m) \cup ({r.m.keyID} \ {NoKey})
           /\ Compact(r.m) => Compact(Minted(r, k).m)
           /\ SchemeOf[r.prov] # "keep" =>
                /\ Minted(r, k).m.keyID = k
                /\ r.m.keyID # NoKey =>
                     r.m.keyID \in outstandingRevokeKeyIDs(Minted(r, k).m) \cup {Minted(r, k).refused}
<1> DEFINE pred == r.m.keyID
           tracks == SchemeOf[r.prov] # "keep"
           declined == tracks /\ pred # NoKey /\ Refused(r.m, pred)
           queued == IF pred = NoKey THEN r.m ELSE deferRevokeOldProviderKey(r.m, pred)
           m2 == IF tracks THEN [queued EXCEPT !.keyID = k] ELSE r.m
           refused == IF declined THEN pred ELSE NoKey
<1>1. r.m \in Meta /\ pred \in OptKey /\ k \in OptKey
  BY DEF RotState, Meta, OptKey
<1>2. /\ queued \in Meta
      /\ outstandingRevokeKeyIDs(r.m) \subseteq outstandingRevokeKeyIDs(queued)
      /\ outstandingRevokeKeyIDs(queued) \subseteq outstandingRevokeKeyIDs(r.m) \cup ({pred} \ {NoKey})
      /\ Compact(r.m) => Compact(queued)
      /\ pred # NoKey => Refused(r.m, pred) \/ pred \in outstandingRevokeKeyIDs(queued)
  <2>1. CASE pred = NoKey
    BY <1>1, <2>1
  <2>2. CASE pred # NoKey
    <3>1. pred \in Key
      BY <1>1, <2>2 DEF OptKey
    <3> QED BY <1>1, <2>2, <3>1, DeferFacts, DeferKeeps
  <2> QED BY <2>1, <2>2
<1> HIDE DEF queued
<1>3. /\ outstandingRevokeKeyIDs(r.m) \subseteq outstandingRevokeKeyIDs(m2)
      /\ outstandingRevokeKeyIDs(m2) \subseteq outstandingRevokeKeyIDs(r.m) \cup ({pred} \ {NoKey})
      /\ Compact(r.m) => Compact(m2)
      /\ tracks => m2.keyID = k
      /\ tracks /\ pred # NoKey => pred \in outstandingRevokeKeyIDs(m2) \cup {refused}
  BY <1>1, <1>2, KeyIDFacts, KeyIDCompact
<1>4. Minted(r, k) = [r EXCEPT !.pc = "store", !.new = k, !.m = m2, !.warn = @ \/ declined,
                               !.refused = refused]
  BY DEF Minted, queued
<1> HIDE DEF m2, declined, refused
<1>5. /\ Minted(r, k).pc = "store" /\ Minted(r, k).prov = r.prov /\ Minted(r, k).old = r.old
      /\ Minted(r, k).new = k /\ Minted(r, k).clause = r.clause
      /\ Minted(r, k).m = m2 /\ Minted(r, k).refused = refused
  BY <1>4 DEF RotState
<1> QED BY <1>3, <1>5

(* Without an id it names every key it named too; the id in its map is the  *)
(* one it had, or blank once the predecessor is queued or refused.          *)
LEMMA WithoutIdKeeps ==
    ASSUME NEW r \in RotState, NEW k \in Key, SchemeOf[r.prov] # "keep"
    PROVE  /\ MintedWithoutId(r, k).pc = "store"
           /\ MintedWithoutId(r, k).prov = r.prov
           /\ MintedWithoutId(r, k).old = r.old
           /\ MintedWithoutId(r, k).new = k
           /\ MintedWithoutId(r, k).clause = r.clause
           /\ outstandingRevokeKeyIDs(r.m) \subseteq outstandingRevokeKeyIDs(MintedWithoutId(r, k).m)
           /\ outstandingRevokeKeyIDs(MintedWithoutId(r, k).m)
                \subseteq outstandingRevokeKeyIDs(r.m) \cup ({r.m.keyID} \ {NoKey})
           /\ Compact(r.m) => Compact(MintedWithoutId(r, k).m)
           /\ \/ MintedWithoutId(r, k).m.keyID = r.m.keyID
              \/ /\ MintedWithoutId(r, k).m.keyID = NoKey
                 /\ r.m.keyID # NoKey =>
                      r.m.keyID \in outstandingRevokeKeyIDs(MintedWithoutId(r, k).m)
                                     \cup {MintedWithoutId(r, k).refused}
<1> DEFINE s == MintedWithoutId(r, k)
<1>1. r.m \in Meta
  BY DEF RotState
<1>2. CASE SchemeOf[r.prov] = "bearer"
  <2> DEFINE q == Minted(r, k)
             blank == [q.m EXCEPT !.keyID = NoKey]
  <2>1. q \in RotState /\ q.m \in Meta
    <3>1. CopySafe(r.m, NoKey, Key) /\ Key \subseteq Key
      BY <1>1, NamedKeys, QueueAssumption DEF CopySafe, OptKey
    <3>2. q \in RotState
      BY <3>1, MintedFacts
    <3> QED BY <3>2 DEF RotState
  <2>2. /\ q.pc = "store" /\ q.prov = r.prov /\ q.old = r.old /\ q.new = k /\ q.clause = r.clause
        /\ outstandingRevokeKeyIDs(r.m) \subseteq outstandingRevokeKeyIDs(q.m)
        /\ outstandingRevokeKeyIDs(q.m) \subseteq outstandingRevokeKeyIDs(r.m) \cup ({r.m.keyID} \ {NoKey})
        /\ Compact(r.m) => Compact(q.m)
        /\ r.m.keyID # NoKey => r.m.keyID \in outstandingRevokeKeyIDs(q.m) \cup {q.refused}
    BY MintedKeeps
  <2>3. s = [q EXCEPT !.m = blank]
    BY <1>2 DEF MintedWithoutId
  <2> HIDE DEF q
  <2>4. /\ outstandingRevokeKeyIDs(blank) = outstandingRevokeKeyIDs(q.m) /\ blank.keyID = NoKey
        /\ Compact(q.m) => Compact(blank)
    BY <2>1, KeyIDFacts, KeyIDCompact DEF OptKey
  <2> HIDE DEF blank, s
  <2>5. /\ s.pc = q.pc /\ s.prov = q.prov /\ s.old = q.old /\ s.new = q.new
        /\ s.clause = q.clause /\ s.refused = q.refused /\ s.m = blank
    BY <2>1, <2>3 DEF RotState
  <2> QED BY <2>2, <2>4, <2>5 DEF s
<1>3. CASE SchemeOf[r.prov] = "careful"
  <2>1. s = [r EXCEPT !.pc = "store", !.new = k, !.warn = TRUE, !.refused = r.m.keyID]
    BY <1>3 DEF MintedWithoutId
  <2> HIDE DEF s
  <2>2. /\ s.pc = "store" /\ s.prov = r.prov /\ s.old = r.old /\ s.new = k
        /\ s.clause = r.clause /\ s.m = r.m
    BY <2>1 DEF RotState
  <2> QED BY <2>2 DEF s
<1>4. CASE SchemeOf[r.prov] \notin {"bearer", "careful"}
  <2>1. s = [r EXCEPT !.pc = "store", !.new = k]
    BY <1>4 DEF MintedWithoutId
  <2> HIDE DEF s
  <2>2. /\ s.pc = "store" /\ s.prov = r.prov /\ s.old = r.old /\ s.new = k
        /\ s.clause = r.clause /\ s.m = r.m
    BY <2>1 DEF RotState
  <2> QED BY <2>2 DEF s
<1> QED BY <1>2, <1>3, <1>4

(* What a mint does to a pass and to the keys, whatever its answer. *)
LEMMA MintEffect ==
    ASSUME Inv, NEW w \in Rotators, Mint(w)
    PROVE  \E k \in Key \ minted :
             /\ rot[w].pc = "mint" /\ rot'[w].pc = "store"
             /\ rot'[w].prov = rot[w].prov /\ rot'[w].old = rot[w].old /\ rot'[w].new = k
             /\ rot'[w].clause = rot[w].clause
             /\ outstandingRevokeKeyIDs(rot[w].m) \subseteq outstandingRevokeKeyIDs(rot'[w].m)
             /\ outstandingRevokeKeyIDs(rot'[w].m)
                  \subseteq outstandingRevokeKeyIDs(rot[w].m) \cup ({rot[w].m.keyID} \ {NoKey})
             /\ Compact(rot[w].m) => Compact(rot'[w].m)
             /\ minted' = minted \cup {k} /\ live' = live \cup {k}
             /\ SchemeOf[rot[w].prov] # "keep" =>
                  \/ /\ managed' = managed \cup {k}
                     /\ rot'[w].m.keyID = k
                     /\ rot[w].m.keyID # NoKey =>
                          rot[w].m.keyID \in outstandingRevokeKeyIDs(rot'[w].m) \cup {rot'[w].refused}
                  \/ /\ managed' = managed
                     /\ \/ rot'[w].m.keyID = rot[w].m.keyID
                        \/ /\ rot'[w].m.keyID = NoKey
                           /\ rot[w].m.keyID # NoKey =>
                                rot[w].m.keyID \in outstandingRevokeKeyIDs(rot'[w].m)
                                                    \cup {rot'[w].refused}
             /\ UNCHANGED <<row, retry, edit, metaTok, former, disclosed>>
<1> DEFINE r == rot[w]
<1>1. r \in RotState /\ r.pc = "mint" /\ UNCHANGED <<row, retry, edit, metaTok, former, disclosed>>
  BY InvFacts DEF Mint
<1>2. PICK k \in Key \ minted :
        /\ minted' = minted \cup {k}
        /\ live' = live \cup {k}
        /\ \/ /\ managed' = IF SchemeOf[r.prov] = "keep" THEN managed ELSE managed \cup {k}
              /\ Step(w, Minted(r, k))
           \/ /\ SchemeOf[r.prov] # "keep"
              /\ managed' = managed
              /\ Step(w, MintedWithoutId(r, k))
  BY DEF Mint, Fresh
<1>3. CASE /\ managed' = IF SchemeOf[r.prov] = "keep" THEN managed ELSE managed \cup {k}
           /\ Step(w, Minted(r, k))
  <2>1. rot'[w] = Minted(r, k)
    BY <1>3, StepFacts
  <2> QED BY <1>1, <1>2, <1>3, <2>1, MintedKeeps
<1>4. CASE SchemeOf[r.prov] # "keep" /\ managed' = managed /\ Step(w, MintedWithoutId(r, k))
  <2>1. rot'[w] = MintedWithoutId(r, k)
    BY <1>4, StepFacts
  <2> DEFINE s == MintedWithoutId(r, k)
  <2>2. /\ s.pc = "store" /\ s.prov = r.prov /\ s.old = r.old /\ s.new = k /\ s.clause = r.clause
        /\ outstandingRevokeKeyIDs(r.m) \subseteq outstandingRevokeKeyIDs(s.m)
        /\ outstandingRevokeKeyIDs(s.m) \subseteq outstandingRevokeKeyIDs(r.m) \cup ({r.m.keyID} \ {NoKey})
        /\ Compact(r.m) => Compact(s.m)
        /\ \/ s.m.keyID = r.m.keyID
           \/ /\ s.m.keyID = NoKey
              /\ r.m.keyID # NoKey => r.m.keyID \in outstandingRevokeKeyIDs(s.m) \cup {s.refused}
    BY <1>1, <1>2, <1>4, WithoutIdKeeps
  <2>3. rot'[w] = s
    BY <2>1
  <2> HIDE DEF s
  <2> QED BY <1>1, <1>2, <1>4, <2>2, <2>3
<1> HIDE DEF r
<1>5. \/ /\ managed' = IF SchemeOf[r.prov] = "keep" THEN managed ELSE managed \cup {k}
         /\ Step(w, Minted(r, k))
      \/ SchemeOf[r.prov] # "keep" /\ managed' = managed /\ Step(w, MintedWithoutId(r, k))
  BY <1>2
<1> QED BY <1>3, <1>4, <1>5

LEMMA GenerateEffect ==
    ASSUME Inv, NEW w \in Rotators, Generate(w)
    PROVE  /\ rot[w].pc = "generate" /\ rot'[w].pc = "store"
           /\ rot'[w].prov = rot[w].prov
           /\ rot'[w].m = rot[w].m
           /\ rot'[w].warn = rot[w].warn
           /\ \E k \in Key \ minted : minted' = minted \cup {k} /\ live' = live \cup {k}
           /\ UNCHANGED <<row, retry, edit, metaTok, former, managed, disclosed>>
<1> DEFINE next(k) == [rot[w] EXCEPT !.pc = "store", !.new = k]
<1>1. PICK k \in Key \ minted : /\ minted' = minted \cup {k}
                                /\ live' = live \cup {k}
                                /\ Step(w, next(k))
  BY DEF Generate, Fresh
<1>2. /\ next(k).pc = "store" /\ next(k).prov = rot[w].prov /\ next(k).m = rot[w].m
      /\ next(k).warn = rot[w].warn
  BY InvFacts DEF RotState
<1> HIDE DEF next
<1>3. rot'[w] = next(k)
  BY <1>1, StepFacts
<1> QED BY <1>1, <1>2, <1>3 DEF Generate, history

LEMMA MintFailsEffect ==
    ASSUME Inv, NEW w \in Rotators, MintFails(w)
    PROVE  /\ rot[w].pc = "mint"
           /\ Ended(rot[w], rot'[w])
           /\ \/ UNCHANGED <<live, minted>>
              \/ \E k \in Key \ minted : minted' = minted \cup {k} /\ live' = live \cup {k}
           /\ UNCHANGED <<row, retry, edit, metaTok, former, managed, disclosed>>
<1>1. "provider" \in Reason \ {""}
  BY DEF Reason
<1>2. Ended(rot[w], rot'[w])
  BY <1>1, FailEffect DEF MintFails
<1> QED BY <1>2 DEF MintFails, Fresh, upstream, history

LEMMA persistRotatedValueEffect ==
    ASSUME Inv, NEW w \in Rotators, persistRotatedValue(w)
    PROVE  /\ rot[w].pc = "store"
           /\ \/ /\ rot'[w].pc = IF RoleOf[rot[w].prov] = "auto" THEN "revoke" ELSE "record"
                 /\ SamePass(rot[w], rot'[w])
                 /\ rot'[w].m = rot[w].m
                 /\ rot'[w].warn = rot[w].warn
                 /\ rot'[w].clause = rot[w].clause
                 /\ row' = [row EXCEPT !.value = rot[w].new]
                 /\ row.value = rot[w].old
              \/ Ended(rot[w], rot'[w]) /\ row' = row
           /\ UNCHANGED <<live, minted, retry, edit, metaTok, managed, disclosed>>
<1> DEFINE r == rot[w]
           pc == IF RoleOf[r.prov] = "auto" THEN "revoke" ELSE "record"
           next == [r EXCEPT !.pc = pc]
<1>1. r.pc = "store" /\ UNCHANGED <<live, minted, retry, edit, metaTok, managed, disclosed>>
  BY DEF persistRotatedValue, upstream
<1>2. CASE /\ row.value = r.old
           /\ row' = [row EXCEPT !.value = r.new]
           /\ Step(w, next)
  <2>1. /\ next.pc = pc /\ SamePass(r, next) /\ next.m = r.m /\ next.warn = r.warn
        /\ next.clause = r.clause
    BY InvFacts DEF RotState, SamePass
  <2> HIDE DEF next
  <2>2. rot'[w] = next
    BY <1>2, StepFacts
  <2> QED BY <1>1, <1>2, <2>1, <2>2
<1>3. CASE /\ Step(w, IdleRot) \/ Fail(w, "conflict") \/ Fail(w, "persist")
           /\ row' = row
  <2>1. {"conflict", "persist"} \subseteq Reason \ {""}
    BY DEF Reason
  <2> QED BY <1>1, <1>3, <2>1, FailEffect
<1> QED BY <1>2, <1>3 DEF persistRotatedValue

LEMMA ReadBackEffect ==
    ASSUME Inv, NEW w \in Rotators, ReadBack(w)
    PROVE  /\ rot[w].pc = "read_back"
           /\ SamePass(rot[w], rot'[w])
           /\ rot'[w].warn = rot[w].warn
           /\ outstandingRevokeKeyIDs(rot'[w].m) = outstandingRevokeKeyIDs(rot[w].m)
           /\ Compact(rot[w].m) => Compact(rot'[w].m)
           /\ \/ rot'[w].m.keyID = rot[w].m.keyID
              \/ rot[w].m.keyID = NoKey /\ rot'[w].m.keyID = row.meta.keyID
           /\ \/ rot'[w].pc = "write_back" /\ rot'[w].clause = rot[w].clause
              \/ rot'[w].pc = "record" /\ rot'[w].clause # ""
           /\ UNCHANGED <<row, live, minted, retry, edit, metaTok, former, managed, disclosed>>
<1> DEFINE r == rot[w]
           kid == IF r.m.keyID = NoKey /\ SchemeOf[r.prov] # "bearer" THEN row.meta.keyID ELSE r.m.keyID
           merged == [r EXCEPT !.pc = "write_back", !.m = MergedMeta(r.prov, row.meta, @)]
           skip(clause) == [r EXCEPT !.pc = "record", !.clause = clause]
<1>1. r \in RotState /\ r.m \in Meta /\ kid \in OptKey
  BY InvFacts, NamedKeys
<1>2. /\ r.pc = "read_back"
      /\ UNCHANGED <<row, live, minted, retry, edit, metaTok, former, managed, disclosed>>
  BY DEF ReadBack, upstream, history
<1>3. MergedMeta(r.prov, row.meta, r.m) = [r.m EXCEPT !.keyID = kid]
  BY DEF MergedMeta
<1> HIDE DEF kid
<1>4. /\ outstandingRevokeKeyIDs(MergedMeta(r.prov, row.meta, r.m)) = outstandingRevokeKeyIDs(r.m)
      /\ Compact(r.m) => Compact(MergedMeta(r.prov, row.meta, r.m))
      /\ MergedMeta(r.prov, row.meta, r.m).keyID = kid
  BY <1>1, <1>3, KeyIDFacts, KeyIDCompact
<1>5. CASE Step(w, merged)
  <2>1. /\ merged.pc = "write_back" /\ merged.m = MergedMeta(r.prov, row.meta, r.m)
        /\ SamePass(r, merged) /\ merged.warn = r.warn /\ merged.clause = r.clause
    BY <1>1 DEF RotState, SamePass
  <2> HIDE DEF merged
  <2>2. rot'[w] = merged
    BY <1>5, StepFacts
  <2> QED BY <1>2, <1>4, <2>1, <2>2 DEF kid
<1>6. ASSUME NEW clause \in {"provider_changed", "write_back_failed"}, Step(w, skip(clause))
      PROVE  /\ SamePass(r, rot'[w]) /\ rot'[w].warn = r.warn /\ rot'[w].m = r.m
             /\ rot'[w].pc = "record" /\ rot'[w].clause # ""
  <2>1. /\ skip(clause).pc = "record" /\ skip(clause).m = r.m /\ skip(clause).clause = clause
        /\ SamePass(r, skip(clause)) /\ skip(clause).warn = r.warn
    BY <1>1 DEF RotState, SamePass
  <2> HIDE DEF skip
  <2>2. rot'[w] = skip(clause)
    BY <1>6, StepFacts
  <2> QED BY <2>1, <2>2
<1>7. Step(w, merged) \/ Step(w, skip("provider_changed")) \/ Step(w, skip("write_back_failed"))
  BY DEF ReadBack
<1> QED BY <1>2, <1>5, <1>6, <1>7

LEMMA WriteBackEffect ==
    ASSUME Inv, NEW w \in Rotators, WriteBack(w)
    PROVE  /\ rot[w].pc = "write_back"
           /\ rot'[w].pc = "record"
           /\ SamePass(rot[w], rot'[w])
           /\ rot'[w].warn = rot[w].warn
           /\ rot'[w].m = rot[w].m
           /\ \/ /\ row' = [row EXCEPT !.meta = rot[w].m]
                 /\ rot'[w].clause = rot[w].clause
                 /\ metaTok' = {}
              \/ /\ row' = row
                 /\ rot'[w].clause # ""
                 /\ metaTok' = metaTok
           /\ UNCHANGED <<live, minted, retry, edit, former, managed, disclosed>>
<1> DEFINE r == rot[w]
           next == [r EXCEPT !.pc = "record"]
           skip == [r EXCEPT !.pc = "record", !.clause = "write_back_failed"]
<1>1. r \in RotState
  BY InvFacts
<1>2. r.pc = "write_back" /\ UNCHANGED <<live, minted, retry, edit, former, managed, disclosed>>
  BY DEF WriteBack, upstream, history
<1>3. /\ next.pc = "record" /\ SamePass(r, next) /\ next.warn = r.warn /\ next.m = r.m
      /\ next.clause = r.clause
      /\ skip.pc = "record" /\ SamePass(r, skip) /\ skip.warn = r.warn /\ skip.m = r.m
      /\ skip.clause # ""
  BY <1>1 DEF RotState, SamePass
<1>4. \/ row' = [row EXCEPT !.meta = r.m] /\ metaTok' = {} /\ Step(w, next)
      \/ row' = row /\ metaTok' = metaTok /\ Step(w, skip)
  BY DEF WriteBack
<1> HIDE DEF next, skip
<1> QED BY <1>2, <1>3, <1>4, StepFacts

LEMMA RecordersEffect ==
    ASSUME Inv, NEW w \in Rotators,
           \/ recordRotationOutcome(w)
           \/ recordRotationOutcomeUndeliverable(w)
           \/ recordRotationFailure(w)
    PROVE  /\ rot'[w] = IdleRot
           /\ rot[w].pc \in {"record", "fail"}
           /\ row'.meta = row.meta /\ row'.value = row.value /\ row'.provider = row.provider
           /\ \/ row'.err = row.err
              \/ row'.err.keys = {}
              \/ /\ rot[w].pc = "record" /\ rot[w].warn
                 /\ row'.err.keys \subseteq outstandingRevokeKeyIDs(rot[w].m)
           /\ "record" \notin Fault =>
                /\ rot[w].pc = "record" => row'.err.meta = rot[w].clause
                /\ rot[w].pc = "fail" => row'.err.fail = rot[w].reason
           /\ disclosed \subseteq disclosed'
           /\ rot[w].pc = "record" /\ rot[w].clause # "" =>
                (outstandingRevokeKeyIDs(rot[w].m) \cup {rot[w].new}) \ {NoKey} \subseteq disclosed'
           /\ rot[w].pc = "record" /\ "unreadable" \notin Fault =>
                rot[w].refused \in disclosed' \cup {NoKey}
           /\ rot[w].pc = "fail" => rot[w].new \in disclosed' \cup {NoKey}
           /\ UNCHANGED <<live, minted, retry, edit, metaTok, former, managed>>
<1> DEFINE r == rot[w]
<1>1. r \in RotState /\ row \in Row
  BY InvFacts
<1>2. rot'[w] = IdleRot
  BY StepFacts DEF recordRotationOutcome, recordRotationOutcomeUndeliverable, recordRotationFailure
<1>3. UNCHANGED <<live, minted, retry, edit, metaTok, former, managed>>
  BY DEF recordRotationOutcome, recordRotationOutcomeUndeliverable, recordRotationFailure, upstream
<1>4. ASSUME NEW e, RecordError(e)
      PROVE  /\ row'.meta = row.meta /\ row'.value = row.value /\ row'.provider = row.provider
             /\ row'.err = e \/ ("record" \in Fault /\ row'.err = row.err)
  BY <1>1, <1>4 DEF RecordError, Row
<1>5. \A x : FailureOf(x).keys = {} /\ FailureOf(x).meta = "" /\ FailureOf(x).fail = x
  BY DEF FailureOf, Clean
<1>6. CASE recordRotationOutcome(w)
  <2>1. PICK delivery :
          RecordError(foldMetaWriteOutcome(
                        foldRevokeOutcome(FailureOf(delivery), r.warn,
                                          outstandingRevokeKeyIDs(r.m)), r.clause))
    BY <1>6 DEF recordRotationOutcome
  <2> DEFINE f == foldRevokeOutcome(FailureOf(delivery), r.warn, outstandingRevokeKeyIDs(r.m))
             e == foldMetaWriteOutcome(f, r.clause)
  <2>2. f.keys = {} \/ (r.warn /\ f.keys \subseteq outstandingRevokeKeyIDs(r.m))
    BY <1>5 DEF foldRevokeOutcome, sanitizeRevokeKeyIDs, FailureOf, Clean
  <2>3. e.keys = f.keys /\ e.meta = r.clause
    BY DEF foldMetaWriteOutcome, foldRevokeOutcome, FailureOf, Clean
  <2> HIDE DEF f, e
  <2>4. RecordError(e)
    BY <2>1 DEF e, f
  <2>5. r.pc = "record" /\ disclosed' = disclosed \cup Told(r)
    BY <1>6 DEF recordRotationOutcome
  <2>6. /\ disclosed \subseteq disclosed'
        /\ r.clause # "" => (outstandingRevokeKeyIDs(r.m) \cup {r.new}) \ {NoKey} \subseteq disclosed'
        /\ r.refused \in disclosed' \cup {NoKey}
    BY <2>5 DEF Told
  <2> QED BY <1>2, <1>3, <1>4, <2>2, <2>3, <2>4, <2>5, <2>6
<1>7. CASE recordRotationOutcomeUndeliverable(w)
  <2> DEFINE e == foldMetaWriteOutcome(FailureOf("undeliverable"), r.clause)
             q == [r EXCEPT !.refused = NoKey]
  <2>1. e.keys = {} /\ e.meta = r.clause
    BY DEF foldMetaWriteOutcome, FailureOf, Clean
  <2>2. q.m = r.m /\ q.new = r.new /\ q.clause = r.clause
    BY <1>1 DEF RotState
  <2>3. r.pc = "record" /\ disclosed' = disclosed \cup Told(q) /\ "unreadable" \in Fault
        /\ RecordError(e)
    BY <1>7 DEF recordRotationOutcomeUndeliverable
  <2> HIDE DEF q, e
  <2>4. /\ disclosed \subseteq disclosed'
        /\ r.clause # "" => (outstandingRevokeKeyIDs(r.m) \cup {r.new}) \ {NoKey} \subseteq disclosed'
    BY <2>2, <2>3 DEF Told
  <2> QED BY <1>2, <1>3, <1>4, <2>1, <2>3, <2>4
<1>8. CASE recordRotationFailure(w)
  <2>1. r.pc = "fail" /\ RecordError(FailureOf(r.reason))
        /\ disclosed' = disclosed \cup ({r.new} \ {NoKey})
    BY <1>8 DEF recordRotationFailure
  <2> QED BY <1>2, <1>3, <1>4, <1>5, <2>1
<1> QED BY <1>6, <1>7, <1>8

----------------------------------------------------------------------------
(* Why no alarm settles another key: at each place of a pass, of a request  *)
(* and of an editor, what its copy of the queue has to do with the stored   *)
(* one.  m is the stored map, l the live keys, d the disclosed and i the    *)
(* issued ones.                                                             *)

PassTracks(r, m, l, d, i) ==
    /\ Compact(r.m)
    /\ outstandingRevokeKeyIDs(r.m) \subseteq i
    /\ r.pc \in {"retry", "mint", "revoke"} => RoleOf[r.prov] = "auto"
    /\ r.warn => RoleOf[r.prov] = "auto"
    /\ r.pc \notin {"idle", "fail"} => Carries(r.m, m, l, d)
    /\ r.pc = "record" /\ r.warn /\ r.clause = "" => Carries(m, r.m, l, d)

RequestTracks(r, t, tok, m, l, i) ==
    /\ Compact(r.m)
    /\ r.pc = "call" => r.target = r.m.head /\ r.target # NoKey
    /\ r.pc \notin {"idle", "call"} => r.target \in i \ l
    /\ t \in tok /\ r.pc \in {"call", "cas"} =>
         /\ r.m.keyID = m.keyID
         /\ outstandingRevokeKeyIDs(r.m) \subseteq outstandingRevokeKeyIDs(m)
         /\ outstandingRevokeKeyIDs(m) \subseteq outstandingRevokeKeyIDs(r.m) \cup {r.target}

(* Every live key that the alarm names and nobody disclosed is on the queue. *)
AlarmIsQueued ==
    /\ row.err.keys \subseteq minted
    /\ (row.err.keys \cap live) \ disclosed \subseteq outstandingRevokeKeyIDs(row.meta)

Accounted ==
    /\ Compact(row.meta)
    /\ AlarmIsQueued
    /\ \A w \in Rotators : PassTracks(rot[w], row.meta, live, disclosed, minted)
    /\ \A t \in Retriers : RequestTracks(retry[t], t, metaTok, row.meta, live, minted)
    /\ \A e \in Editors : edit[e].discarded \subseteq disclosed

(* Keys that are dead stay dead, and what was disclosed stays disclosed. *)
Onward ==
    /\ minted \subseteq minted'
    /\ live' \cap minted \subseteq live
    /\ disclosed \subseteq disclosed'

(* The stored queue loses only keys that are dead or disclosed by then. *)
QueueShrinks ==
    /\ outstandingRevokeKeyIDs(row'.meta) \subseteq outstandingRevokeKeyIDs(row.meta)
    /\ Carries(row'.meta, row.meta, live', disclosed')

LEMMA PassGoesOn ==
    ASSUME NEW r \in RotState, NEW m, NEW m2, NEW l, NEW l2, NEW d, NEW d2, NEW i, NEW i2,
           PassTracks(r, m, l, d, i), i \subseteq i2, l2 \cap i \subseteq l, d \subseteq d2,
           outstandingRevokeKeyIDs(m) \subseteq i,
           outstandingRevokeKeyIDs(m2) \subseteq outstandingRevokeKeyIDs(m),
           Carries(m2, m, l2, d2)
    PROVE  PassTracks(r, m2, l2, d2, i2)
  BY DEF PassTracks, Carries

LEMMA RequestGoesOn ==
    ASSUME NEW r \in RetryState, NEW m, NEW m2, NEW l, NEW l2, NEW i, NEW i2, NEW t, NEW tok, NEW tok2,
           RequestTracks(r, t, tok, m, l, i), i \subseteq i2, l2 \cap i \subseteq l,
           t \in tok2 => t \in tok /\ m2 = m
    PROVE  RequestTracks(r, t, tok2, m2, l2, i2)
  BY DEF RequestTracks

(* The alarm, when it is left alone or says less. *)
LEMMA AlarmGoesOn ==
    ASSUME Inv, AlarmIsQueued, Onward, row'.err.keys \subseteq row.err.keys,
           Carries(row'.meta, row.meta, live', disclosed')
    PROVE  AlarmIsQueued'
  BY InvFacts DEF AlarmIsQueued, Onward, Carries

LEMMA PassAccounted ==
    ASSUME Inv, Accounted, OneRotator, NEW w \in Rotators, Onward, AlarmIsQueued',
           Compact(row'.meta), UNCHANGED <<retry, edit>>,
           metaTok' = {} \/ (metaTok' = metaTok /\ row'.meta = row.meta),
           PassTracks(rot'[w], row'.meta, live', disclosed', minted')
    PROVE  Accounted'
<1>1. \A x \in Rotators : x = w
  BY DEF OneRotator
<1>2. \A x \in Rotators : PassTracks(rot'[x], row'.meta, live', disclosed', minted')
  BY <1>1
<1>3. ASSUME NEW t \in Retriers
      PROVE  RequestTracks(retry'[t], t, metaTok', row'.meta, live', minted')
  <2>1. retry[t] \in RetryState /\ retry'[t] = retry[t]
    BY InvFacts
  <2>2. RequestTracks(retry[t], t, metaTok, row.meta, live, minted)
    BY DEF Accounted
  <2>3. t \in metaTok' => t \in metaTok /\ row'.meta = row.meta
    OBVIOUS
  <2> QED BY <2>1, <2>2, <2>3, RequestGoesOn DEF Onward
<1>4. \A e \in Editors : edit'[e].discarded \subseteq disclosed'
  BY DEF Accounted, Onward
<1> QED BY <1>2, <1>3, <1>4 DEF Accounted

LEMMA OthersAccounted ==
    ASSUME Inv, Accounted, Onward, AlarmIsQueued', Compact(row'.meta), rot' = rot,
           QueueShrinks,
           \A t \in Retriers :
             \/ RequestTracks(retry'[t], t, metaTok', row'.meta, live', minted')
             \/ /\ retry'[t] = retry[t]
                /\ t \in metaTok' => t \in metaTok /\ row'.meta = row.meta,
           \A e \in Editors : \/ edit'[e] = edit[e]
                              \/ edit'[e].discarded \subseteq disclosed'
    PROVE  Accounted'
<1>1. ASSUME NEW x \in Rotators
      PROVE  PassTracks(rot'[x], row'.meta, live', disclosed', minted')
  <2>1. rot[x] \in RotState /\ PassTracks(rot[x], row.meta, live, disclosed, minted)
    BY InvFacts DEF Accounted
  <2>2. outstandingRevokeKeyIDs(row.meta) \subseteq minted
    BY InvFacts DEF CopySafe
  <2> QED BY <2>1, <2>2, PassGoesOn DEF Onward, QueueShrinks
<1>2. ASSUME NEW t \in Retriers
      PROVE  RequestTracks(retry'[t], t, metaTok', row'.meta, live', minted')
  <2>1. CASE RequestTracks(retry'[t], t, metaTok', row'.meta, live', minted')
    BY <2>1
  <2>2. CASE /\ retry'[t] = retry[t]
             /\ t \in metaTok' => t \in metaTok /\ row'.meta = row.meta
    <3>1. retry[t] \in RetryState /\ RequestTracks(retry[t], t, metaTok, row.meta, live, minted)
      BY InvFacts DEF Accounted
    <3> QED BY <2>2, <3>1, RequestGoesOn DEF Onward
  <2> QED BY <2>1, <2>2
<1>3. \A e \in Editors : edit'[e].discarded \subseteq disclosed'
  BY DEF Accounted, Onward
<1> QED BY <1>1, <1>2, <1>3 DEF Accounted

(* A row that is left alone. *)
LEMMA QuietAlarm ==
    ASSUME Inv, Accounted, Onward, row' = row
    PROVE  AlarmIsQueued' /\ Compact(row'.meta) /\ row'.meta = row.meta /\ QueueShrinks
<1>1. Carries(row'.meta, row.meta, live', disclosed') /\ row'.err.keys \subseteq row.err.keys
  BY DEF Carries
<1> QED BY <1>1, AlarmGoesOn DEF Accounted, QueueShrinks

LEMMA EndedTracks ==
    ASSUME NEW r \in RotState, NEW s, NEW m, NEW l, NEW d, NEW i, NEW m2, NEW l2, NEW d2, NEW i2,
           PassTracks(r, m, l, d, i), Ended(r, s), i \subseteq i2
    PROVE  PassTracks(s, m2, l2, d2, i2)
<1>1. CASE s = IdleRot
  <2>1. s.pc = "idle" /\ s.m = NoMeta /\ s.warn = FALSE
    BY <1>1 DEF IdleRot
  <2> QED BY <2>1, NoMetaFacts, KeyIDCompact DEF PassTracks
<1>2. CASE s.pc = "fail" /\ s.prov = r.prov /\ s.m = r.m /\ s.warn = r.warn
  BY <1>2 DEF PassTracks
<1> QED BY <1>1, <1>2 DEF Ended

LEMMA PassKeepsAccount ==
    ASSUME Inv, Accounted, OneRotator, NEW w \in Rotators,
           Snapshot(w) \/ RotateStep(w) \/ Panic(w)
    PROVE  Accounted'
<1> DEFINE r == rot[w]
           s == rot'[w]
<1>1. /\ r \in RotState /\ r.m \in Meta /\ PassSafe(r, row.value, former, live)
      /\ former \subseteq minted /\ live \subseteq minted /\ minted \subseteq Key
      /\ outstandingRevokeKeyIDs(row.meta) \subseteq minted
      /\ row \in Row
  BY InvFacts DEF CopySafe
<1>2. PassTracks(r, row.meta, live, disclosed, minted) /\ Compact(row.meta) /\ Compact(r.m)
  BY DEF Accounted, PassTracks
<1>3. ASSUME Ended(r, s), row' = row, Onward, UNCHANGED <<retry, edit, metaTok>>
      PROVE  Accounted'
  <2>1. PassTracks(s, row'.meta, live', disclosed', minted')
    BY <1>1, <1>2, <1>3, EndedTracks DEF Onward
  <2> QED BY <1>3, <2>1, QuietAlarm, PassAccounted
<1>4. CASE Snapshot(w)
  <2>1. Onward /\ row' = row /\ UNCHANGED <<retry, edit, metaTok, live, minted, disclosed>>
    BY <1>4, SnapshotEffect DEF Onward
  <2>2. PassTracks(s, row'.meta, live', disclosed', minted')
    BY <1>1, <1>2, <1>4, <2>1, SnapshotEffect DEF PassTracks, Carries
  <2> QED BY <2>1, <2>2, QuietAlarm, PassAccounted
<1>5. CASE RefuseSpend(w) \/ EncryptFails(w) \/ Panic(w)
  BY <1>3, <1>5, EndEffect DEF Onward
<1>6. CASE retryOutstandingRevoke(w) \/ RevokeOld(w)
  <2>1. Onward /\ row' = row /\ UNCHANGED <<retry, edit, metaTok, minted, disclosed>>
        /\ live' \subseteq live
    BY <1>2, <1>6, RevokeEffect DEF Onward
  <2>2. /\ s.prov = r.prov /\ Compact(s.m) /\ outstandingRevokeKeyIDs(s.m) \subseteq minted
        /\ Carries(s.m, r.m, live', disclosed')
        /\ s.pc \in {"mint", "read_back"} /\ r.pc \in {"retry", "revoke"}
    BY <1>2, <1>6, RevokeEffect DEF SamePass, PassTracks
  <2>3. PassTracks(s, row'.meta, live', disclosed', minted')
    BY <1>2, <2>1, <2>2 DEF PassTracks, Carries
  <2> QED BY <2>1, <2>3, QuietAlarm, PassAccounted
<1>7. CASE Mint(w)
  <2>1. PICK k \in Key \ minted :
          /\ minted' = minted \cup {k} /\ live' = live \cup {k}
          /\ r.pc = "mint" /\ s.pc = "store" /\ s.prov = r.prov
          /\ outstandingRevokeKeyIDs(r.m) \subseteq outstandingRevokeKeyIDs(s.m)
          /\ outstandingRevokeKeyIDs(s.m)
               \subseteq outstandingRevokeKeyIDs(r.m) \cup ({r.m.keyID} \ {NoKey})
          /\ Compact(r.m) => Compact(s.m)
          /\ UNCHANGED <<row, retry, edit, metaTok, disclosed>>
    BY <1>7, MintEffect
  <2>3. Onward /\ row' = row /\ UNCHANGED <<retry, edit, metaTok, disclosed>>
    BY <1>1, <2>1 DEF Onward
  <2>4. r.m.keyID \in minted \cup {NoKey}
    BY <1>1, <2>1 DEF PassSafe, CopySafe
  <2>6. PassTracks(s, row'.meta, live', disclosed', minted')
    BY <1>1, <1>2, <2>1, <2>3, <2>4 DEF PassTracks, Carries
  <2> QED BY <2>3, <2>6, QuietAlarm, PassAccounted
<1>8. CASE Generate(w)
  <2>1. Onward /\ row' = row /\ UNCHANGED <<retry, edit, metaTok, disclosed>>
    BY <1>1, <1>8, GenerateEffect DEF Onward
  <2>2. PassTracks(s, row'.meta, live', disclosed', minted')
    BY <1>1, <1>2, <1>8, <2>1, GenerateEffect DEF PassTracks, Carries
  <2> QED BY <2>1, <2>2, QuietAlarm, PassAccounted
<1>9. CASE MintFails(w)
  <2>1. Onward
    BY <1>1, <1>9, MintFailsEffect DEF Onward
  <2> QED BY <1>3, <1>9, <2>1, MintFailsEffect
<1>10. CASE persistRotatedValue(w)
  <2>1. /\ Onward
        /\ UNCHANGED <<retry, edit, metaTok, live, minted, disclosed>>
        /\ r.pc = "store"
    BY <1>10, persistRotatedValueEffect DEF Onward
  <2>2. CASE row' = row /\ Ended(r, s)
    BY <1>3, <2>1, <2>2
  <2>3. CASE /\ s.pc = IF RoleOf[r.prov] = "auto" THEN "revoke" ELSE "record"
             /\ SamePass(r, s)
             /\ s.m = r.m
             /\ s.warn = r.warn
             /\ row' = [row EXCEPT !.value = r.new]
    <3>1. row'.meta = row.meta /\ row'.err = row.err
      BY <1>1, <2>3 DEF Row
    <3>2. AlarmIsQueued'
      BY <2>1, <3>1 DEF Accounted, AlarmIsQueued
    <3>3. PassTracks(s, row'.meta, live', disclosed', minted')
      BY <1>2, <2>1, <2>3, <3>1 DEF PassTracks, SamePass
    <3> QED BY <1>2, <2>1, <3>1, <3>2, <3>3, PassAccounted
  <2> QED BY <1>10, <2>2, <2>3, persistRotatedValueEffect
<1>11. CASE ReadBack(w)
  <2>1. Onward /\ row' = row /\ UNCHANGED <<retry, edit, metaTok, live, minted, disclosed>>
    BY <1>11, ReadBackEffect DEF Onward
  <2>2. PassTracks(s, row'.meta, live', disclosed', minted')
    BY <1>2, <1>11, <2>1, ReadBackEffect DEF PassTracks, Carries, SamePass
  <2> QED BY <2>1, <2>2, QuietAlarm, PassAccounted
<1>12. CASE WriteBack(w)
  <2>1. Onward /\ UNCHANGED <<retry, edit, live, minted, disclosed>>
    BY <1>12, WriteBackEffect DEF Onward
  <2>2. s.m = r.m /\ s.prov = r.prov /\ s.warn = r.warn /\ s.pc = "record" /\ r.pc = "write_back"
    BY <1>12, WriteBackEffect DEF SamePass
  <2>3. CASE row' = [row EXCEPT !.meta = r.m] /\ metaTok' = {}
    <3>1. row'.meta = r.m /\ row'.err = row.err
      BY <1>1, <2>3 DEF Row
    <3>2. Carries(r.m, row.meta, live, disclosed)
      BY <1>2, <2>2 DEF PassTracks
    <3>3. AlarmIsQueued'
      BY <2>1, <3>1, <3>2 DEF Accounted, AlarmIsQueued, Carries
    <3>4. PassTracks(s, row'.meta, live', disclosed', minted')
      BY <1>2, <2>1, <2>2, <3>1 DEF PassTracks, Carries
    <3> QED BY <1>2, <2>1, <2>3, <3>1, <3>3, <3>4, PassAccounted
  <2>4. CASE row' = row /\ s.clause # "" /\ metaTok' = metaTok
    <3>1. PassTracks(s, row'.meta, live', disclosed', minted')
      BY <1>2, <2>1, <2>2, <2>4 DEF PassTracks
    <3> QED BY <2>1, <2>4, <3>1, QuietAlarm, PassAccounted
  <2> QED BY <1>12, <2>3, <2>4, WriteBackEffect
<1>13. CASE \/ recordRotationOutcome(w)
            \/ recordRotationOutcomeUndeliverable(w)
            \/ recordRotationFailure(w)
  <2>1. Onward /\ UNCHANGED <<retry, edit, metaTok, live, minted>> /\ row'.meta = row.meta
    BY <1>13, RecordersEffect DEF Onward
  <2>2. PassTracks(s, row'.meta, live', disclosed', minted')
    <3>1. Ended(r, s)
      BY <1>13, RecordersEffect DEF Ended
    <3> QED BY <1>1, <1>2, <2>1, <3>1, EndedTracks
  <2>3. AlarmIsQueued'
    <3>1. CASE row'.err = row.err \/ row'.err.keys = {}
      BY <2>1, <3>1 DEF Accounted, AlarmIsQueued, Onward
    <3>2. CASE /\ r.pc = "record" /\ r.warn
               /\ row'.err.keys \subseteq outstandingRevokeKeyIDs(r.m)
      <4>1. outstandingRevokeKeyIDs(r.m) \subseteq minted /\ NoKey \notin minted
        BY <1>1, <1>2, QueueAssumption DEF PassTracks
      <4>2. CASE r.clause = ""
        <5>1. Carries(row.meta, r.m, live, disclosed)
          BY <1>2, <3>2, <4>2 DEF PassTracks
        <5> QED BY <2>1, <3>2, <4>1, <5>1 DEF AlarmIsQueued, Carries, Onward
      <4>3. CASE r.clause # ""
        <5>1. outstandingRevokeKeyIDs(r.m) \subseteq disclosed'
          BY <1>13, <3>2, <4>1, <4>3, RecordersEffect
        <5> QED BY <2>1, <3>2, <4>1, <5>1 DEF AlarmIsQueued
      <4> QED BY <4>2, <4>3
    <3> QED BY <1>13, <3>1, <3>2, RecordersEffect
  <2> QED BY <1>2, <2>1, <2>2, <2>3, PassAccounted
<1> QED BY <1>4, <1>5, <1>6, <1>7, <1>8, <1>9, <1>10, <1>11, <1>12, <1>13 DEF RotateStep

(* A request ends, or leaves the row alone. *)
LEMMA RequestAccounted ==
    ASSUME Inv, Accounted, Onward, NEW t \in Retriers, NEW r, RetryStep(t, r), UNCHANGED <<rot, edit>>,
           AlarmIsQueued', Compact(row'.meta), QueueShrinks,
           RequestTracks(r, t, metaTok', row'.meta, live', minted'),
           metaTok' = {} \/ (metaTok' \subseteq metaTok \cup {t} /\ row'.meta = row.meta)
    PROVE  Accounted'
<1>1. retry'[t] = r /\ \A u \in Retriers : u # t => retry'[u] = retry[u]
  BY DEF RetryStep, Inv, TypeOK
<1>2. \A u \in Retriers :
        \/ RequestTracks(retry'[u], u, metaTok', row'.meta, live', minted')
        \/ /\ retry'[u] = retry[u]
           /\ u \in metaTok' => u \in metaTok /\ row'.meta = row.meta
  BY <1>1
<1> QED BY <1>2, OthersAccounted

LEMMA IdleRequestTracks ==
    ASSUME NEW t, NEW tok, NEW m, NEW l, NEW i
    PROVE  RequestTracks(IdleRetry, t, tok, m, l, i)
<1>1. IdleRetry.pc = "idle" /\ IdleRetry.m = NoMeta
  BY DEF IdleRetry
<1> QED BY <1>1, KeyIDCompact DEF RequestTracks

(* The clause loses the settled keys. *)
LEMMA SettleFacts ==
    ASSUME NEW e \in RotationError, NEW ids
    PROVE  withoutRevokeStillLiveKeys(e, ids).keys = e.keys \ ids
  BY DEF withoutRevokeStillLiveKeys, RotationError

LEMMA RequestKeepsAccount ==
    ASSUME Inv, Accounted, NEW t \in Retriers, RetrySnapshot(t) \/ RetryProgress(t)
    PROVE  Accounted'
<1> DEFINE r == retry[t]
<1>1. /\ r \in RetryState /\ r.m \in Meta /\ RequestSafe(r, row.value, former)
      /\ former \subseteq minted /\ live \subseteq minted /\ minted \subseteq Key
      /\ row \in Row /\ row.meta \in Meta /\ row.err \in RotationError
  BY InvFacts
<1>2. RequestTracks(r, t, metaTok, row.meta, live, minted) /\ Compact(row.meta) /\ Compact(r.m)
  BY DEF Accounted, RequestTracks
<1>3. ASSUME RetryStep(t, IdleRetry), row' = row, Onward, UNCHANGED <<rot, edit>>,
             metaTok' \subseteq metaTok
      PROVE  Accounted'
  BY <1>3, QuietAlarm, IdleRequestTracks, RequestAccounted
<1>4. CASE RetrySnapshot(t)
  <2> DEFINE s == [pc |-> "call", prov |-> row.provider, val |-> row.value,
                   m |-> row.meta, target |-> row.meta.head, err |-> row.err, tries |-> 0]
  <2>1. RequestTracks(s, t, metaTok', row.meta, live, minted)
    BY <1>2, <1>4 DEF RequestTracks, RetrySnapshot
  <2>2. /\ RetryStep(t, s) /\ row' = row /\ metaTok' \subseteq metaTok \cup {t}
        /\ UNCHANGED <<rot, edit, live, minted, disclosed>>
    BY <1>4 DEF RetrySnapshot, upstream, history
  <2> HIDE DEF s
  <2>3. Onward
    BY <2>2 DEF Onward
  <2> QED BY <2>1, <2>2, <2>3, QuietAlarm, RequestAccounted
<1>5. CASE RetryCall(t)
  <2>1. PICK ok \in BOOLEAN :
        /\ performPendingRevoke(r.prov, r.m, r.val, ok)
        /\ RetryStep(t, IF ok THEN [r EXCEPT !.pc = "cas", !.m = AfterRevoke(@, ok)]
                              ELSE IdleRetry)
        /\ metaTok' = IF ok THEN metaTok ELSE metaTok \ {t}
    BY <1>5 DEF RetryCall
  <2>2. /\ live' \subseteq live
        /\ ok => r.m.head \notin live'
        /\ AfterRevoke(r.m, ok).keyID = r.m.keyID
        /\ Compact(AfterRevoke(r.m, ok))
        /\ outstandingRevokeKeyIDs(AfterRevoke(r.m, ok)) \subseteq outstandingRevokeKeyIDs(r.m)
    BY <1>1, <1>2, <2>1, RevokeKeeps
  <2>3. row' = row /\ r.pc = "call" /\ UNCHANGED <<rot, edit, minted, disclosed>>
    BY <1>5 DEF RetryCall, history
  <2>4. Onward
    BY <2>2, <2>3 DEF Onward
  <2>5. CASE ok = TRUE
    <3> DEFINE s == [r EXCEPT !.pc = "cas", !.m = AfterRevoke(@, TRUE)]
    <3>1. s.pc = "cas" /\ s.m = AfterRevoke(r.m, TRUE) /\ s.target = r.target
      BY <1>1 DEF RetryState
    <3>2. RetryStep(t, s) /\ metaTok' = metaTok
      BY <2>1, <2>5
    <3>3. r.target = r.m.head /\ r.m.head \in former
      BY <1>1, <1>2, <2>3, NamedKeys DEF RequestTracks, RequestSafe, CopySafe
    <3>4. outstandingRevokeKeyIDs(r.m)
            \subseteq outstandingRevokeKeyIDs(AfterRevoke(r.m, TRUE)) \cup {r.m.head}
      BY <1>1, DischargeKeeps DEF AfterRevoke
    <3> HIDE DEF s
    <3>5. RequestTracks(s, t, metaTok', row'.meta, live', minted')
      BY <1>1, <1>2, <2>2, <2>3, <2>5, <3>1, <3>2, <3>3, <3>4 DEF RequestTracks
    <3> QED BY <2>3, <2>4, <3>2, <3>5, QuietAlarm, RequestAccounted
  <2>6. CASE ok = FALSE
    BY <1>3, <2>1, <2>3, <2>4, <2>6
  <2> QED BY <2>5, <2>6
<1>6. CASE RetryCAS(t)
  <2> DEFINE m2 == Settled(r.m, r.target)
             settled == [r EXCEPT !.pc = "recheck"]
             missed == [r EXCEPT !.pc = "refetch", !.tries = @ + 1]
  <2>1. r.pc = "cas" /\ UNCHANGED <<rot, edit, live, minted, disclosed>>
    BY <1>6 DEF RetryCAS, upstream, history
  <2>2. Onward
    BY <2>1 DEF Onward
  <2>3. r.target \in minted \ live
    BY <1>2, <2>1 DEF RequestTracks
  <2>4. CASE /\ t \in metaTok
             /\ row' = [row EXCEPT !.meta = m2]
             /\ metaTok' = {}
             /\ RetryStep(t, settled)
    <3>1. /\ Compact(m2)
          /\ outstandingRevokeKeyIDs(m2) \subseteq outstandingRevokeKeyIDs(r.m)
          /\ outstandingRevokeKeyIDs(r.m) \subseteq outstandingRevokeKeyIDs(m2) \cup {r.target}
      BY <1>1, <1>2, DischargeFacts, DischargeKeeps DEF Settled
    <3>2. /\ outstandingRevokeKeyIDs(r.m) \subseteq outstandingRevokeKeyIDs(row.meta)
          /\ outstandingRevokeKeyIDs(row.meta) \subseteq outstandingRevokeKeyIDs(r.m) \cup {r.target}
      BY <1>2, <2>1, <2>4 DEF RequestTracks
    <3>3. settled.pc = "recheck" /\ settled.m = r.m /\ settled.target = r.target
      BY <1>1 DEF RetryState
    <3> HIDE DEF m2, settled
    <3>4. row'.meta = m2 /\ row'.err = row.err
      BY <1>1, <2>4 DEF Row
    <3>5. QueueShrinks
      BY <2>1, <2>3, <3>1, <3>2, <3>4 DEF QueueShrinks, Carries
    <3>6. AlarmIsQueued'
      BY <2>2, <3>4, <3>5, AlarmGoesOn DEF QueueShrinks, Accounted
    <3>7. RequestTracks(settled, t, metaTok', row'.meta, live', minted')
      BY <1>2, <2>1, <2>3, <2>4, <3>3 DEF RequestTracks
    <3> QED BY <2>1, <2>2, <2>4, <3>1, <3>4, <3>5, <3>6, <3>7, RequestAccounted
  <2>5. CASE RetryStep(t, missed) /\ UNCHANGED <<row, metaTok>>
    <3>1. missed.pc = "refetch" /\ missed.m = r.m /\ missed.target = r.target
      BY <1>1 DEF RetryState
    <3> HIDE DEF missed
    <3>2. RequestTracks(missed, t, metaTok', row'.meta, live', minted')
      BY <1>2, <2>1, <2>3, <3>1 DEF RequestTracks
    <3> QED BY <2>1, <2>2, <2>5, <3>2, QuietAlarm, RequestAccounted
  <2>6. CASE RetryStep(t, IdleRetry) /\ metaTok' = metaTok \ {t} /\ UNCHANGED row
    BY <1>3, <2>1, <2>2, <2>6
  <2> QED BY <1>6, <2>4, <2>5, <2>6 DEF RetryCAS
<1>7. CASE RetryRefetch(t)
  <2> DEFINE again == row.meta.head = r.target /\ r.tries < rotationLogCASAttempts
             s == [r EXCEPT !.pc = "cas", !.m = row.meta]
  <2>1. r.pc = "refetch" /\ row' = row /\ UNCHANGED <<rot, edit, live, minted, disclosed>>
    BY <1>7 DEF RetryRefetch, upstream, history
  <2>2. Onward
    BY <2>1 DEF Onward
  <2>3. CASE again
    <3>1. s.pc = "cas" /\ s.m = row.meta /\ s.target = r.target
      BY <1>1 DEF RetryState
    <3>2. RetryStep(t, s) /\ metaTok' = metaTok \cup {t}
      BY <1>7, <2>3 DEF RetryRefetch
    <3> HIDE DEF s
    <3>3. RequestTracks(s, t, metaTok', row'.meta, live', minted')
      BY <1>2, <2>1, <3>1 DEF RequestTracks
    <3> QED BY <2>1, <2>2, <3>2, <3>3, QuietAlarm, RequestAccounted
  <2>4. CASE ~again
    <3>1. RetryStep(t, IdleRetry) /\ metaTok' = metaTok \ {t}
      BY <1>7, <2>4 DEF RetryRefetch
    <3> QED BY <1>3, <2>1, <2>2, <3>1
  <2> QED BY <2>3, <2>4
<1>8. CASE RetryRecheck(t)
  <2> DEFINE s == [r EXCEPT !.pc = "clear"]
  <2>1. r.pc = "recheck" /\ row' = row /\ UNCHANGED <<rot, edit, live, minted, disclosed>>
    BY <1>8 DEF RetryRecheck, upstream, history
  <2>2. Onward
    BY <2>1 DEF Onward
  <2>3. CASE RetryStep(t, s) /\ metaTok' = metaTok \cup {t}
    <3>1. s.pc = "clear" /\ s.m = r.m /\ s.target = r.target
      BY <1>1 DEF RetryState
    <3> HIDE DEF s
    <3>2. RequestTracks(s, t, metaTok', row'.meta, live', minted')
      BY <1>2, <2>1, <3>1 DEF RequestTracks
    <3> QED BY <2>1, <2>2, <2>3, <3>2, QuietAlarm, RequestAccounted
  <2>4. CASE RetryStep(t, IdleRetry) /\ UNCHANGED metaTok
    BY <1>3, <2>1, <2>2, <2>4
  <2> QED BY <1>8, <2>3, <2>4 DEF RetryRecheck
<1>9. CASE RetryClear(t)
  <2>1. /\ RetryStep(t, IdleRetry) /\ metaTok' = metaTok \ {t}
        /\ UNCHANGED <<rot, edit, live, minted, disclosed>>
    BY <1>9 DEF RetryClear, upstream, history
  <2>2. Onward
    BY <2>1 DEF Onward
  <2>3. row'.meta = row.meta /\ row'.err.keys \subseteq row.err.keys
    BY <1>1, <1>9, SettleFacts DEF RetryClear, clearRevokeHalfOfRotationError, Row
  <2>4. QueueShrinks
    BY <2>3 DEF QueueShrinks, Carries
  <2>5. AlarmIsQueued'
    BY <2>2, <2>3, <2>4, AlarmGoesOn DEF QueueShrinks, Accounted
  <2> QED BY <1>2, <2>1, <2>2, <2>3, <2>4, <2>5, IdleRequestTracks, RequestAccounted
<1> QED BY <1>4, <1>5, <1>6, <1>7, <1>8, <1>9 DEF RetryProgress

LEMMA ResolveKeepsAccount ==
    ASSUME Inv, Accounted, ResolvePendingRevoke
    PROVE  Accounted'
<1> DEFINE k == row.meta.head
           m2 == dischargePendingRevokeHead(row.meta)
           e2 == withoutRevokeStillLiveKeys(row.err, {k})
<1>1. /\ row' = [row EXCEPT !.meta = m2, !.err = e2]
      /\ disclosed' = disclosed \cup {k}
      /\ metaTok' = {}
      /\ UNCHANGED <<live, minted, rot, retry, edit>>
  BY DEF ResolvePendingRevoke, upstream
<1>2. row \in Row /\ row.meta \in Meta /\ row.err \in RotationError
  BY InvFacts
<1>3. /\ Compact(m2)
      /\ outstandingRevokeKeyIDs(m2) \subseteq outstandingRevokeKeyIDs(row.meta)
      /\ outstandingRevokeKeyIDs(row.meta) \subseteq outstandingRevokeKeyIDs(m2) \cup {k}
  BY <1>2, DischargeFacts, DischargeKeeps DEF Accounted
<1>4. e2.keys \subseteq row.err.keys
  BY <1>2, SettleFacts
<1> HIDE DEF m2, e2
<1>5. row'.meta = m2 /\ row'.err = e2
  BY <1>1, <1>2 DEF Row
<1>6. Onward /\ QueueShrinks
  BY <1>1, <1>3, <1>5 DEF Onward, QueueShrinks, Carries
<1>7. AlarmIsQueued'
  BY <1>4, <1>5, <1>6, AlarmGoesOn DEF QueueShrinks, Accounted
<1> QED BY <1>1, <1>3, <1>5, <1>6, <1>7, OthersAccounted

(* A save discloses what it discards, and reseals the column or leaves it.  *)
LEMMA CommitAccounted ==
    ASSUME Inv, Accounted, NEW e \in Editors, NEW p \in Provider, NEW v \in Key,
           NEW kid \in OptKey, NEW sent \in BOOLEAN, NEW touched \in BOOLEAN,
           Commit(e, p, v, kid, sent, touched), minted \subseteq minted',
           live' \cap minted \subseteq live
    PROVE  Accounted' /\ QueueShrinks
<1> DEFINE meta == reconcileProviderMetaForStorage(row.meta, kid, p = row.provider)
           discarded == IF p # row.provider /\ row.meta.head # NoKey
                          THEN outstandingRevokeKeyIDs(row.meta) ELSE {}
           next(pc) == [pc |-> pc, kid |-> NoKey, from |-> row.err, discarded |-> discarded]
<1>1. row \in Row /\ row.meta \in Meta /\ Compact(row.meta)
  BY InvFacts DEF Accounted
<1>2. /\ row' = [row EXCEPT !.provider = p, !.value = v, !.meta = meta]
      /\ disclosed' = disclosed \cup discarded \cup ({row.value} \ {v})
      /\ UNCHANGED <<rot, retry>>
      /\ \/ EditStep(e, next("clear_meta"))
         \/ EditStep(e, next("recheck"))
         \/ EditStep(e, IdleEdit)
  BY DEF Commit
<1>3. \A u \in metaTok' : u = e \/ (u \in metaTok /\ meta = row.meta)
  BY DEF Commit
<1>4. /\ Compact(meta)
      /\ outstandingRevokeKeyIDs(meta) \subseteq outstandingRevokeKeyIDs(row.meta)
      /\ outstandingRevokeKeyIDs(row.meta) \subseteq outstandingRevokeKeyIDs(meta) \cup discarded
  <2>1. CASE p = row.provider
    BY <1>1, <2>1, KeyIDFacts, KeyIDCompact DEF reconcileProviderMetaForStorage
  <2>2. CASE p # row.provider
    <3>1. meta = [NoMeta EXCEPT !.keyID = kid]
      BY <2>2 DEF reconcileProviderMetaForStorage
    <3>2. Compact(meta) /\ outstandingRevokeKeyIDs(meta) = {}
      BY <3>1, NoMetaFacts, KeyIDFacts, KeyIDCompact
    <3>3. outstandingRevokeKeyIDs(row.meta) \subseteq discarded
      <4>1. CASE row.meta.head = NoKey
        <5>1. row.meta.backlog = << >>
          BY <1>1, <4>1 DEF Compact
        <5> QED BY <4>1, <5>1 DEF outstandingRevokeKeyIDs, Backlogged
      <4>2. CASE row.meta.head # NoKey
        BY <2>2, <4>2
      <4> QED BY <4>1, <4>2
    <3> QED BY <3>2, <3>3
  <2> QED BY <2>1, <2>2
<1>5. /\ next("clear_meta").discarded = discarded
      /\ next("recheck").discarded = discarded
      /\ IdleEdit.discarded = {}
  BY DEF IdleEdit
<1> HIDE DEF meta, discarded, next
<1>6. row'.meta = meta /\ row'.err = row.err
  BY <1>1, <1>2 DEF Row
<1>7. Onward /\ QueueShrinks
  BY <1>2, <1>4, <1>6 DEF Onward, QueueShrinks, Carries
<1>8. AlarmIsQueued'
  BY <1>6, <1>7, AlarmGoesOn DEF QueueShrinks, Accounted
<1>9. /\ edit'[e].discarded \subseteq disclosed'
      /\ \A u \in Editors : u # e => edit'[u] = edit[u]
  BY <1>2, <1>5 DEF EditStep, Inv, TypeOK
<1>10. \A t \in Retriers : t \in metaTok' => t \in metaTok /\ row'.meta = row.meta
  BY <1>3, <1>6, RotationAssumption
<1> QED BY <1>2, <1>4, <1>6, <1>7, <1>8, <1>9, <1>10, OthersAccounted

LEMMA EditorKeepsAccount ==
    ASSUME Inv, Accounted, NEW e \in Editors,
           \/ OpenEditor(e) \/ SaveConfig(e) \/ ChangeProvider(e) \/ PasteCredential(e)
           \/ ClearMetaWrite(e) \/ EditRecheck(e) \/ EditClear(e)
    PROVE  Accounted' /\ QueueShrinks
<1> DEFINE r == edit[e]
<1>1. /\ r \in EditState /\ r.kid \in OptKey /\ r.from \in RotationError
      /\ row \in Row /\ row.meta \in Meta /\ row.err \in RotationError
      /\ row.value \in Key /\ row.provider \in Provider /\ row.meta.keyID \in OptKey
      /\ live \subseteq minted /\ r.discarded \subseteq disclosed /\ Compact(row.meta)
  BY InvFacts, NamedKeys DEF EditState, Accounted
<1>2. ASSUME NEW s, EditStep(e, s), s.discarded \subseteq disclosed,
             metaTok' \subseteq metaTok, row'.meta = row.meta,
             row'.err.keys \subseteq row.err.keys,
             UNCHANGED <<rot, retry, live, minted, disclosed>>
      PROVE  Accounted' /\ QueueShrinks
  <2>1. edit'[e] = s /\ \A u \in Editors : u # e => edit'[u] = edit[u]
    BY <1>2 DEF EditStep, Inv, TypeOK
  <2>2. Onward /\ QueueShrinks
    BY <1>2 DEF Onward, QueueShrinks, Carries
  <2>3. AlarmIsQueued'
    BY <1>2, <2>2, AlarmGoesOn DEF QueueShrinks, Accounted
  <2> QED BY <1>1, <1>2, <2>1, <2>2, <2>3, OthersAccounted
<1>3. IdleEdit.discarded = {}
  BY DEF IdleEdit
<1>4. CASE OpenEditor(e)
  <2>1. PICK kid : EditStep(e, [IdleEdit EXCEPT !.pc = "open", !.kid = kid])
    BY <1>4 DEF OpenEditor
  <2>2. [IdleEdit EXCEPT !.pc = "open", !.kid = kid].discarded = {}
    BY DEF IdleEdit
  <2> QED BY <1>2, <1>4, <2>1, <2>2 DEF OpenEditor, upstream, history
<1>5. CASE SaveConfig(e)
  <2>1. PICK touched \in BOOLEAN : Commit(e, row.provider, row.value, r.kid, TRUE, touched)
    BY <1>5 DEF SaveConfig
  <2>2. minted' = minted /\ live' = live
    BY <1>5 DEF SaveConfig, upstream
  <2> QED BY <1>1, <2>1, <2>2, CommitAccounted
<1>6. CASE ChangeProvider(e)
  <2>1. PICK p \in Provider : Commit(e, p, row.value, row.meta.keyID, FALSE, FALSE)
    BY <1>6 DEF ChangeProvider
  <2>2. minted' = minted /\ live' = live
    BY <1>6 DEF ChangeProvider, upstream
  <2> QED BY <1>1, <2>1, <2>2, CommitAccounted
<1>7. CASE PasteCredential(e)
  <2>1. PICK k \in Key \ minted, tracked \in BOOLEAN :
          /\ minted' = minted \cup {k}
          /\ live' = live \cup {k}
          /\ Commit(e, HomeOf[k], k, IF tracked THEN k ELSE row.meta.keyID, tracked, FALSE)
    BY <1>7 DEF PasteCredential
  <2> DEFINE kid == IF tracked THEN k ELSE row.meta.keyID
             p == HomeOf[k]
  <2>2. kid \in OptKey /\ p \in Provider /\ k \in Key
    BY <1>1, RotationAssumption DEF OptKey
  <2>3. Commit(e, p, k, kid, tracked, FALSE)
    BY <2>1
  <2> HIDE DEF kid, p
  <2>4. minted \subseteq minted' /\ live' \cap minted \subseteq live
    BY <2>1
  <2> QED BY <2>2, <2>3, <2>4, CommitAccounted
<1>8. CASE ClearMetaWrite(e)
  <2> DEFINE next(from) == [r EXCEPT !.pc = "recheck", !.from = from]
  <2>1. \A from : next(from).discarded = r.discarded
    BY <1>1 DEF EditState
  <2>2. withoutMetaWriteClauses(r.from).keys = r.from.keys
    BY <1>1 DEF withoutMetaWriteClauses, RotationError
  <2>3. row'.meta = row.meta /\ row'.err.keys \subseteq row.err.keys
    BY <1>1, <1>8, <2>2 DEF ClearMetaWrite, Row
  <2>4. EditStep(e, IdleEdit) \/ \E from : EditStep(e, next(from))
    BY <1>8 DEF ClearMetaWrite
  <2>5. metaTok' \subseteq metaTok /\ UNCHANGED <<rot, retry, live, minted, disclosed>>
    BY <1>8 DEF ClearMetaWrite, upstream, history
  <2> HIDE DEF next
  <2> QED BY <1>1, <1>2, <1>3, <2>1, <2>3, <2>4, <2>5
<1>9. CASE EditRecheck(e)
  <2> DEFINE next == [r EXCEPT !.pc = "clear_revoke"]
  <2>1. next.discarded = r.discarded
    BY <1>1 DEF EditState
  <2>2. EditStep(e, next) \/ EditStep(e, IdleEdit)
    BY <1>9 DEF EditRecheck
  <2>3. row' = row /\ metaTok' \subseteq metaTok /\ UNCHANGED <<rot, retry, live, minted, disclosed>>
    BY <1>9 DEF EditRecheck, upstream, history
  <2> HIDE DEF next
  <2> QED BY <1>1, <1>2, <1>3, <2>1, <2>2, <2>3
<1>10. CASE EditClear(e)
  <2>1. row'.meta = row.meta /\ row'.err.keys \subseteq row.err.keys
    BY <1>1, <1>10, SettleFacts DEF EditClear, clearRevokeHalfOfRotationError, Row
  <2>2. /\ EditStep(e, IdleEdit) /\ metaTok' \subseteq metaTok
        /\ UNCHANGED <<rot, retry, live, minted, disclosed>>
    BY <1>10 DEF EditClear, upstream, history
  <2> QED BY <1>2, <1>3, <2>1, <2>2
<1> QED BY <1>4, <1>5, <1>6, <1>7, <1>8, <1>9, <1>10

LEMMA CrashKeepsAccount ==
    ASSUME Inv, Accounted, Crash
    PROVE  Accounted'
<1>1. /\ \A w \in Rotators : rot'[w] = IdleRot
      /\ \A t \in Retriers : retry'[t] = IdleRetry
      /\ \A e \in Editors : edit'[e] = IdleEdit
      /\ UNCHANGED <<row, live, minted, disclosed>>
  BY DEF Crash, upstream, history
<1>2. Onward
  BY <1>1 DEF Onward
<1>3. ASSUME NEW w \in Rotators
      PROVE  PassTracks(rot'[w], row'.meta, live', disclosed', minted')
  <2>1. /\ Ended(rot[w], rot'[w]) /\ rot[w] \in RotState
        /\ PassTracks(rot[w], row.meta, live, disclosed, minted)
    BY <1>1, InvFacts DEF Ended, Accounted
  <2> QED BY <1>1, <2>1, EndedTracks
<1>4. \A t \in Retriers : RequestTracks(retry'[t], t, metaTok', row'.meta, live', minted')
  BY <1>1, IdleRequestTracks
<1>5. \A e \in Editors : edit'[e].discarded \subseteq disclosed'
  BY <1>1 DEF IdleEdit
<1> QED BY <1>1, <1>2, <1>3, <1>4, <1>5, QuietAlarm DEF Accounted

LEMMA NextAccounted ==
    ASSUME Inv, Accounted, OneRotator, [Next]_vars
    PROVE  Accounted'
<1>1. CASE UNCHANGED vars
  <2>1. UNCHANGED <<row, live, minted, rot, retry, edit, metaTok, disclosed>>
    BY <1>1 DEF vars
  <2> QED BY <2>1 DEF Accounted, AlarmIsQueued
<1> QED BY <1>1, PassKeepsAccount, RequestKeepsAccount, ResolveKeepsAccount,
           EditorKeepsAccount, CrashKeepsAccount DEF Next

LEMMA InitAccounted ==
    ASSUME Init
    PROVE  Accounted
<1>1. Inv
  BY InitInv
<1>2. PICK k \in Key, kid \in OptKey :
        /\ row = [value |-> k, provider |-> HomeOf[k], err |-> Clean,
                  meta |-> [NoMeta EXCEPT !.keyID = kid]]
        /\ rot = [w \in Rotators |-> IdleRot]
        /\ retry = [t \in Retriers |-> IdleRetry]
        /\ edit = [e \in Editors |-> IdleEdit]
  BY DEF Init, OptKey
<1>3. row.meta = [NoMeta EXCEPT !.keyID = kid] /\ row.err.keys = {}
  BY <1>2 DEF Clean
<1>4. Compact(row.meta) /\ AlarmIsQueued
  BY <1>3, NoMetaFacts, KeyIDCompact DEF AlarmIsQueued
<1>5. IdleRot.pc = "idle" /\ IdleRot.m = NoMeta /\ IdleRot.warn = FALSE /\ IdleEdit.discarded = {}
  BY DEF IdleRot, IdleEdit
<1>6. \A w \in Rotators : PassTracks(rot[w], row.meta, live, disclosed, minted)
  BY <1>2, <1>5, NoMetaFacts, KeyIDCompact DEF PassTracks
<1>7. \A t \in Retriers : RequestTracks(retry[t], t, metaTok, row.meta, live, minted)
  BY <1>2, IdleRequestTracks
<1> QED BY <1>2, <1>4, <1>5, <1>6, <1>7 DEF Accounted

(* Why an id leaves the alarm. *)
SettlesOnlyItsKey ==
    \A k \in row.err.keys \ row'.err.keys :
        \/ k \notin live
        \/ k \in disclosed'
        \/ k \in outstandingRevokeKeyIDs(row'.meta) /\ rot' # rot

LEMMA NextSettles ==
    ASSUME Inv, Accounted, [Next]_vars
    PROVE  SettlesOnlyItsKey
<1>1. row \in Row /\ row.err \in RotationError
  BY InvFacts
<1>2. ASSUME row'.err.keys = row.err.keys
      PROVE  SettlesOnlyItsKey
  BY <1>2 DEF SettlesOnlyItsKey
<1>3. ASSUME NEW w \in Rotators, Snapshot(w) \/ RotateStep(w) \/ Panic(w)
      PROVE  SettlesOnlyItsKey
  <2>1. CASE \/ recordRotationOutcome(w)
             \/ recordRotationOutcomeUndeliverable(w)
             \/ recordRotationFailure(w)
    <3>1. row'.meta = row.meta /\ disclosed \subseteq disclosed' /\ rot' # rot
      <4>1. IdleRot.pc = "idle"
        BY DEF IdleRot
      <4> QED BY <2>1, <4>1, RecordersEffect
    <3> QED BY <3>1 DEF SettlesOnlyItsKey, Accounted, AlarmIsQueued
  <2>2. CASE persistRotatedValue(w)
    <3>1. row'.err = row.err
      BY <1>1, <2>2 DEF persistRotatedValue, Row
    <3> QED BY <1>2, <3>1
  <2>3. CASE WriteBack(w)
    <3>1. row'.err = row.err
      BY <1>1, <2>3 DEF WriteBack, Row
    <3> QED BY <1>2, <3>1
  <2>4. CASE row' = row
    BY <1>2, <2>4
  <2> QED BY <1>3, <2>1, <2>2, <2>3, <2>4
          DEF RotateStep, Snapshot, RefuseSpend, retryOutstandingRevoke, Mint, MintFails,
              Generate, EncryptFails, RevokeOld, ReadBack, Panic
<1>4. ASSUME NEW t \in Retriers, RetrySnapshot(t) \/ RetryProgress(t)
      PROVE  SettlesOnlyItsKey
  <2>1. CASE RetryClear(t)
    <3>1. retry[t].target \notin live
      BY <2>1 DEF RetryClear, Accounted, RequestTracks
    <3>2. row.err.keys \ row'.err.keys \subseteq {retry[t].target}
      BY <1>1, <2>1, SettleFacts DEF RetryClear, clearRevokeHalfOfRotationError, Row
    <3> QED BY <3>1, <3>2 DEF SettlesOnlyItsKey
  <2>2. CASE RetryCAS(t)
    <3>1. row'.err = row.err
      BY <1>1, <2>2 DEF RetryCAS, Row
    <3> QED BY <1>2, <3>1
  <2>3. CASE row' = row
    BY <1>2, <2>3
  <2> QED BY <1>4, <2>1, <2>2, <2>3
          DEF RetryProgress, RetrySnapshot, RetryCall, RetryRefetch, RetryRecheck
<1>5. CASE ResolvePendingRevoke
  <2> DEFINE k == row.meta.head
             m2 == dischargePendingRevokeHead(row.meta)
             e2 == withoutRevokeStillLiveKeys(row.err, {k})
  <2>1. row' = [row EXCEPT !.meta = m2, !.err = e2] /\ k \in disclosed'
    BY <1>5 DEF ResolvePendingRevoke
  <2>2. e2.keys = row.err.keys \ {k}
    BY <1>1, SettleFacts
  <2> HIDE DEF m2, e2
  <2>3. row'.err = e2
    BY <1>1, <2>1 DEF Row
  <2> QED BY <2>1, <2>2, <2>3 DEF SettlesOnlyItsKey
<1>6. ASSUME NEW e \in Editors,
             \/ OpenEditor(e) \/ SaveConfig(e) \/ ChangeProvider(e) \/ PasteCredential(e)
             \/ ClearMetaWrite(e) \/ EditRecheck(e) \/ EditClear(e)
      PROVE  SettlesOnlyItsKey
  <2>1. ASSUME NEW p, NEW v, NEW kid, NEW sent, NEW touched, Commit(e, p, v, kid, sent, touched)
        PROVE  row'.err = row.err
    <3> DEFINE meta == reconcileProviderMetaForStorage(row.meta, kid, p = row.provider)
    <3>1. row' = [row EXCEPT !.provider = p, !.value = v, !.meta = meta]
      BY <2>1 DEF Commit
    <3> HIDE DEF meta
    <3> QED BY <1>1, <3>1 DEF Row
  <2>2. CASE SaveConfig(e) \/ ChangeProvider(e) \/ PasteCredential(e)
    BY <1>2, <2>1, <2>2 DEF SaveConfig, ChangeProvider, PasteCredential
  <2>3. CASE EditClear(e)
    <3>1. edit[e].discarded \subseteq disclosed /\ disclosed' = disclosed
      BY <2>3 DEF EditClear, history, Accounted
    <3>2. row.err.keys \ row'.err.keys \subseteq edit[e].discarded
      BY <1>1, <2>3, SettleFacts DEF EditClear, clearRevokeHalfOfRotationError, Row
    <3> QED BY <3>1, <3>2 DEF SettlesOnlyItsKey
  <2>4. CASE ClearMetaWrite(e)
    <3>1. edit[e].from \in RotationError
      BY InvFacts DEF EditState
    <3>2. withoutMetaWriteClauses(edit[e].from).keys = edit[e].from.keys
      BY <3>1 DEF withoutMetaWriteClauses, RotationError
    <3> QED BY <1>1, <1>2, <2>4, <3>2 DEF ClearMetaWrite, Row
  <2>5. CASE OpenEditor(e) \/ EditRecheck(e)
    BY <1>2, <2>5 DEF OpenEditor, EditRecheck
  <2> QED BY <1>6, <2>2, <2>3, <2>4, <2>5
<1>7. CASE Crash \/ UNCHANGED vars
  BY <1>2, <1>7 DEF Crash, vars
<1> QED BY <1>3, <1>4, <1>5, <1>6, <1>7 DEF Next

(* Where one rotation is in flight at a time, with any number of requests   *)
(* and editors and whatever fails: an id leaves last_rotation_error only    *)
(* when its key is dead, when the operator gave it up, or when a rotation   *)
(* records its outcome while the queue goes on naming the key.              *)
THEOREM AlarmsSettleTheirOwnKey ==
    ASSUME OneRotator
    PROVE  Spec => AlarmSettlesOnlyItsKey
<1>1. Init => Inv /\ Accounted
  BY InitInv, InitAccounted
<1>2. Inv /\ Accounted /\ [Next]_vars => Inv' /\ Accounted'
  BY NextInv, NextAccounted
<1>3. Inv /\ Accounted /\ [Next]_vars => SettlesOnlyItsKey
  BY NextSettles
<1>4. SettlesOnlyItsKey => [\A k \in row.err.keys \ row'.err.keys :
                              \/ k \notin live
                              \/ k \in disclosed'
                              \/ k \in outstandingRevokeKeyIDs(row'.meta) /\ rot' # rot]_vars
  BY DEF SettlesOnlyItsKey
<1> QED BY <1>1, <1>2, <1>3, <1>4, PTL DEF Spec, AlarmSettlesOnlyItsKey

----------------------------------------------------------------------------
(* What holds where one rotation is in flight at a time and nobody edits    *)
(* the entry meanwhile.                                                     *)

Undisturbed == OneRotator /\ Editors = {}

(* What a pass has made its own, for an adapter that records ids: p is the  *)
(* stored provider, v the stored value and g the keys whose id was answered. *)
PassOwns(r, p, v, g) ==
    /\ r.pc # "generate"
    /\ r.pc \notin {"idle", "fail"} => r.prov = p
    /\ r.pc \in {"retry", "mint", "store"} => RoleOf[p] = "auto" /\ r.old = v
    /\ r.pc \in {"retry", "mint"} => r.new = NoKey
    /\ r.pc \in {"store", "revoke", "read_back", "write_back"} =>
         r.m.keyID = r.new \/ r.new \notin g
    /\ r.pc \in {"store", "revoke", "read_back", "write_back", "record"} => r.new \in Key
    /\ r.pc \in {"revoke", "read_back", "write_back", "record"} => r.new = v

Owned ==
    /\ managed \subseteq minted
    /\ SchemeOf[row.provider] # "keep" =>
         \A w \in Rotators : PassOwns(rot[w], row.provider, row.value, managed)

LEMMA EndedOwns ==
    ASSUME NEW r, NEW s, NEW p, NEW v, NEW g, Ended(r, s)
    PROVE  PassOwns(s, p, v, g)
<1>1. IdleRot.pc = "idle"
  BY DEF IdleRot
<1>2. s.pc = "idle" \/ s.pc = "fail"
  BY <1>1 DEF Ended
<1> QED BY <1>2 DEF PassOwns

(* The row of a step of a pass. *)
LEMMA PassRow ==
    ASSUME Inv, NEW w \in Rotators, Snapshot(w) \/ RotateStep(w) \/ Panic(w)
    PROVE  row'.provider = row.provider
<1>1. row \in Row
  BY InvFacts
<1>2. CASE \/ recordRotationOutcome(w)
           \/ recordRotationOutcomeUndeliverable(w)
           \/ recordRotationFailure(w)
  BY <1>2, RecordersEffect
<1>3. CASE persistRotatedValue(w)
  BY <1>1, <1>3 DEF persistRotatedValue, Row
<1>4. CASE WriteBack(w)
  BY <1>1, <1>4 DEF WriteBack, Row
<1>5. CASE row' = row
  BY <1>5
<1> QED BY <1>2, <1>3, <1>4, <1>5
        DEF RotateStep, Snapshot, RefuseSpend, retryOutstandingRevoke, Mint, MintFails,
            Generate, EncryptFails, RevokeOld, ReadBack, Panic

(* Only a mint adds to the managed keys. *)
LEMMA PassManages ==
    ASSUME NEW w \in Rotators, Snapshot(w) \/ RotateStep(w) \/ Panic(w)
    PROVE  /\ minted \subseteq minted'
           /\ Mint(w) \/ managed' = managed
<1>1. CASE Mint(w)
  BY <1>1 DEF Mint
<1>2. CASE MintFails(w)
  BY <1>2 DEF MintFails, upstream, history
<1>3. CASE Generate(w)
  BY <1>3 DEF Generate, history
<1>4. CASE Snapshot(w) \/ Panic(w) \/ RefuseSpend(w) \/ EncryptFails(w) \/ retryOutstandingRevoke(w)
           \/ RevokeOld(w) \/ ReadBack(w) \/ WriteBack(w)
  BY <1>4 DEF Snapshot, Panic, RefuseSpend, EncryptFails, retryOutstandingRevoke, RevokeOld,
              ReadBack, WriteBack, upstream, history
<1>5. CASE \/ persistRotatedValue(w)
           \/ recordRotationOutcome(w)
           \/ recordRotationOutcomeUndeliverable(w)
           \/ recordRotationFailure(w)
  BY <1>5 DEF persistRotatedValue, recordRotationOutcome, recordRotationOutcomeUndeliverable,
              recordRotationFailure, upstream
<1> QED BY <1>1, <1>2, <1>3, <1>4, <1>5 DEF RotateStep

LEMMA PassKeepsOwned ==
    ASSUME Inv, Accounted, Owned, OneRotator, NEW w \in Rotators,
           Snapshot(w) \/ RotateStep(w) \/ Panic(w)
    PROVE  Owned'
<1> DEFINE r == rot[w]
           s == rot'[w]
<1>1. SUFFICES ASSUME SchemeOf[row.provider] # "keep"
               PROVE  PassOwns(s, row.provider, row'.value, managed')
  <2>1. \A x \in Rotators : x = w
    BY DEF OneRotator
  <2>2. row'.provider = row.provider
    BY PassRow
  <2>3. managed' \subseteq minted'
    <3>1. CASE Mint(w)
      <4>1. \E k \in Key : minted' = minted \cup {k} /\ managed' \in {managed, managed \cup {k}}
        BY <3>1 DEF Mint, Fresh
      <4> QED BY <4>1 DEF Owned
    <3>2. CASE managed' = managed
      BY <3>2, PassManages DEF Owned
    <3> QED BY <3>1, <3>2, PassManages
  <2> QED BY <2>1, <2>2, <2>3 DEF Owned
<1>2. /\ r \in RotState /\ r.m \in Meta /\ row \in Row /\ row.provider \in Provider
      /\ row.value \in Key /\ NoKey \notin Key
  BY InvFacts, QueueAssumption
<1>3. PassOwns(r, row.provider, row.value, managed) /\ Compact(r.m)
  BY <1>1 DEF Owned, Accounted, PassTracks
<1>4. RoleOf[row.provider] # "none" /\ managed \subseteq minted
  BY <1>1, <1>2, RotationAssumption DEF Owned
<1>15. Mint(w) \/ managed' = managed
  BY PassManages
<1>5. CASE Snapshot(w)
  BY <1>4, <1>5, SnapshotEffect DEF PassOwns
<1>6. CASE RefuseSpend(w) \/ EncryptFails(w) \/ Panic(w)
  BY <1>6, EndEffect, EndedOwns
<1>7. CASE retryOutstandingRevoke(w) \/ RevokeOld(w)
  <2>1. managed' = managed
    BY <1>7 DEF retryOutstandingRevoke, RevokeOld, history
  <2> QED BY <1>3, <1>7, <2>1, RevokeEffect DEF PassOwns, SamePass
<1>8. CASE Mint(w)
  <2>1. PICK k \in Key \ minted :
          /\ r.pc = "mint" /\ s.pc = "store" /\ s.prov = r.prov /\ s.old = r.old /\ s.new = k
          /\ SchemeOf[r.prov] # "keep" => s.m.keyID = k \/ managed' = managed
          /\ row' = row
    BY <1>8, MintEffect
  <2>2. k \notin managed
    BY <1>4, <2>1
  <2> QED BY <1>1, <1>3, <2>1, <2>2 DEF PassOwns
<1>9. CASE Generate(w)
  BY <1>3, <1>9 DEF Generate, PassOwns
<1>10. CASE MintFails(w)
  BY <1>10, MintFailsEffect, EndedOwns
<1>11. CASE persistRotatedValue(w)
  <2>1. CASE Ended(r, s)
    BY <2>1, EndedOwns
  <2>2. CASE /\ s.pc = IF RoleOf[r.prov] = "auto" THEN "revoke" ELSE "record"
             /\ SamePass(r, s)
             /\ s.m = r.m
             /\ row' = [row EXCEPT !.value = r.new]
    <3>1. row'.value = r.new /\ r.pc = "store"
      BY <1>2, <1>11, <2>2 DEF Row, persistRotatedValue
    <3>2. s.pc = "revoke" /\ managed' = managed
      BY <1>3, <1>11, <2>2, <3>1, persistRotatedValueEffect DEF PassOwns
    <3> QED BY <1>3, <2>2, <3>1, <3>2 DEF PassOwns, SamePass
  <2> QED BY <1>11, <2>1, <2>2, persistRotatedValueEffect
<1>12. CASE ReadBack(w)
  <2>1. r.m.keyID # NoKey \/ r.new \notin managed
    BY <1>2, <1>3, <1>12 DEF ReadBack, PassOwns
  <2>2. managed' = managed
    BY <1>12, ReadBackEffect
  <2> QED BY <1>3, <1>12, <2>1, <2>2, ReadBackEffect DEF PassOwns, SamePass
<1>13. CASE WriteBack(w)
  <2>1. row'.value = row.value /\ managed' = managed
    BY <1>2, <1>13, WriteBackEffect DEF WriteBack, Row
  <2> QED BY <1>3, <1>13, <2>1, WriteBackEffect DEF PassOwns, SamePass
<1>14. CASE \/ recordRotationOutcome(w)
            \/ recordRotationOutcomeUndeliverable(w)
            \/ recordRotationFailure(w)
  <2>1. Ended(r, s)
    BY <1>14, RecordersEffect DEF Ended
  <2> QED BY <2>1, EndedOwns
<1> QED BY <1>5, <1>6, <1>7, <1>8, <1>9, <1>10, <1>11, <1>12, <1>13, <1>14 DEF RotateStep

(* What the requests and the acknowledgement leave alone. *)
Aside ==
    /\ rot' = rot
    /\ managed' = managed
    /\ live' \subseteq live
    /\ row'.value = row.value
    /\ row'.provider = row.provider
    /\ row'.meta.keyID = row.meta.keyID
    /\ row'.err.fail = row.err.fail
    /\ row'.err.meta = row.err.meta
    /\ Onward
    /\ QueueShrinks

LEMMA SettleKeeps ==
    ASSUME NEW e \in RotationError, NEW ids
    PROVE  /\ withoutRevokeStillLiveKeys(e, ids).fail = e.fail
           /\ withoutRevokeStillLiveKeys(e, ids).meta = e.meta
  BY DEF withoutRevokeStillLiveKeys, RotationError

LEMMA RequestAside ==
    ASSUME Inv, Accounted, NEW t \in Retriers, RetrySnapshot(t) \/ RetryProgress(t)
    PROVE  Aside
<1> DEFINE r == retry[t]
<1>1. /\ r \in RetryState /\ r.m \in Meta /\ Compact(r.m)
      /\ row \in Row /\ row.meta \in Meta /\ row.err \in RotationError
      /\ RequestTracks(r, t, metaTok, row.meta, live, minted)
  BY InvFacts DEF Accounted, RequestTracks
<1>2. ASSUME row' = row, live' \subseteq live, rot' = rot, UNCHANGED <<minted, managed, disclosed>>
      PROVE  Aside
  BY <1>2 DEF Aside, Onward, QueueShrinks, Carries
<1>3. CASE RetrySnapshot(t) \/ RetryRefetch(t) \/ RetryRecheck(t)
  BY <1>2, <1>3 DEF RetrySnapshot, RetryRefetch, RetryRecheck, upstream, history
<1>4. CASE RetryCall(t)
  <2>1. live' \subseteq live
    BY <1>4 DEF RetryCall, performPendingRevoke
  <2> QED BY <1>2, <1>4, <2>1 DEF RetryCall, history
<1>5. CASE RetryCAS(t)
  <2> DEFINE m2 == Settled(r.m, r.target)
  <2>1. r.pc = "cas" /\ UNCHANGED <<rot, live, minted, managed, disclosed>>
    BY <1>5 DEF RetryCAS, upstream, history
  <2>2. CASE row' = row
    BY <1>2, <2>1, <2>2
  <2>3. CASE t \in metaTok /\ row' = [row EXCEPT !.meta = m2]
    <3>1. /\ m2.keyID = r.m.keyID
          /\ outstandingRevokeKeyIDs(m2) \subseteq outstandingRevokeKeyIDs(r.m)
          /\ outstandingRevokeKeyIDs(r.m) \subseteq outstandingRevokeKeyIDs(m2) \cup {r.target}
      BY <1>1, DischargeFacts, DischargeKeeps DEF Settled
    <3>2. /\ r.m.keyID = row.meta.keyID /\ r.target \notin live
          /\ outstandingRevokeKeyIDs(r.m) \subseteq outstandingRevokeKeyIDs(row.meta)
          /\ outstandingRevokeKeyIDs(row.meta) \subseteq outstandingRevokeKeyIDs(r.m) \cup {r.target}
      BY <1>1, <2>1, <2>3 DEF RequestTracks
    <3> HIDE DEF m2
    <3>3. /\ row'.meta = m2 /\ row'.err = row.err /\ row'.value = row.value
          /\ row'.provider = row.provider
      BY <1>1, <2>3 DEF Row
    <3> QED BY <2>1, <3>1, <3>2, <3>3 DEF Aside, Onward, QueueShrinks, Carries
  <2> QED BY <1>5, <2>2, <2>3 DEF RetryCAS
<1>6. CASE RetryClear(t)
  <2>1. UNCHANGED <<rot, live, minted, managed, disclosed>>
    BY <1>6 DEF RetryClear, upstream, history
  <2>2. CASE row' = row
    BY <1>2, <2>1, <2>2
  <2>3. CASE row' = [row EXCEPT !.err = withoutRevokeStillLiveKeys(@, {r.target})]
    <3>1. /\ row'.meta = row.meta /\ row'.value = row.value /\ row'.provider = row.provider
          /\ row'.err = withoutRevokeStillLiveKeys(row.err, {r.target})
      BY <1>1, <2>3 DEF Row
    <3> QED BY <1>1, <2>1, <3>1, SettleKeeps DEF Aside, Onward, QueueShrinks, Carries
  <2> QED BY <1>6, <2>2, <2>3 DEF RetryClear, clearRevokeHalfOfRotationError
<1> QED BY <1>3, <1>4, <1>5, <1>6 DEF RetryProgress

LEMMA ResolveAside ==
    ASSUME Inv, ResolvePendingRevoke
    PROVE  Aside
<1> DEFINE k == row.meta.head
           m2 == dischargePendingRevokeHead(row.meta)
           e2 == withoutRevokeStillLiveKeys(row.err, {k})
<1>1. /\ row' = [row EXCEPT !.meta = m2, !.err = e2]
      /\ disclosed' = disclosed \cup {k}
      /\ UNCHANGED <<live, minted, managed, rot>>
  BY DEF ResolvePendingRevoke, upstream
<1>2. row \in Row /\ row.meta \in Meta /\ row.err \in RotationError
  BY InvFacts
<1>3. /\ m2.keyID = row.meta.keyID
      /\ outstandingRevokeKeyIDs(m2) \subseteq outstandingRevokeKeyIDs(row.meta)
      /\ outstandingRevokeKeyIDs(row.meta) \subseteq outstandingRevokeKeyIDs(m2) \cup {k}
  BY <1>2, DischargeFacts, DischargeKeeps
<1>4. e2.fail = row.err.fail /\ e2.meta = row.err.meta
  BY <1>2, SettleKeeps
<1> HIDE DEF m2, e2
<1>5. /\ row'.meta = m2 /\ row'.err = e2 /\ row'.value = row.value
      /\ row'.provider = row.provider
  BY <1>1, <1>2 DEF Row
<1> QED BY <1>1, <1>3, <1>4, <1>5 DEF Aside, Onward, QueueShrinks, Carries

LEMMA NextKeepsQueue ==
    ASSUME Inv, Accounted, [Next]_vars
    PROVE  Carries(row'.meta, row.meta, live', disclosed')
<1>1. ASSUME row'.meta = row.meta
      PROVE  Carries(row'.meta, row.meta, live', disclosed')
  BY <1>1 DEF Carries
<1>2. ASSUME NEW w \in Rotators, Snapshot(w) \/ RotateStep(w) \/ Panic(w)
      PROVE  Carries(row'.meta, row.meta, live', disclosed')
  <2>1. row \in Row
    BY InvFacts
  <2>2. CASE \/ recordRotationOutcome(w)
             \/ recordRotationOutcomeUndeliverable(w)
             \/ recordRotationFailure(w)
    BY <1>1, <2>2, RecordersEffect
  <2>3. CASE persistRotatedValue(w)
    BY <1>1, <2>1, <2>3 DEF persistRotatedValue, Row
  <2>4. CASE WriteBack(w)
    <3>1. /\ row'.meta = row.meta \/ row'.meta = rot[w].m
          /\ rot[w].pc = "write_back" /\ UNCHANGED <<live, disclosed>>
      BY <2>1, <2>4 DEF WriteBack, Row, upstream, history
    <3>2. Carries(rot[w].m, row.meta, live, disclosed)
      BY <3>1 DEF Accounted, PassTracks
    <3> QED BY <1>1, <3>1, <3>2
  <2>5. CASE row' = row
    BY <1>1, <2>5
  <2> QED BY <1>2, <2>2, <2>3, <2>4, <2>5
          DEF RotateStep, Snapshot, RefuseSpend, retryOutstandingRevoke, Mint, MintFails,
              Generate, EncryptFails, RevokeOld, ReadBack, Panic
<1>3. CASE Crash \/ UNCHANGED vars
  BY <1>1, <1>3 DEF Crash, vars
<1> QED BY <1>2, <1>3, RequestAside, ResolveAside, EditorKeepsAccount
        DEF Next, Aside, QueueShrinks

(* Where one rotation is in flight at a time, with any number of requests   *)
(* and editors, any providers and whatever fails: whoever writes            *)
(* provider_meta, a key leaves the stored queue only when it is dead, or    *)
(* when the operator was told about it or gave it up.                       *)
THEOREM QueuedKeysAreKept ==
    ASSUME OneRotator
    PROVE  Spec => QueueForgetsNothing
<1>1. Init => Inv /\ Accounted
  BY InitInv, InitAccounted
<1>2. Inv /\ Accounted /\ [Next]_vars => Inv' /\ Accounted'
  BY NextInv, NextAccounted
<1>3. Inv /\ Accounted /\ [Next]_vars
        => [\A k \in outstandingRevokeKeyIDs(row.meta) \ outstandingRevokeKeyIDs(row'.meta) :
              k \in live' => k \in disclosed']_vars
  BY NextKeepsQueue DEF Carries
<1> QED BY <1>1, <1>2, <1>3, PTL DEF Spec, QueueForgetsNothing

(* Without an editor a step is a pass's, stays aside, or is a crash. *)
LEMMA UndisturbedNext ==
    ASSUME Inv, Accounted, Editors = {}, [Next]_vars
    PROVE  \/ \E w \in Rotators : Snapshot(w) \/ RotateStep(w) \/ Panic(w)
           \/ Aside
           \/ Crash
<1>1. CASE UNCHANGED vars
  <2>1. UNCHANGED <<row, live, minted, rot, managed, disclosed>>
    BY <1>1 DEF vars
  <2> QED BY <2>1 DEF Aside, Onward, QueueShrinks, Carries
<1> QED BY <1>1, RequestAside, ResolveAside DEF Next

LEMMA NextOwned ==
    ASSUME Inv, Accounted, Owned, Undisturbed, [Next]_vars
    PROVE  Owned'
<1>1. CASE \E w \in Rotators : Snapshot(w) \/ RotateStep(w) \/ Panic(w)
  BY <1>1, PassKeepsOwned DEF Undisturbed
<1>2. CASE Aside
  BY <1>2 DEF Aside, Owned, Onward
<1>3. CASE Crash
  <2>1. \A w \in Rotators : Ended(rot[w], rot'[w])
    BY <1>3 DEF Crash, Ended
  <2>2. UNCHANGED <<managed, minted>>
    BY <1>3 DEF Crash, upstream, history
  <2> QED BY <2>1, <2>2, EndedOwns DEF Owned
<1> QED BY <1>1, <1>2, <1>3, UndisturbedNext DEF Undisturbed

LEMMA InitOwned ==
    ASSUME Init
    PROVE  Owned
<1>1. \A w \in Rotators : Ended(rot[w], rot[w])
  BY DEF Init, Ended
<1>2. managed \subseteq minted
  BY DEF Init
<1> QED BY <1>1, <1>2, EndedOwns DEF Owned

----------------------------------------------------------------------------
(* Why a mismatched pair is alarmed: the pass that stored the value is      *)
(* still to write its id, or to say that it did not.                        *)

Unsettled == {"revoke", "read_back", "write_back", "record", "fail"}

PassPairs(r, v, id, g) ==
    /\ r.pc = "record" /\ r.clause = "" => id = v \/ v \notin g
    /\ r.pc = "fail" => r.reason # ""

Paired ==
    SchemeOf[row.provider] # "keep" =>
      /\ \/ row.meta.keyID \in {row.value, NoKey}
         \/ row.value \notin managed
         \/ row.err.fail # ""
         \/ row.err.meta # ""
         \/ \E w \in Rotators : rot[w].pc \in Unsettled
      /\ \A w \in Rotators : PassPairs(rot[w], row.value, row.meta.keyID, managed)

(* Nothing that a rotation has to say about the row is lost. *)
OutcomesAreRecorded ==
    /\ Fault \cap {"crash", "record"} = {}
    /\ Manual = {} \/ "panic" \notin Fault

LEMMA PassKeepsPaired ==
    ASSUME Inv, Accounted, Owned, Paired, OneRotator, OutcomesAreRecorded,
           NEW w \in Rotators, Snapshot(w) \/ RotateStep(w) \/ Panic(w)
    PROVE  Paired'
<1> DEFINE r == rot[w]
           s == rot'[w]
<1>1. SUFFICES ASSUME SchemeOf[row.provider] # "keep"
               PROVE  /\ \/ row'.meta.keyID \in {row'.value, NoKey}
                         \/ row'.value \notin managed'
                         \/ row'.err.fail # ""
                         \/ row'.err.meta # ""
                         \/ s.pc \in Unsettled
                      /\ PassPairs(s, row'.value, row'.meta.keyID, managed')
  <2>1. \A x \in Rotators : x = w
    BY DEF OneRotator
  <2>2. row'.provider = row.provider
    BY PassRow
  <2> QED BY <2>1, <2>2 DEF Paired
<1>2. /\ r \in RotState /\ row \in Row
      /\ PassOwns(r, row.provider, row.value, managed) /\ Compact(r.m)
  BY <1>1, InvFacts DEF Owned, Accounted, PassTracks
<1>3. /\ \/ row.meta.keyID \in {row.value, NoKey}
         \/ row.value \notin managed
         \/ row.err.fail # ""
         \/ row.err.meta # ""
         \/ r.pc \in Unsettled
      /\ PassPairs(r, row.value, row.meta.keyID, managed)
  <2>1. \A x \in Rotators : x = w
    BY DEF OneRotator
  <2> QED BY <1>1, <2>1 DEF Paired
<1>16. row.value \notin managed => row.value \notin managed'
  <2>1. CASE Mint(w)
    <3>1. PICK k \in Key \ minted : managed' \in {managed, managed \cup {k}}
      BY <2>1 DEF Mint, Fresh
    <3>2. row.value \in minted
      BY InvFacts
    <3> QED BY <3>1, <3>2
  <2>2. CASE managed' = managed
    BY <2>2
  <2> QED BY <2>1, <2>2, PassManages
<1>4. ASSUME Ended(r, s), row' = row, s.pc = "fail" \/ r.pc \notin Unsettled
      PROVE  /\ \/ row'.meta.keyID \in {row'.value, NoKey}
                \/ row'.value \notin managed'
                \/ row'.err.fail # ""
                \/ row'.err.meta # ""
                \/ s.pc \in Unsettled
             /\ PassPairs(s, row'.value, row'.meta.keyID, managed')
  <2>1. IdleRot.pc = "idle"
    BY DEF IdleRot
  <2>2. s.pc = "idle" \/ (s.pc = "fail" /\ s.reason # "")
    BY <1>4, <2>1 DEF Ended
  <2> QED BY <1>3, <1>4, <1>16, <2>2 DEF PassPairs, Unsettled
<1>5. CASE Snapshot(w)
  BY <1>3, <1>5, <1>16, SnapshotEffect DEF PassPairs, Unsettled
<1>6. CASE RefuseSpend(w) \/ EncryptFails(w)
  <2>1. r.pc \notin Unsettled
    BY <1>6 DEF RefuseSpend, EncryptFails, Unsettled
  <2> QED BY <1>4, <1>6, <2>1, EndEffect
<1>7. CASE Panic(w)
  <2>1. Fail(w, "internal")
    BY <1>7 DEF Panic, OutcomesAreRecorded
  <2> DEFINE f == [r EXCEPT !.pc = "fail", !.reason = "internal"]
  <2>2. f.pc = "fail"
    BY <1>2 DEF RotState
  <2>3. s = f
    BY <2>1, StepFacts DEF Fail
  <2> HIDE DEF f
  <2> QED BY <1>4, <1>7, <2>2, <2>3, EndEffect
<1>8. CASE retryOutstandingRevoke(w) \/ RevokeOld(w)
  BY <1>2, <1>3, <1>8, <1>16, RevokeEffect DEF PassPairs, Unsettled
<1>9. CASE Mint(w)
  <2>1. r.pc = "mint" /\ s.pc = "store" /\ row' = row
    BY <1>9, MintEffect
  <2> QED BY <1>3, <1>16, <2>1 DEF PassPairs, Unsettled
<1>10. CASE Generate(w)
  BY <1>2, <1>10 DEF Generate, PassOwns
<1>11. CASE MintFails(w)
  BY <1>4, <1>11, MintFailsEffect DEF Unsettled
<1>12. CASE persistRotatedValue(w)
  <2>1. r.pc = "store" /\ RoleOf[r.prov] = "auto"
    BY <1>2, <1>12 DEF persistRotatedValue, PassOwns
  <2>2. s.pc = "revoke" \/ (Ended(r, s) /\ row' = row)
    BY <1>12, <2>1, persistRotatedValueEffect
  <2> QED BY <1>4, <2>1, <2>2 DEF PassPairs, Unsettled
<1>13. CASE ReadBack(w)
  BY <1>13, ReadBackEffect DEF PassPairs, Unsettled
<1>14. CASE WriteBack(w)
  <2>1. r.m.keyID = row.value \/ row.value \notin managed'
    BY <1>2, <1>14, <1>16 DEF PassOwns, WriteBack
  <2>2. s.clause = "" => row'.meta = r.m /\ row'.value = row.value
    BY <1>2, <1>14, WriteBackEffect DEF Row
  <2>3. row'.value = row.value
    BY <1>2, <1>14 DEF WriteBack, Row
  <2> QED BY <1>14, <2>1, <2>2, <2>3, WriteBackEffect DEF PassPairs, Unsettled
<1>15. CASE \/ recordRotationOutcome(w)
            \/ recordRotationOutcomeUndeliverable(w)
            \/ recordRotationFailure(w)
  <2>1. IdleRot.pc = "idle" /\ "record" \notin Fault
    BY DEF IdleRot, OutcomesAreRecorded
  <2> QED BY <1>3, <1>15, <1>16, <2>1, RecordersEffect DEF PassPairs
<1> QED BY <1>5, <1>6, <1>7, <1>8, <1>9, <1>10, <1>11, <1>12, <1>13, <1>14, <1>15 DEF RotateStep

LEMMA NextPaired ==
    ASSUME Inv, Accounted, Owned, Paired, Undisturbed, OutcomesAreRecorded, [Next]_vars
    PROVE  Paired'
<1>1. CASE \E w \in Rotators : Snapshot(w) \/ RotateStep(w) \/ Panic(w)
  BY <1>1, PassKeepsPaired DEF Undisturbed
<1>2. CASE Aside
  BY <1>2 DEF Aside, Paired
<1>3. ~Crash
  BY DEF Crash, OutcomesAreRecorded
<1> QED BY <1>1, <1>2, <1>3, UndisturbedNext DEF Undisturbed

LEMMA InitPaired ==
    ASSUME Init
    PROVE  Paired
<1>1. PICK k \in Key, kid \in OptKey :
        /\ kid \in {k, NoKey}
        /\ row = [value |-> k, provider |-> HomeOf[k], err |-> Clean,
                  meta |-> [NoMeta EXCEPT !.keyID = kid]]
        /\ rot = [w \in Rotators |-> IdleRot]
  BY DEF Init, OptKey
<1>2. row.meta.keyID = kid /\ row.value = k /\ (kid = k \/ kid = NoKey)
  BY <1>1 DEF NoMeta
<1>3. \A w \in Rotators : rot[w].pc = "idle"
  BY <1>1 DEF IdleRot
<1> QED BY <1>2, <1>3 DEF Paired, PassPairs

(* Where one rotation is in flight at a time, nobody edits the entry, and   *)
(* no outcome is lost (no crash, no failed write of last_rotation_error, no *)
(* panic in a manual rotation, whose handler records none), with any number *)
(* of retries and whatever else fails: an id that is not the stored value's *)
(* is behind an alarm, or behind a rotation that is yet to raise it, unless *)
(* the provider never answered the stored value's id.                       *)
THEOREM MismatchesAreAlarmed ==
    ASSUME Undisturbed, OutcomesAreRecorded
    PROVE  Spec => []MismatchedPairIsAlarmed
<1>1. Init => Inv /\ Accounted /\ Owned /\ Paired
  BY InitInv, InitAccounted, InitOwned, InitPaired
<1>2. Inv /\ Accounted /\ Owned /\ Paired /\ [Next]_vars
        => Inv' /\ Accounted' /\ Owned' /\ Paired'
  BY NextInv, NextAccounted, NextOwned, NextPaired DEF Undisturbed
<1>3. Paired => MismatchedPairIsAlarmed
  <2>1. Clean.fail = "" /\ Clean.meta = ""
    BY DEF Clean
  <2> QED BY <2>1 DEF Paired, MismatchedPairIsAlarmed, Unsettled
<1> QED BY <1>1, <1>2, <1>3, PTL DEF Spec

----------------------------------------------------------------------------
(* Why no key is forgotten: at each place of a pass, who still knows of the *)
(* live managed keys ml.  v is the stored value, id the stored id, q the    *)
(* stored queue, g the managed keys and d the disclosed ones.               *)


(* The recorded id of a value whose own id was never answered. *)
Named(v, id, g) == IF v \in g THEN {} ELSE {id}

PassKnows(r, v, id, q, ml, g, d) ==
    /\ r.pc \in {"idle", "retry", "mint"} => ml \subseteq {v} \cup q \cup d \cup Named(v, id, g)
    /\ r.pc \in {"store", "fail"} => ml \subseteq {v, r.new} \cup q \cup d \cup Named(v, id, g)
    /\ r.pc \in {"revoke", "read_back", "write_back", "record"} =>
         ml \subseteq {v, r.refused} \cup outstandingRevokeKeyIDs(r.m) \cup d
                        \cup Named(v, r.m.keyID, g)
    /\ r.pc = "record" /\ r.clause = "" =>
         ml \subseteq {v, r.refused} \cup q \cup d \cup Named(v, id, g)
    /\ \/ r.pc \in {"idle", "retry", "mint", "store", "fail"}
       \/ r.pc = "record" /\ r.clause = ""
       => (v \in g => id = v \/ v \in d)
    /\ r.pc \in {"retry", "mint"} => r.m.keyID = id
    /\ r.pc \in {"store", "revoke", "read_back", "write_back", "record"} =>
         r.new \in g \/ r.m.keyID \in {id, NoKey}
    /\ r.pc = "store" =>
         ({v} \cap g) \cup Named(v, id, g) \subseteq outstandingRevokeKeyIDs(r.m) \cup {r.refused, NoKey}
                                                     \cup d \cup Named(r.new, r.m.keyID, g)

Ledger ==
    /\ managed \subseteq minted
    /\ \A w \in Rotators :
         PassKnows(rot[w], row.value, row.meta.keyID, outstandingRevokeKeyIDs(row.meta),
                   managed \cap live, managed, disclosed)

(* Every adapter records the ids it is answered, and whatever ends a pass   *)
(* has it record what it holds.                                             *)
PassesAreFinished ==
    /\ \A p \in Provider : SchemeOf[p] # "keep"
    /\ Fault \cap {"crash", "panic", "unreadable"} = {}
    /\ Manual = {} \/ "encrypt" \notin Fault

(* A step that touches no pass: keys die, are told, and leave the queue     *)
(* only then.                                                               *)
LEMMA KnowsGoesOn ==
    ASSUME NEW r, NEW v, NEW id, NEW q, NEW q2, NEW ml, NEW ml2, NEW g, NEW d, NEW d2,
           PassKnows(r, v, id, q, ml, g, d),
           ml2 \subseteq ml, d \subseteq d2, (q \cap ml2) \ d2 \subseteq q2
    PROVE  PassKnows(r, v, id, q2, ml2, g, d2)
  BY DEF PassKnows

LEMMA PassKeepsLedger ==
    ASSUME Inv, Accounted, Owned, Ledger, OneRotator, PassesAreFinished,
           NEW w \in Rotators, Snapshot(w) \/ RotateStep(w) \/ Panic(w)
    PROVE  Ledger'
<1> DEFINE r == rot[w]
           s == rot'[w]
           v == row.value
           id == row.meta.keyID
           q == outstandingRevokeKeyIDs(row.meta)
           ml == managed \cap live
           now == PassKnows(s, row'.value, row'.meta.keyID, outstandingRevokeKeyIDs(row'.meta),
                            managed' \cap live', managed', disclosed')
<1>1. SUFFICES managed' \subseteq minted' /\ now
  <2>1. \A x \in Rotators : x = w
    BY DEF OneRotator
  <2> QED BY <2>1 DEF Ledger
<1>2. /\ r \in RotState /\ r.m \in Meta /\ row \in Row /\ row.provider \in Provider
      /\ v \in minted /\ minted \subseteq Key /\ NoKey \notin Key
      /\ managed \subseteq minted /\ live \subseteq minted
  BY InvFacts, QueueAssumption DEF Ledger
<1>3. SchemeOf[row.provider] # "keep" /\ RoleOf[row.provider] # "none"
  BY <1>2, RotationAssumption DEF PassesAreFinished
<1>4. PassOwns(r, row.provider, v, managed) /\ Compact(r.m)
  BY <1>3 DEF Owned, Accounted, PassTracks
<1>5. PassKnows(r, v, id, q, ml, managed, disclosed)
  BY DEF Ledger
<1>6. ASSUME s.pc = "fail" \/ s.pc = "idle", s.pc = "fail" => s.new = r.new,
             r.pc \in {"retry", "mint", "store"}, r.pc = "store" => s.pc = "fail",
             row' = row, managed' = managed, managed' \cap live' = ml, disclosed' = disclosed
      PROVE  now
  BY <1>4, <1>5, <1>6 DEF PassKnows, PassOwns
<1>7. IdleRot.pc = "idle"
  BY DEF IdleRot
<1>8. CASE Snapshot(w)
  <2>1. /\ r.pc = "idle" /\ s.pc \in {"fail", "retry"} /\ s.m = row.meta
        /\ UNCHANGED <<row, live, minted, managed, disclosed>>
    BY <1>3, <1>8, SnapshotEffect
  <2> QED BY <1>2, <1>5, <2>1 DEF PassKnows
<1>9. CASE RefuseSpend(w)
  <2>1. r.pc = "retry"
    BY <1>9 DEF RefuseSpend
  <2>2. Ended(r, s) /\ UNCHANGED <<row, live, minted, managed, disclosed>>
    BY <1>9, EndEffect
  <2> QED BY <1>2, <1>6, <1>7, <2>1, <2>2 DEF Ended
<1>10. CASE EncryptFails(w)
  <2>1. r.pc = "store" /\ Fail(w, "encrypt")
    BY <1>10 DEF EncryptFails, PassesAreFinished
  <2> DEFINE f == [r EXCEPT !.pc = "fail", !.reason = "encrypt"]
  <2>2. f.pc = "fail" /\ f.new = r.new
    BY <1>2 DEF RotState
  <2>3. s = f
    BY <2>1, StepFacts DEF Fail
  <2> HIDE DEF f
  <2>4. UNCHANGED <<row, live, minted, managed, disclosed>>
    BY <1>10, EndEffect
  <2> QED BY <1>2, <1>6, <2>1, <2>2, <2>3, <2>4
<1>11. CASE Panic(w)
  BY <1>11 DEF Panic, PassesAreFinished
<1>12. CASE retryOutstandingRevoke(w)
  <2>1. /\ r.pc = "retry" /\ s.pc = "mint" /\ s.m.keyID = r.m.keyID /\ live' \subseteq live
        /\ UNCHANGED <<row, minted, managed, disclosed>>
    BY <1>4, <1>12, RevokeEffect DEF retryOutstandingRevoke
  <2> QED BY <1>2, <1>5, <2>1 DEF PassKnows
<1>13. CASE RevokeOld(w)
  <2>1. /\ r.pc = "revoke" /\ s.pc = "read_back" /\ s.refused = r.refused /\ live' \subseteq live
        /\ s.new = r.new /\ s.m.keyID = r.m.keyID
        /\ Carries(s.m, r.m, live', disclosed)
        /\ UNCHANGED <<row, minted, managed, disclosed>>
    BY <1>4, <1>13, RevokeEffect DEF RevokeOld, SamePass
  <2> QED BY <1>2, <1>5, <2>1 DEF PassKnows, Carries
<1>14. CASE Mint(w)
  <2> DEFINE out == outstandingRevokeKeyIDs(s.m)
  <2>1. PICK k \in Key \ minted :
          /\ r.pc = "mint" /\ s.pc = "store" /\ s.new = k
          /\ minted' = minted \cup {k} /\ live' = live \cup {k}
          /\ SchemeOf[r.prov] # "keep" =>
               \/ /\ managed' = managed \cup {k}
                  /\ r.m.keyID # NoKey => r.m.keyID \in out \cup {s.refused}
               \/ /\ managed' = managed
                  /\ \/ s.m.keyID = r.m.keyID
                     \/ /\ s.m.keyID = NoKey
                        /\ r.m.keyID # NoKey => r.m.keyID \in out \cup {s.refused}
          /\ UNCHANGED <<row, disclosed>>
    BY <1>14, MintEffect
  <2>2. r.prov = row.provider /\ r.m.keyID = id /\ (v \in managed => id = v \/ v \in disclosed)
        /\ ml \subseteq {v} \cup q \cup disclosed \cup Named(v, id, managed)
    BY <1>4, <1>5, <2>1 DEF PassOwns, PassKnows
  <2>3. v # k /\ v # NoKey /\ k \notin managed /\ managed' \subseteq minted'
    BY <1>2, <1>3, <2>1, <2>2
  <2> HIDE DEF out
  <2>4. CASE /\ managed' = managed \cup {k}
             /\ r.m.keyID # NoKey => r.m.keyID \in out \cup {s.refused}
    <3>1. /\ Named(v, id, managed') = Named(v, id, managed)
          /\ managed' \cap live' \subseteq ml \cup {k}
          /\ k \in managed'
      BY <1>2, <2>1, <2>3, <2>4 DEF Named
    <3>2. ({v} \cap managed') \cup Named(v, id, managed')
            \subseteq out \cup {s.refused, NoKey} \cup disclosed
      BY <2>2, <2>3, <2>4 DEF Named
    <3> QED BY <2>1, <2>2, <2>3, <2>4, <3>1, <3>2 DEF PassKnows, out
  <2>5. CASE /\ managed' = managed
             /\ \/ s.m.keyID = r.m.keyID
                \/ /\ s.m.keyID = NoKey
                   /\ r.m.keyID # NoKey => r.m.keyID \in out \cup {s.refused}
    <3>1. managed' \cap live' \subseteq ml
      BY <1>2, <2>1, <2>3, <2>5
    <3>2. ({v} \cap managed') \cup Named(v, id, managed')
            \subseteq out \cup {s.refused, NoKey} \cup disclosed \cup Named(k, s.m.keyID, managed')
      BY <2>2, <2>3, <2>5 DEF Named
    <3> QED BY <2>1, <2>2, <2>3, <2>5, <3>1, <3>2 DEF PassKnows, out
  <2> QED BY <1>3, <2>1, <2>2, <2>4, <2>5
<1>15. CASE MintFails(w)
  <2>1. /\ r.pc = "mint" /\ Ended(r, s) /\ UNCHANGED <<row, managed, disclosed>>
        /\ \/ UNCHANGED <<live, minted>>
           \/ \E k \in Key \ minted : minted' = minted \cup {k} /\ live' = live \cup {k}
    BY <1>15, MintFailsEffect
  <2>2. managed' \cap live' = ml /\ managed' \subseteq minted'
    BY <1>2, <2>1
  <2> QED BY <1>6, <1>7, <2>1, <2>2 DEF Ended
<1>16. CASE Generate(w)
  BY <1>4, <1>16 DEF Generate, PassOwns
<1>17. CASE persistRotatedValue(w)
  <2>1. /\ r.pc = "store" /\ RoleOf[r.prov] = "auto" /\ r.old = v
        /\ UNCHANGED <<live, minted, managed, disclosed>>
    BY <1>4, <1>17, persistRotatedValueEffect DEF PassOwns
  <2>2. CASE /\ s.pc = "revoke" /\ SamePass(r, s) /\ s.m = r.m
             /\ row' = [row EXCEPT !.value = r.new]
    <3>1. row'.value = r.new /\ row'.meta = row.meta
      BY <1>2, <2>2 DEF Row
    <3>2. Carries(r.m, row.meta, live, disclosed)
      BY <2>1 DEF Accounted, PassTracks
    <3>3. s.new = r.new /\ s.refused = r.refused /\ ml \subseteq Key
      BY <1>2, <2>2 DEF SamePass
    <3>4. /\ ml \subseteq {v, r.new} \cup q \cup disclosed \cup Named(v, id, managed)
          /\ r.new \in managed \/ r.m.keyID \in {id, NoKey}
          /\ ({v} \cap managed) \cup Named(v, id, managed)
               \subseteq outstandingRevokeKeyIDs(r.m) \cup {r.refused, NoKey} \cup disclosed
                          \cup Named(r.new, r.m.keyID, managed)
      BY <1>5, <2>1 DEF PassKnows
    <3>5. ml \subseteq {r.new, r.refused} \cup outstandingRevokeKeyIDs(r.m) \cup disclosed
                       \cup Named(r.new, r.m.keyID, managed)
      BY <1>2, <3>2, <3>3, <3>4 DEF Carries
    <3>6. /\ managed' \cap live' = ml /\ managed' = managed /\ disclosed' = disclosed
          /\ row'.value = r.new /\ row'.meta.keyID = id /\ s.pc = "revoke" /\ s.m = r.m
      BY <2>1, <2>2, <3>1
    <3>7. managed' \subseteq minted'
      BY <1>2, <2>1
    <3> HIDE DEF ml, id, r, s, v, q
    <3> QED BY <3>3, <3>4, <3>5, <3>6, <3>7 DEF PassKnows
  <2>3. CASE Fail(w, "conflict") \/ Fail(w, "persist")
    <3> DEFINE f(reason) == [r EXCEPT !.pc = "fail", !.reason = reason]
    <3>1. \A reason : f(reason).pc = "fail" /\ f(reason).new = r.new
      BY <1>2 DEF RotState
    <3>2. s = f("conflict") \/ s = f("persist")
      BY <2>3, StepFacts DEF Fail
    <3> HIDE DEF f
    <3>3. s.pc = "fail" /\ s.new = r.new
      BY <3>1, <3>2
    <3>4. row' = row
      BY <1>17, <2>1, <3>3, persistRotatedValueEffect
    <3> QED BY <1>2, <1>6, <2>1, <3>3, <3>4
  <2>4. \/ Fail(w, "conflict") \/ Fail(w, "persist")
        \/ Step(w, [r EXCEPT !.pc = "revoke"]) /\ row' = [row EXCEPT !.value = r.new]
    BY <1>17, <2>1 DEF persistRotatedValue
  <2>5. CASE Step(w, [r EXCEPT !.pc = "revoke"]) /\ row' = [row EXCEPT !.value = r.new]
    <3> DEFINE n == [r EXCEPT !.pc = "revoke"]
    <3>1. n.pc = "revoke" /\ SamePass(r, n) /\ n.m = r.m
      BY <1>2 DEF RotState, SamePass
    <3>2. s = n
      BY <2>5, StepFacts
    <3> HIDE DEF n
    <3> QED BY <2>2, <2>5, <3>1, <3>2
  <2> QED BY <2>3, <2>4, <2>5
<1>18. CASE ReadBack(w)
  <2>1. /\ r.pc = "read_back" /\ s.refused = r.refused
        /\ outstandingRevokeKeyIDs(s.m) = outstandingRevokeKeyIDs(r.m)
        /\ s.pc = "write_back" \/ (s.pc = "record" /\ s.clause # "")
        /\ s.m.keyID = r.m.keyID \/ (r.m.keyID = NoKey /\ s.m.keyID = id)
        /\ s.new = r.new
        /\ UNCHANGED <<row, live, minted, managed, disclosed>>
    BY <1>18, ReadBackEffect DEF SamePass
  <2>2. ml \cap Named(v, r.m.keyID, managed) \subseteq Named(v, s.m.keyID, managed)
    BY <1>2, <2>1 DEF Named
  <2> QED BY <1>2, <1>5, <2>1, <2>2 DEF PassKnows
<1>19. CASE WriteBack(w)
  <2>1. /\ r.pc = "write_back" /\ s.pc = "record" /\ s.refused = r.refused /\ s.m = r.m
        /\ r.m.keyID = v \/ v \notin managed
        /\ s.new = r.new
        /\ UNCHANGED <<live, minted, managed, disclosed>>
    BY <1>4, <1>19, WriteBackEffect DEF SamePass, PassOwns
  <2>2. /\ row'.value = v /\ (s.clause = "" => row'.meta = r.m)
        /\ row'.meta = r.m \/ row'.meta = row.meta
    BY <1>2, <1>19, WriteBackEffect DEF Row, WriteBack
  <2> QED BY <1>2, <1>5, <2>1, <2>2 DEF PassKnows
<1>20. CASE \/ recordRotationOutcome(w)
            \/ recordRotationOutcomeUndeliverable(w)
            \/ recordRotationFailure(w)
  <2>1. /\ s.pc = "idle" /\ row'.meta = row.meta /\ row'.value = v /\ disclosed \subseteq disclosed'
        /\ UNCHANGED <<live, minted, managed>>
    BY <1>7, <1>20, RecordersEffect
  <2>2. ml \subseteq Key
    BY <1>2
  <2>3. CASE r.pc = "fail"
    <3>1. r.new \in disclosed' \cup {NoKey}
      BY <1>20, <2>3, RecordersEffect
    <3> QED BY <1>2, <1>5, <2>1, <2>2, <2>3, <3>1 DEF PassKnows
  <2>4. CASE r.pc = "record"
    <3>1. /\ r.refused \in disclosed' \cup {NoKey}
          /\ r.clause # "" =>
               (outstandingRevokeKeyIDs(r.m) \cup {r.new}) \ {NoKey} \subseteq disclosed'
      BY <1>20, <2>4, RecordersEffect DEF PassesAreFinished
    <3>2. r.new = v /\ v # NoKey
      BY <1>2, <1>4, <2>4 DEF PassOwns
    <3>3. CASE r.clause = ""
      <4>1. /\ ml \subseteq {v, r.refused} \cup q \cup disclosed \cup Named(v, id, managed)
            /\ v \in managed => id = v \/ v \in disclosed
        BY <1>5, <2>4, <3>3 DEF PassKnows
      <4>2. ml \subseteq {v} \cup q \cup disclosed' \cup Named(v, id, managed)
        BY <1>2, <2>1, <2>2, <3>1, <4>1
      <4>3. managed' \subseteq minted' /\ managed' \cap live' = ml
        BY <1>2, <2>1
      <4> HIDE DEF ml
      <4> QED BY <2>1, <4>1, <4>2, <4>3 DEF PassKnows
    <3>4. CASE r.clause # ""
      BY <1>2, <1>5, <2>1, <2>2, <2>4, <3>1, <3>2, <3>4 DEF PassKnows, Named
    <3> QED BY <3>3, <3>4
  <2> QED BY <1>20, <2>3, <2>4, RecordersEffect
<1> QED BY <1>8, <1>9, <1>10, <1>11, <1>12, <1>13, <1>14, <1>15, <1>16, <1>17, <1>18, <1>19, <1>20
        DEF RotateStep

LEMMA NextLedger ==
    ASSUME Inv, Accounted, Owned, Ledger, Undisturbed, PassesAreFinished, [Next]_vars
    PROVE  Ledger'
<1>1. CASE \E w \in Rotators : Snapshot(w) \/ RotateStep(w) \/ Panic(w)
  BY <1>1, PassKeepsLedger DEF Undisturbed
<1>2. CASE Aside
  <2> DEFINE q == outstandingRevokeKeyIDs(row.meta)
             q2 == outstandingRevokeKeyIDs(row'.meta)
             ml == managed \cap live
             ml2 == managed \cap live'
  <2>1. /\ ml2 \subseteq ml /\ disclosed \subseteq disclosed' /\ (q \cap ml2) \ disclosed' \subseteq q2
        /\ rot' = rot /\ managed' = managed /\ row'.value = row.value /\ minted \subseteq minted'
        /\ row'.meta.keyID = row.meta.keyID
    BY <1>2 DEF Aside, Onward, QueueShrinks, Carries
  <2>2. ASSUME NEW w \in Rotators
        PROVE  PassKnows(rot[w], row.value, row.meta.keyID, q2, ml2, managed, disclosed')
    <3>1. PassKnows(rot[w], row.value, row.meta.keyID, q, ml, managed, disclosed)
      BY DEF Ledger
    <3> HIDE DEF q, q2, ml, ml2
    <3> QED BY <2>1, <3>1, KnowsGoesOn
  <2> QED BY <2>1, <2>2 DEF Ledger
<1>3. ~Crash
  BY DEF Crash, PassesAreFinished
<1> QED BY <1>1, <1>2, <1>3, UndisturbedNext DEF Undisturbed

LEMMA InitLedger ==
    ASSUME Init
    PROVE  Ledger
<1>1. PICK k \in Key, kid \in OptKey :
        /\ row = [value |-> k, provider |-> HomeOf[k], err |-> Clean,
                  meta |-> [NoMeta EXCEPT !.keyID = kid]]
        /\ live = {k}
        /\ minted = {k}
        /\ managed \subseteq {k}
        /\ managed # {} => kid = k
        /\ rot = [w \in Rotators |-> IdleRot]
  BY DEF Init, OptKey
<1>2. row.meta.keyID = kid /\ row.value = k
  BY <1>1 DEF NoMeta
<1>3. \A w \in Rotators : rot[w].pc = "idle"
  BY <1>1 DEF IdleRot
<1> QED BY <1>1, <1>2, <1>3 DEF Ledger, PassKnows

LEMMA LedgerSuffices ==
    ASSUME Inv, Owned, Ledger, OneRotator, PassesAreFinished
    PROVE  NeverForgotten
<1>1. SUFFICES ASSUME NEW k \in managed \cap live
               PROVE  \/ k = row.value
                      \/ k = row.meta.keyID /\ row.value \notin managed
                      \/ k \in outstandingRevokeKeyIDs(row.meta)
                      \/ k \in disclosed
                      \/ InFlight(k)
  BY DEF NeverForgotten
<1>2. PICK w \in Rotators : TRUE
  BY DEF OneRotator
<1> DEFINE r == rot[w]
<1>3. /\ r \in RotState /\ k \in Key /\ NoKey \notin Key /\ row.provider \in Provider
  BY InvFacts, QueueAssumption
<1>4. PassOwns(r, row.provider, row.value, managed)
  BY <1>3 DEF Owned, PassesAreFinished
<1>5. PassKnows(r, row.value, row.meta.keyID, outstandingRevokeKeyIDs(row.meta),
                managed \cap live, managed, disclosed)
  BY DEF Ledger
<1>6. ASSUME r.new # NoKey, k \in {r.new, r.refused} \/ k \in outstandingRevokeKeyIDs(r.m)
      PROVE  InFlight(k)
  BY <1>6 DEF InFlight
<1>7. r.pc \in {"idle", "retry", "mint", "store", "revoke", "read_back", "write_back", "record", "fail"}
  BY <1>3, <1>4 DEF RotState, PassOwns
<1>8. CASE r.pc \in {"idle", "retry", "mint"}
  BY <1>5, <1>8 DEF PassKnows, Named
<1>9. CASE r.pc \in {"store", "fail"}
  BY <1>3, <1>5, <1>6, <1>9 DEF PassKnows, Named
<1>10. CASE r.pc \in {"revoke", "read_back", "write_back", "record"}
  <2>1. r.new # NoKey /\ r.new = row.value
    BY <1>3, <1>4, <1>10 DEF PassOwns
  <2> QED BY <1>3, <1>5, <1>6, <1>10, <2>1 DEF PassKnows, Named
<1> QED BY <1>7, <1>8, <1>9, <1>10

(* Where one rotation is in flight at a time, nobody edits the entry, every *)
(* adapter records the ids it is answered, and a pass that ends always gets *)
(* to record its outcome, with any number of retries and whatever else      *)
(* fails (mints, revokes, the store, the write-back, the record itself): a  *)
(* live key the engine manages is the stored value, is on the queue, is     *)
(* held by the rotation in flight, was told to the operator, or is still    *)
(* the recorded id of a value whose own id the provider did not answer.     *)
THEOREM NoKeyIsForgotten ==
    ASSUME Undisturbed, PassesAreFinished
    PROVE  Spec => []NeverForgotten
<1>1. Init => Inv /\ Accounted /\ Owned /\ Ledger
  BY InitInv, InitAccounted, InitOwned, InitLedger
<1>2. Inv /\ Accounted /\ Owned /\ Ledger /\ [Next]_vars
        => Inv' /\ Accounted' /\ Owned' /\ Ledger'
  BY NextInv, NextAccounted, NextOwned, NextLedger DEF Undisturbed
<1>3. Inv /\ Owned /\ Ledger => NeverForgotten
  BY LedgerSuffices DEF Undisturbed
<1> QED BY <1>1, <1>2, <1>3, PTL DEF Spec
============================================================================
