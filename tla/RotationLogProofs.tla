------------------------- MODULE RotationLogProofs -------------------------
(* Proofs about RotationLog, for any number of overlapping calls, any cap   *)
(* and any bound on the attempts.                                           *)
EXTENDS RotationLog, TLAPS

CallState == [pc : {"idle", "read", "cas", "done", "dropped", "failed"},
              entry : Entry \cup {NoEntry}, read : Seq(Entry),
              tries : 0 .. rotationLogCASAttempts]

(* t is s with e added, the new entry last and the others as far from the   *)
(* end as before.                                                           *)
Capped(t, s, e) ==
    /\ t \in Seq(Entry)
    /\ Len(t) = IF Len(s) < logCap THEN Len(s) + 1 ELSE logCap
    /\ t[Len(t)] = e
    /\ \A i \in 1 .. Len(t) - 1 : t[i] = s[Len(s) + 1 - Len(t) + i]

Short(s) == Len(s) <= logCap

(* A capped append keeps the most recent entries. *)
LEMMA AppendFacts ==
    ASSUME NEW s \in Seq(Entry), NEW e \in Entry, Short(s)
    PROVE  Capped(AppendRotationLog(s, e), s, e)
<1> DEFINE all == Append(s, e)
           t == AppendRotationLog(s, e)
<1> SUFFICES Capped(t, s, e)
  OBVIOUS
<1>0. Len(s) <= logCap
  BY DEF Short
<1>1. /\ all \in Seq(Entry) /\ Len(s) \in Nat /\ Len(all) = Len(s) + 1 /\ all[Len(s) + 1] = e
      /\ \A i \in 1 .. Len(s) : all[i] = s[i]
      /\ logCap \in Nat \ {0}
  BY LogAssumption
<1>2. CASE Len(s) < logCap
  <2>1. t = all
    BY <1>1, <1>2 DEF AppendRotationLog
  <2>2. /\ t \in Seq(Entry) /\ Len(t) = Len(s) + 1 /\ t[Len(t)] = e
        /\ \A i \in 1 .. Len(t) - 1 : t[i] = s[Len(s) + 1 - Len(t) + i]
    BY <1>1, <1>2, <2>1
  <2> HIDE DEF t
  <2> QED BY <1>2, <2>2 DEF Capped
<1>3. CASE Len(s) = logCap
  <2>1. t = SubSeq(all, 2, logCap + 1)
    BY <1>1, <1>3 DEF AppendRotationLog
  <2> HIDE DEF all
  <2>2. /\ t \in Seq(Entry) /\ Len(t) = logCap
        /\ \A i \in 1 .. logCap : t[i] = all[i + 1]
    BY <1>1, <1>3, <2>1
  <2>3. t[Len(t)] = e
    BY <1>1, <1>3, <2>2
  <2>4. \A i \in 1 .. Len(t) - 1 : t[i] = s[Len(s) + 1 - Len(t) + i]
    BY <1>1, <1>3, <2>2
  <2> HIDE DEF t
  <2> QED BY <1>1, <1>3, <2>2, <2>3, <2>4 DEF Capped
<1> QED BY <1>0, <1>1, <1>2, <1>3

(* s is the end of the history a, as long as the cap allows. *)
Recent(s, a) ==
    /\ Len(s) = IF Len(a) < logCap THEN Len(a) ELSE logCap
    /\ \A i \in 1 .. Len(s) : s[i] = a[Len(a) - Len(s) + i]

(* A capped append to the column and an append to the history agree. *)
LEMMA RecentAppend ==
    ASSUME NEW s \in Seq(Entry), NEW a \in Seq(Entry), NEW e \in Entry, Recent(s, a)
    PROVE  AppendRotationLog(s, e) \in Seq(Entry) /\ Recent(AppendRotationLog(s, e), Append(a, e))
<1> DEFINE t == AppendRotationLog(s, e)
           b == Append(a, e)
<1>1. /\ Len(s) = IF Len(a) < logCap THEN Len(a) ELSE logCap
      /\ \A i \in 1 .. Len(s) : s[i] = a[Len(a) - Len(s) + i]
  BY DEF Recent
<1>2. logCap \in Nat \ {0} /\ Len(s) \in Nat /\ Len(a) \in Nat
      /\ Len(s) <= logCap /\ Len(s) <= Len(a)
  BY <1>1, LogAssumption
<1>3. /\ t \in Seq(Entry)
      /\ Len(t) = IF Len(s) < logCap THEN Len(s) + 1 ELSE logCap
      /\ t[Len(t)] = e
      /\ \A i \in 1 .. Len(t) - 1 : t[i] = s[Len(s) + 1 - Len(t) + i]
  <2>1. Capped(t, s, e)
    BY <1>2, AppendFacts DEF Short
  <2> HIDE DEF t
  <2> QED BY <2>1 DEF Capped
<1>4. /\ b \in Seq(Entry) /\ Len(b) = Len(a) + 1 /\ b[Len(a) + 1] = e
      /\ \A i \in 1 .. Len(a) : b[i] = a[i]
  OBVIOUS
<1> HIDE DEF t, b
<1>5. Len(t) = IF Len(b) < logCap THEN Len(b) ELSE logCap
  BY <1>1, <1>2, <1>3, <1>4
<1>6. ASSUME NEW i \in 1 .. Len(t)
      PROVE  t[i] = b[Len(b) - Len(t) + i]
  <2> DEFINE j == Len(s) + 1 - Len(t) + i
             h == Len(a) - Len(s) + j
  <2>1. Len(t) \in Nat /\ i \in Nat
    BY <1>2, <1>3
  <2>2. CASE i = Len(t)
    <3>1. Len(b) - Len(t) + i = Len(a) + 1
      BY <1>2, <1>4, <2>1, <2>2
    <3> QED BY <1>3, <1>4, <2>2, <3>1
  <2>3. CASE i # Len(t)
    <3>1. i \in 1 .. Len(t) - 1
      BY <2>1, <2>3
    <3>2. j \in 1 .. Len(s)
      BY <1>2, <1>3, <2>1, <3>1
    <3>3. h \in 1 .. Len(a) /\ h = Len(b) - Len(t) + i
      BY <1>2, <1>4, <2>1, <3>2
    <3>4. t[i] = s[j] /\ s[j] = a[h]
      BY <1>1, <1>3, <3>1, <3>2
    <3> HIDE DEF j, h
    <3> QED BY <1>4, <3>3, <3>4
  <2> QED BY <2>2, <2>3
<1>7. t \in Seq(Entry) /\ Recent(t, b)
  BY <1>3, <1>5, <1>6 DEF Recent
<1> QED BY <1>7 DEF t, b

----------------------------------------------------------------------------
Inv == TypeOK /\ MissesArePaidFor /\ LogIsRecentHistory /\ DroppedOnlyUnderContention

(* A step that changes one call and neither the column nor the history. *)
LEMMA QuietStep ==
    ASSUME Inv, NEW c \in Call, NEW r \in CallState, call' = [call EXCEPT ![c] = r],
           UNCHANGED <<log, appended>>,
           r.pc \in {"idle", "read", "cas"} =>
             r.tries < rotationLogCASAttempts /\ r.tries <= Len(appended),
           r.pc = "cas" /\ log # r.read => r.tries < Len(appended),
           r.pc \in {"read", "cas"} => r.entry \in Entry,
           r.pc = "dropped" => Len(appended) >= rotationLogCASAttempts
    PROVE  Inv'
<1>1. TypeOK'
  BY DEF Inv, TypeOK, CallState
<1>2. call'[c] = r /\ \A d \in Call \ {c} : call'[d] = call[d]
  BY DEF Inv, TypeOK
<1>3. MissesArePaidFor'
  BY <1>2 DEF Inv, MissesArePaidFor
<1>4. LogIsRecentHistory'
  BY DEF Inv, LogIsRecentHistory
<1>5. DroppedOnlyUnderContention'
  BY <1>2 DEF Inv, DroppedOnlyUnderContention
<1> QED BY <1>1, <1>3, <1>4, <1>5 DEF Inv

LEMMA CallFacts ==
    ASSUME Inv, NEW c \in Call
    PROVE  /\ call[c] \in CallState
           /\ call[c].tries \in 0 .. rotationLogCASAttempts
           /\ call[c].read \in Seq(Entry)
           /\ log \in Seq(Entry)
           /\ appended \in Seq(Entry)
           /\ Len(appended) \in Nat
           /\ rotationLogCASAttempts \in Nat
<1>1. call[c] \in CallState /\ log \in Seq(Entry) /\ appended \in Seq(Entry)
  BY DEF Inv, TypeOK, CallState
<1> QED BY <1>1, LogAssumption DEF CallState

(* The swap that lands. *)
LEMMA SwapInv ==
    ASSUME Inv, NEW c \in Call, call[c].pc = "cas", log = call[c].read,
           log' = AppendRotationLog(call[c].read, call[c].entry),
           appended' = Append(appended, call[c].entry),
           call' = [call EXCEPT ![c].pc = "done"]
    PROVE  Inv'
<1> DEFINE e == call[c].entry
<1>1. e \in Entry
  BY DEF Inv, MissesArePaidFor
<1>2. log \in Seq(Entry) /\ appended \in Seq(Entry) /\ Len(appended) \in Nat
  BY CallFacts
<1>3. Recent(log, appended)
  BY DEF Inv, LogIsRecentHistory, Recent
<1>4. log' = AppendRotationLog(log, e) /\ appended' = Append(appended, e)
  OBVIOUS
<1> HIDE DEF e
<1>5. /\ log' \in Seq(Entry) /\ appended' \in Seq(Entry)
      /\ Len(appended') = Len(appended) + 1 /\ Recent(log', appended')
  <2>1. appended' \in Seq(Entry) /\ Len(appended') = Len(appended) + 1
    BY <1>1, <1>2, <1>4
  <2>2. log' \in Seq(Entry) /\ Recent(log', appended')
    BY <1>1, <1>2, <1>3, <1>4, RecentAppend
  <2> QED BY <2>1, <2>2
<1>7. LogIsRecentHistory'
  BY <1>5 DEF LogIsRecentHistory, Recent
<1>8. TypeOK'
  BY <1>5 DEF Inv, TypeOK
<1>9. call'[c].pc = "done" /\ \A d \in Call \ {c} : call'[d] = call[d]
  BY DEF Inv, TypeOK
<1>10. MissesArePaidFor'
  <2>1. ASSUME NEW d \in Call, d # c
        PROVE  /\ call[d].pc \in {"idle", "read", "cas"} =>
                    /\ call[d].tries < rotationLogCASAttempts
                    /\ call[d].tries <= Len(appended')
                    /\ call[d].tries < Len(appended')
               /\ call[d].pc \in {"read", "cas"} => call[d].entry \in Entry
    <3>1. call[d].tries \in Nat
      BY CallFacts
    <3> QED BY <1>2, <1>5, <3>1 DEF Inv, MissesArePaidFor
  <2> QED BY <1>9, <2>1 DEF MissesArePaidFor
<1>11. DroppedOnlyUnderContention'
  <2>1. ASSUME NEW d \in Call, d # c, call[d].pc = "dropped"
        PROVE  Len(appended') >= rotationLogCASAttempts
    <3>1. Len(appended) >= rotationLogCASAttempts /\ rotationLogCASAttempts \in Nat
      BY <2>1, CallFacts DEF Inv, DroppedOnlyUnderContention
    <3> QED BY <1>2, <1>5, <3>1
  <2> QED BY <1>9, <2>1 DEF DroppedOnlyUnderContention
<1> QED BY <1>7, <1>8, <1>10, <1>11 DEF Inv

LEMMA NextInv ==
    ASSUME Inv, [Next]_vars
    PROVE  Inv'
<1>1. ASSUME NEW c \in Call, Begin(c)
      PROVE  Inv'
  <2>1. PICK e \in Entry : call' = [call EXCEPT ![c].pc = "read", ![c].entry = e]
    BY <1>1 DEF Begin
  <2> DEFINE r == [call[c] EXCEPT !.pc = "read", !.entry = e]
  <2>2. r \in CallState /\ r.pc = "read" /\ r.entry = e /\ r.tries = call[c].tries
    BY CallFacts DEF CallState
  <2>3. call' = [call EXCEPT ![c] = r]
    BY <2>1
  <2>4. r.tries < rotationLogCASAttempts /\ r.tries <= Len(appended)
    BY <1>1, <2>2 DEF Begin, Inv, MissesArePaidFor
  <2> HIDE DEF r
  <2> QED BY <1>1, <2>2, <2>3, <2>4, QuietStep DEF Begin
<1>2. ASSUME NEW c \in Call, GetVaultEntryRotationLog(c)
      PROVE  Inv'
  <2> DEFINE r == [call[c] EXCEPT !.pc = "cas", !.read = log]
  <2>1. /\ r \in CallState /\ r.pc = "cas" /\ r.entry = call[c].entry /\ r.read = log
        /\ r.tries = call[c].tries
    BY CallFacts DEF CallState
  <2>2. call' = [call EXCEPT ![c] = r]
    BY <1>2 DEF GetVaultEntryRotationLog
  <2>3. /\ r.tries < rotationLogCASAttempts /\ r.tries <= Len(appended)
        /\ r.entry \in Entry
    BY <1>2, <2>1 DEF GetVaultEntryRotationLog, Inv, MissesArePaidFor
  <2> HIDE DEF r
  <2> QED BY <1>2, <2>1, <2>2, <2>3, QuietStep DEF GetVaultEntryRotationLog
<1>3. ASSUME NEW c \in Call, CASVaultEntryRotationLog(c)
      PROVE  Inv'
  <2>1. CASE log = call[c].read
    BY <1>3, <2>1, SwapInv DEF CASVaultEntryRotationLog
  <2>2. CASE log # call[c].read
    <3> DEFINE pc == IF GivesUp(call[c].tries + 1) THEN "dropped" ELSE "read"
               r == [call[c] EXCEPT !.pc = pc, !.tries = @ + 1]
    <3>1. /\ call[c].tries < rotationLogCASAttempts /\ call[c].tries < Len(appended)
          /\ call[c].entry \in Entry
      BY <1>3, <2>2 DEF CASVaultEntryRotationLog, Inv, MissesArePaidFor
    <3>2. /\ call[c].tries + 1 \in 0 .. rotationLogCASAttempts
          /\ call[c].tries + 1 <= Len(appended)
      BY <3>1, CallFacts
    <3>3. pc = "read" => call[c].tries + 1 < rotationLogCASAttempts
      BY <3>2, CallFacts DEF GivesUp
    <3>4. pc \in {"dropped", "read"}
      OBVIOUS
    <3>7. pc = "dropped" => Len(appended) >= rotationLogCASAttempts
      BY <3>2, CallFacts DEF GivesUp
    <3>5. call' = [call EXCEPT ![c] = r] /\ UNCHANGED <<log, appended>>
      BY <1>3, <2>2 DEF CASVaultEntryRotationLog
    <3> HIDE DEF pc
    <3>6. /\ r \in CallState /\ r.pc = pc /\ r.tries = call[c].tries + 1
          /\ r.entry = call[c].entry
      BY <3>2, <3>4, CallFacts DEF CallState
    <3> HIDE DEF r
    <3> QED BY <3>1, <3>2, <3>3, <3>4, <3>5, <3>6, <3>7, QuietStep
  <2> QED BY <2>1, <2>2
<1>4. ASSUME NEW c \in Call, StatementFails(c)
      PROVE  Inv'
  <2> DEFINE r == [call[c] EXCEPT !.pc = "failed"]
  <2>1. r \in CallState /\ r.pc = "failed"
    BY CallFacts DEF CallState
  <2>2. call' = [call EXCEPT ![c] = r] /\ UNCHANGED <<log, appended>>
    BY <1>4 DEF StatementFails
  <2> HIDE DEF r
  <2> QED BY <2>1, <2>2, QuietStep
<1>5. CASE UNCHANGED vars
  BY <1>5 DEF vars, Inv, TypeOK, MissesArePaidFor, LogIsRecentHistory,
              DroppedOnlyUnderContention
<1> QED BY <1>1, <1>2, <1>3, <1>4, <1>5 DEF Next

LEMMA InitInv ==
    ASSUME Init
    PROVE  Inv
<1>1. log = << >> /\ appended = << >> /\ \A c \in Call : call[c] = Idle
  BY DEF Init
<1>2. Len(log) = 0 /\ Len(appended) = 0 /\ rotationLogCASAttempts \in Nat \ {0}
      /\ logCap \in Nat \ {0}
  BY <1>1, LogAssumption
<1>3. Idle \in CallState /\ Idle.pc = "idle" /\ Idle.tries = 0
  <2>1. 0 \in 0 .. rotationLogCASAttempts
    BY <1>2
  <2> QED BY <2>1 DEF Idle, CallState
<1>4. TypeOK
  BY <1>1, <1>3 DEF Init, TypeOK, CallState
<1>5. MissesArePaidFor
  <2>1. 0 < rotationLogCASAttempts /\ 0 <= Len(appended)
    BY <1>2
  <2> QED BY <1>1, <1>3, <2>1 DEF MissesArePaidFor
<1>6. LogIsRecentHistory
  BY <1>2 DEF LogIsRecentHistory
<1>7. DroppedOnlyUnderContention
  BY <1>1, <1>3 DEF DroppedOnlyUnderContention
<1> QED BY <1>4, <1>5, <1>6, <1>7 DEF Inv

(* The inductive invariant of the log. *)
THEOREM LogInvariance == Spec => []Inv
<1>1. Init => Inv
  BY InitInv
<1>2. Inv /\ [Next]_vars => Inv'
  BY NextInv
<1> QED BY <1>1, <1>2, PTL DEF Spec

(* The column, the history and the calls keep their types; no call makes    *)
(* more attempts than rotationLogCASAttempts.                               *)
THEOREM LogTypeCorrect == Spec => []TypeOK
<1>1. Inv => TypeOK
  BY DEF Inv
<1> QED BY <1>1, LogInvariance, PTL

(* However many calls of appendRotationLog overlap, rotation_log is the     *)
(* most recent logCap appends in the order they landed.                     *)
THEOREM LogKeepsHistory == Spec => []LogIsRecentHistory
<1>1. Inv => LogIsRecentHistory
  BY DEF Inv
<1> QED BY <1>1, LogInvariance, PTL

(* A call of appendRotationLog drops its entry only when at least           *)
(* rotationLogCASAttempts other appends have landed.                        *)
THEOREM DropsArePaidFor == Spec => []DroppedOnlyUnderContention
<1>1. Inv => DroppedOnlyUnderContention
  BY DEF Inv
<1> QED BY <1>1, LogInvariance, PTL
============================================================================
