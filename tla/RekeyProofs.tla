---------------------------- MODULE RekeyProofs ----------------------------
(* What the key gate, the migrations, the sweep and the writers promise for  *)
(* any number of keys, entries and names, any stores an older release may    *)
(* have left and any number of boots, crashes and changes of the keys.       *)
EXTENDS Rekey, TLAPS

-----------------------------------------------------------------------------
(* The inductive invariant. *)

(* The process runs under the configuration that passed the gate; nothing is *)
(* advised while it is down.                                                 *)
Booted ==
    /\ pc # "down" => env = good /\ (sentinel = NoKey => forfeit)
    /\ pc = "down" => ~advice

(* What the operator may have configured since. *)
Plausible ==
    pc = "down" =>
        \/ env = good
        \/ env.cur = good.cur /\ env.prev = NoKey
        \/ env.cur \notin used /\ env.prev = NoKey
        \/ env.cur \notin used /\ env.prev = good.cur /\ sentinel # NoKey

(* A new key is new. *)
Ringed ==
    /\ good.cur \in used /\ good.prev \in used \cup {NoKey} /\ good.prev # good.cur
    /\ sentinel \in used \cup {NoKey}

(* Every stored value is sealed under a key of S, or not at all. *)
RowIn(r, S) == r # Unborn => r.value \in S /\ \A f \in Fields : r.seal[f] \in S \cup {Empty, Plain}
AllIn(S) ==
    /\ \A e \in Entries : RowIn(entry[e], S)
    /\ \A c \in Cells : cell[c].seal \in S \cup {Empty, Plain}
    /\ sentinel \in S \cup {NoKey}

UrlCurrent(r, k) == r # Unborn => r.urlIdx = IF r.seal["url"] = Empty THEN NoKey ELSE k

(* The sentinel is sealed with the last of the values: once it is under the  *)
(* current key they all are, and beside a previous key so are the indexes.   *)
Swept ==
    sentinel = good.cur =>
        /\ AllIn({good.cur})
        /\ good.prev # NoKey => \A e \in Entries : UrlCurrent(entry[e], good.cur)

(* A store that no boot has passed is as the older release left it. *)
Fresh ==
    sentinel = NoKey =>
        /\ good.cur = FirstKey /\ good.prev = NoKey /\ used = {FirstKey}
        /\ AllIn({FirstKey}) /\ cell["dek"].seal = Empty

Advised == advice => sentinel = good.cur /\ good.prev # NoKey

Sound == AllIn({good.cur, good.prev} \ {NoKey}) /\ Swept /\ Fresh /\ Advised

Inv == TypeOK /\ Booted /\ Plausible /\ Ringed /\ (~forfeit => Sound)

(* A name that is an entry's id is that entry's own. *)
OwnNames == \A e \in Entries : entry[e] # Unborn => entry[e].label \in Labels \cup {e}

-----------------------------------------------------------------------------
(* The shapes of rows. *)

LiveRows ==
    [state : {"live"}, value : Keys, old : BOOLEAN,
     seal : [Fields -> Keys \cup {Empty, Plain}], label : Labels \cup Entries,
     urlIdx : Keys \cup {NoKey}, nameIdx : Tokens]

LEMMA RowForm ==
    /\ \A r \in Rows : r # Unborn => r \in LiveRows
    /\ \A r \in LiveRows : r \in Rows /\ r # Unborn
<1>1. \A r \in LiveRows : r.state = "live"
  BY DEF LiveRows
<1>2. Unborn.state = "unborn"
  BY DEF Unborn
<1> QED BY <1>1, <1>2 DEF Rows, LiveRows

LEMMA Distinct ==
    /\ NoKey \notin Keys /\ Empty \notin Keys /\ Plain \notin Keys /\ Nested \notin Keys
    /\ NoKey # Empty /\ NoKey # Plain /\ NoKey # Nested
    /\ Empty # Plain /\ Empty # Nested /\ Plain # Nested
  BY RekeyAssumption DEF Empty, Plain, Nested

LEMMA RowTypes ==
    ASSUME TypeOK, NEW e \in Entries, entry[e] # Unborn
    PROVE  /\ entry[e] \in LiveRows /\ e \in Live
           /\ entry[e].label \in Labels \cup Entries
           /\ \A f \in Fields : entry[e].seal[f] \in Keys \cup {Empty, Plain}
  BY RowForm DEF TypeOK, LiveRows, Live

LEMMA RingTypes ==
    ASSUME TypeOK
    PROVE  /\ env.cur \in Keys /\ env.prev \in Keys \cup {NoKey}
           /\ good.cur \in Keys /\ good.prev \in Keys \cup {NoKey}
           /\ Ring \subseteq Keys
  BY DEF TypeOK, Rings, Ring

(* A name's token is a token. *)
LEMMA TokenTypes ==
    ASSUME TypeOK, NEW l \in Labels \cup Entries
    PROVE  scopedNameBlindIndex(l) \in Tokens
  BY RingTypes DEF scopedNameBlindIndex, Tokens

(* Stored, spelt out. *)
LEMMA StoredMembers ==
    \A s : s \in Stored <=>
        \/ \E e \in Live : s \in Seals(entry[e])
        \/ \E c \in Cells : s = cell[c].seal
        \/ s = sentinel /\ s # NoKey
<1> DEFINE A == UNION {Seals(entry[e]) : e \in Live}
           B == {cell[c].seal : c \in Cells}
           C == {sentinel} \ {NoKey}
<1>0. Stored = (A \cup B) \cup C
  BY Zenon DEF Stored
<1> TAKE s
<1>1. s \in A <=> \E e \in Live : s \in Seals(entry[e])
  OBVIOUS
<1>2. s \in B <=> \E c \in Cells : s = cell[c].seal
  OBVIOUS
<1>3. s \in C <=> s = sentinel /\ s # NoKey
  OBVIOUS
<1> HIDE DEF A, B, C
<1> QED BY <1>0, <1>1, <1>2, <1>3

LEMMA StoredIn ==
    ASSUME NEW S, AllIn(S)
    PROVE  Stored \subseteq S \cup {Empty, Plain}
<1>1. ASSUME NEW e \in Live, NEW s \in Seals(entry[e]) PROVE s \in S \cup {Empty, Plain}
  BY DEF Live, Seals, AllIn, RowIn
<1>2. ASSUME NEW c \in Cells PROVE cell[c].seal \in S \cup {Empty, Plain}
  BY DEF AllIn
<1>3. sentinel # NoKey => sentinel \in S
  BY DEF AllIn
<1> QED BY <1>1, <1>2, <1>3, StoredMembers

LEMMA AllStored ==
    ASSUME NEW S, AllIn(S), NEW T, S \subseteq T
    PROVE  AllIn(T)
  BY DEF AllIn, RowIn

LEMMA InStored ==
    /\ \A e \in Live : entry[e].value \in Stored /\ \A f \in Fields : entry[e].seal[f] \in Stored
    /\ \A c \in Cells : cell[c].seal \in Stored
    /\ sentinel # NoKey => sentinel \in Stored
<1>1. ASSUME NEW e \in Live
      PROVE  entry[e].value \in Stored /\ \A f \in Fields : entry[e].seal[f] \in Stored
  <2>1. entry[e].value \in Seals(entry[e]) /\ \A f \in Fields : entry[e].seal[f] \in Seals(entry[e])
    BY DEF Seals
  <2> QED BY <2>1, StoredMembers
<1>2. ASSUME NEW c \in Cells PROVE cell[c].seal \in Stored
  BY StoredMembers, Zenon
<1>3. sentinel # NoKey => sentinel \in Stored
  BY StoredMembers, Zenon
<1> QED BY <1>1, <1>2, <1>3

-----------------------------------------------------------------------------
(* Steps that leave the store alone. *)

LEMMA QuietStep ==
    ASSUME Inv, UNCHANGED <<entry, cell, sentinel, good, used, forfeit>>,
           TypeOK', Booted', Plausible', Advised' \/ forfeit
    PROVE  Inv'
<1>1. Ringed'
  BY DEF Inv, Ringed
<1>2. ~forfeit => Sound'
  BY DEF Inv, Sound, AllIn, Swept, Fresh, UrlCurrent, RowIn
<1> QED BY <1>1, <1>2 DEF Inv

LEMMA ReconfigureInv == ASSUME Inv, Reconfigure, "upgrade" \notin Moves PROVE Inv'
<1>0. TypeOK /\ Booted /\ Plausible /\ Ringed /\ (~forfeit => Advised)
  BY DEF Inv, Sound
<1>1. PICK ring : /\ Configure(ring)
                  /\ \/ ring = good
                     \/ ring = [cur |-> good.cur, prev |-> NoKey]
                     \/ \E k \in Keys \ used : ring = [cur |-> k, prev |-> NoKey]
                     \/ sentinel # NoKey /\ \E k \in Keys \ used : ring = [cur |-> k, prev |-> good.cur]
  BY DEF Reconfigure
<1>2. /\ pc = "down" /\ env' = ring
      /\ UNCHANGED <<entry, cell, sentinel, pc, todo, advice, writes, good, used, forfeit>>
  BY <1>1 DEF Configure, history
<1>3. ring \in Rings
  BY <1>0, <1>1, RingTypes DEF TypeOK, Rings
<1>4. TypeOK'
  BY <1>0, <1>2, <1>3 DEF TypeOK
<1>5. Booted'
  BY <1>0, <1>2 DEF Booted
<1>6. Plausible'
  BY <1>1, <1>2 DEF Plausible
<1>7. Advised' \/ forfeit
  BY <1>0, <1>2 DEF Advised
<1> QED BY <1>2, <1>4, <1>5, <1>6, <1>7, QuietStep

(* A process that stops, or moves on without writing. *)
LEMMA StopsOrPasses ==
    ASSUME Inv, pc # "down", UNCHANGED <<entry, cell, sentinel, env, writes, good, used, forfeit>>,
           todo' \subseteq Entries,
           \/ pc' = "down" /\ advice' = FALSE
           \/ /\ pc' \in {"totp", "v1", "conf", "rest", "rekey", "serving"}
              /\ \/ advice' = advice
                 \/ advice' = TRUE /\ (forfeit \/ (sentinel = good.cur /\ good.prev # NoKey))
    PROVE  Inv'
<1>0. TypeOK /\ Booted /\ (~forfeit => Advised)
  BY DEF Inv, Sound
<1>1. TypeOK'
  BY <1>0 DEF TypeOK
<1>2. Booted' /\ Plausible' /\ (Advised' \/ forfeit)
  BY <1>0 DEF Booted, Plausible, Advised
<1> QED BY <1>1, <1>2, QuietStep

-----------------------------------------------------------------------------
(* What a step does to the vault entries. *)

(* A row is rewritten: each of its values is kept or sealed anew, a column   *)
(* that does not open is kept, and a current url index stays current.        *)
Rewritten(r, r2) ==
    /\ r2 \in LiveRows
    /\ r2.value = env.cur \/ (r # Unborn /\ r2.value = r.value)
    /\ \A f \in Fields : r2.seal[f] = env.cur \/ (r # Unborn /\ r2.seal[f] = r.seal[f])
    /\ UrlCurrent(r, env.cur) => UrlCurrent(r2, env.cur)
    /\ r # Unborn => \A f \in {"url", "notes"} :
                        ~Readable(r.seal[f]) => r2.seal[f] = r.seal[f]

(* The name is kept, is the entry's own, or is one the scope does not have;  *)
(* in the last case no other row changes.                                    *)
Named(e, new) ==
    \/ entry[e] # Unborn /\ new[e].label = entry[e].label
    \/ new[e].label = e
    \/ /\ new[e].label \in Labels /\ ~vaultEntryNameExistsInScope(e, new[e].label)
       /\ \A d \in Entries \ {e} : new[d] = entry[d]

Rewriting(new) ==
    /\ new \in [Entries -> Rows]
    /\ \A e \in Entries : new[e] = entry[e] \/ (Rewritten(entry[e], new[e]) /\ Named(e, new))

LEMMA NothingRewritten == ASSUME TypeOK, UNCHANGED entry PROVE Rewriting(entry')
  BY DEF TypeOK, Rewriting

(* A step that writes one row. *)
LEMMA OneRow ==
    ASSUME TypeOK, NEW e \in Entries, NEW r2,
           entry' = [entry EXCEPT ![e] = r2],
           Rewritten(entry[e], r2),
           \/ entry[e] # Unborn /\ r2.label = entry[e].label
           \/ r2.label = e
           \/ r2.label \in Labels /\ ~vaultEntryNameExistsInScope(e, r2.label)
    PROVE  Rewriting(entry')
<1>1. r2 \in Rows
  BY RowForm DEF Rewritten
<1>2. entry' \in [Entries -> Rows] /\ entry'[e] = r2 /\ \A d \in Entries \ {e} : entry'[d] = entry[d]
  BY <1>1 DEF TypeOK
<1>3. Named(e, entry')
  BY <1>2 DEF Named
<1> QED BY <1>2, <1>3 DEF Rewriting

LEMMA ConfBackfill ==
    ASSUME TypeOK, NEW e \in Entries, e \in Live, NEW k,
           entry' = [entry EXCEPT ![e].seal["conf"] = k],
           k = env.cur \/ k = entry[e].seal["conf"]
    PROVE  Rewriting(entry')
<1> DEFINE r2 == [entry[e] EXCEPT !.seal["conf"] = k]
<1>0. entry[e] # Unborn /\ entry[e] \in LiveRows /\ entry[e].seal \in [Fields -> Keys \cup {Empty, Plain}]
  BY RowTypes DEF Live, LiveRows
<1>1. k \in Keys \cup {Empty, Plain} /\ {"conf", "url", "name", "notes"} = Fields
  BY <1>0, RingTypes DEF Fields
<1>2. r2 \in LiveRows
  BY <1>0, <1>1 DEF LiveRows
<1>3. /\ r2.value = entry[e].value /\ r2.label = entry[e].label /\ r2.urlIdx = entry[e].urlIdx
      /\ r2.seal["conf"] = k /\ \A f \in Fields \ {"conf"} : r2.seal[f] = entry[e].seal[f]
  BY <1>0, <1>1 DEF LiveRows
<1>4. entry' = [entry EXCEPT ![e] = r2]
  BY DEF TypeOK
<1> HIDE DEF r2
<1>5. Rewritten(entry[e], r2)
  BY <1>0, <1>1, <1>2, <1>3, RowForm DEF Rewritten, UrlCurrent
<1> QED BY <1>0, <1>3, <1>4, <1>5, OneRow

LEMMA FieldNames == Fields = {"conf", "url", "name", "notes"}
  BY DEF Fields

LEMMA AtRestRow ==
    ASSUME TypeOK, NEW e \in Entries, e \in Live, NEW l \in Labels \cup Entries, NEW n,
           n \in {env.cur, entry[e].seal["name"]},
           Readable(entry[e].seal["url"])
    PROVE  Rewritten(entry[e], AtRest(entry[e], l, n)) /\ AtRest(entry[e], l, n).label = l
<1> DEFINE r == entry[e]
           r2 == AtRest(r, l, n)
           sealing == [f \in Fields |-> IF f = "conf" THEN r.seal[f]
                                        ELSE IF f = "name" THEN n
                                        ELSE encryptColumnIfNeeded(r.seal[f])]
           url == urlBlindIndex(r.seal["url"])
           token == scopedNameBlindIndex(l)
<1>0. r # Unborn /\ r \in LiveRows /\ \A f \in Fields : r.seal[f] \in Keys \cup {Empty, Plain}
  BY RowTypes DEF Live
<1>1. /\ sealing \in [Fields -> Keys \cup {Empty, Plain}]
      /\ \A f \in Fields : sealing[f] = env.cur \/ sealing[f] = r.seal[f]
  BY <1>0, RingTypes, FieldNames DEF encryptColumnIfNeeded
<1>2. /\ sealing["url"] = encryptColumnIfNeeded(r.seal["url"])
      /\ sealing["notes"] = encryptColumnIfNeeded(r.seal["notes"])
  BY FieldNames
<1>3. url \in Keys \cup {NoKey} /\ token \in Tokens
  BY RingTypes, TokenTypes DEF urlBlindIndex
<1>4. r2 = [r EXCEPT !.seal = sealing, !.label = l, !.urlIdx = url, !.nameIdx = token]
  BY DEF AtRest
<1> HIDE DEF sealing, url, token
<1>5. /\ r2 \in LiveRows /\ r2.seal = sealing /\ r2.label = l /\ r2.urlIdx = url
      /\ r2.value = r.value
  BY <1>0, <1>1, <1>3, <1>4 DEF LiveRows
<1> HIDE DEF r2
<1>6. UrlCurrent(r2, env.cur)
  BY <1>2, <1>5, RingTypes, Distinct DEF UrlCurrent, url, urlBlindIndex, encryptColumnIfNeeded
<1>7. \A f \in {"url", "notes"} : ~Readable(r.seal[f]) => r2.seal[f] = r.seal[f]
  BY <1>2, <1>5 DEF Readable, encryptColumnIfNeeded
<1>8. Rewritten(r, r2)
  BY <1>0, <1>1, <1>5, <1>6, <1>7 DEF Rewritten
<1> QED BY <1>5, <1>8 DEF r2

LEMMA RestBackfill ==
    ASSUME TypeOK, NEW e \in Entries, e \in Live, BackfillMetadataAtRest(e)
    PROVE  Rewriting(entry')
<1> DEFINE r == entry[e]
           r2 == IF ~Readable(r.seal["url"]) \/ ~Readable(r.seal["name"]) THEN r
                 ELSE IF TokenTaken(e, scopedNameBlindIndex(r.label))
                      THEN AtRest(r, metadataBackfillDuplicateName(e), env.cur)
                      ELSE AtRest(r, r.label, encryptColumnIfNeeded(r.seal["name"]))
<1>0. r # Unborn /\ r.label \in Labels \cup Entries
  BY RowTypes DEF Live
<1>1. entry' = [entry EXCEPT ![e] = r2]
  BY DEF BackfillMetadataAtRest
<1>2. CASE ~Readable(r.seal["url"]) \/ ~Readable(r.seal["name"])
  <2>1. UNCHANGED entry
    BY <1>1, <1>2 DEF TypeOK
  <2> QED BY <2>1, NothingRewritten
<1>3. CASE /\ Readable(r.seal["url"]) /\ Readable(r.seal["name"])
           /\ TokenTaken(e, scopedNameBlindIndex(r.label))
  <2>1. r2 = AtRest(r, e, env.cur)
    BY <1>3 DEF metadataBackfillDuplicateName
  <2> HIDE DEF r2
  <2>2. Rewritten(r, r2) /\ r2.label = e
    BY <2>1, <1>3, AtRestRow
  <2> QED BY <1>1, <2>2, OneRow
<1>4. CASE /\ Readable(r.seal["url"]) /\ Readable(r.seal["name"])
           /\ ~TokenTaken(e, scopedNameBlindIndex(r.label))
  <2> DEFINE n == encryptColumnIfNeeded(r.seal["name"])
  <2>1. r2 = AtRest(r, r.label, n)
    BY <1>4
  <2>2. n \in {env.cur, r.seal["name"]}
    BY DEF encryptColumnIfNeeded
  <2> HIDE DEF r2, n
  <2>3. Rewritten(r, r2) /\ r2.label = r.label
    BY <1>0, <2>1, <2>2, <1>4, AtRestRow
  <2> QED BY <1>0, <1>1, <2>3, OneRow
<1> QED BY <1>2, <1>3, <1>4

LEMMA V1Migration == ASSUME TypeOK, MigrateEncryption PROVE Rewriting(entry')
<1>1. CASE UNCHANGED entry
  BY <1>1, NothingRewritten
<1>2. CASE entry' = [e \in Entries |-> IF e \in V1Rows
                        THEN [entry[e] EXCEPT !.value = env.cur, !.old = FALSE] ELSE entry[e]]
  <2>1. ASSUME NEW e \in V1Rows
        PROVE  Rewritten(entry[e], entry'[e]) /\ Named(e, entry') /\ entry'[e] \in Rows
    <3> DEFINE r2 == [entry[e] EXCEPT !.value = env.cur, !.old = FALSE]
    <3>0. e \in Entries /\ entry[e] # Unborn /\ entry[e] \in LiveRows
      BY RowTypes DEF V1Rows, Live
    <3>1. entry'[e] = r2
      BY <1>2, <3>0
    <3>2. /\ r2 \in LiveRows /\ r2.value = env.cur /\ r2.label = entry[e].label
          /\ r2.seal = entry[e].seal /\ r2.urlIdx = entry[e].urlIdx
      BY <3>0, RingTypes DEF LiveRows
    <3> HIDE DEF r2
    <3>3. Rewritten(entry[e], r2)
      BY <3>0, <3>2, RowForm DEF Rewritten, UrlCurrent
    <3> QED BY <3>0, <3>1, <3>2, <3>3, RowForm DEF Named
  <2>2. ASSUME NEW e \in Entries, e \notin V1Rows PROVE entry'[e] = entry[e]
    BY <1>2, <2>2
  <2>3. entry' \in [Entries -> Rows]
    BY <1>2, <2>1, <2>2 DEF TypeOK
  <2> QED BY <2>1, <2>2, <2>3 DEF Rewriting
<1> QED BY <1>1, <1>2 DEF MigrateEncryption

LEMMA ConvertedSeal ==
    ASSUME TypeOK, NEW s \in Keys \cup {Empty, Plain}
    PROVE  /\ Converted(s) \in {s, env.cur} /\ Converted(s) \in Keys \cup {Empty, Plain}
           /\ ~Readable(s) => Converted(s) = s
           /\ Converted(s) = Empty <=> s = Empty
           /\ s = env.prev => Converted(s) = env.cur
  BY RingTypes, Distinct DEF Converted, keyAge, Readable, Ring

LEMMA Scan ==
    ASSUME TypeOK, NEW W \in SUBSET Live, entry' = scanVaultEntries(W)
    PROVE  /\ Rewriting(entry')
           /\ \A e \in Live : /\ UrlCurrent(entry'[e], env.cur) /\ e \in Live'
                              /\ entry'[e].value = Converted(entry[e].value)
                              /\ \A f \in Fields : entry'[e].seal[f] = Converted(entry[e].seal[f])
           /\ \A e \in Entries \ Live : entry'[e] = Unborn
<1>1. ASSUME NEW e \in Live
      PROVE  /\ Rewritten(entry[e], entry'[e]) /\ Named(e, entry') /\ entry'[e] \in Rows
             /\ UrlCurrent(entry'[e], env.cur) /\ e \in Live'
             /\ entry'[e].value = Converted(entry[e].value)
             /\ \A f \in Fields : entry'[e].seal[f] = Converted(entry[e].seal[f])
  <2> DEFINE r == entry[e]
             sealing == [f \in Fields |-> Converted(r.seal[f])]
             val == Converted(r.value)
             url == urlBlindIndex(r.seal["url"])
             token == IF e \in W THEN WantName(e) ELSE r.nameIdx
             r2 == [r EXCEPT !.value = val, !.old = FALSE, !.seal = sealing,
                             !.urlIdx = url, !.nameIdx = token]
  <2>0. /\ e \in Entries /\ r # Unborn /\ r \in LiveRows /\ r.label \in Labels \cup Entries
        /\ \A f \in Fields : r.seal[f] \in Keys \cup {Empty, Plain}
    BY RowTypes DEF Live
  <2>1. entry'[e] = r2
    BY <2>0 DEF scanVaultEntries
  <2>2. r.value \in Keys /\ r.nameIdx \in Tokens
    BY <2>0 DEF LiveRows
  <2>3. val \in {env.cur, r.value} /\ val \in Keys
    BY <2>2, RingTypes, ConvertedSeal
  <2>4. /\ sealing \in [Fields -> Keys \cup {Empty, Plain}]
        /\ \A f \in Fields : /\ sealing[f] \in {r.seal[f], env.cur}
                             /\ ~Readable(r.seal[f]) => sealing[f] = r.seal[f]
                             /\ sealing[f] = Empty <=> r.seal[f] = Empty
    BY <2>0, ConvertedSeal
  <2>5. url \in Keys \cup {NoKey} /\ token \in Tokens
    BY <2>0, <2>2, RingTypes, TokenTypes DEF urlBlindIndex, WantName
  <2> HIDE DEF sealing, val, url, token
  <2>6. /\ r2 \in LiveRows /\ r2.value = val /\ r2.seal = sealing /\ r2.urlIdx = url
        /\ r2.label = r.label
    BY <2>0, <2>3, <2>4, <2>5 DEF LiveRows
  <2> HIDE DEF r2
  <2>7. UrlCurrent(r2, env.cur)
    BY <2>4, <2>6, FieldNames DEF UrlCurrent, url, urlBlindIndex
  <2>8. Rewritten(r, r2)
    BY <2>0, <2>3, <2>4, <2>6, <2>7, FieldNames DEF Rewritten
  <2>9. \A f \in Fields : sealing[f] = Converted(r.seal[f])
    BY DEF sealing
  <2>10. r2 \in Rows /\ r2 # Unborn
    BY <2>6, RowForm
  <2> QED BY <2>0, <2>1, <2>6, <2>7, <2>8, <2>9, <2>10 DEF Named, Live, val
<1>2. ASSUME NEW e \in Entries, e \notin Live PROVE entry'[e] = entry[e] /\ entry'[e] = Unborn
  BY <1>2 DEF scanVaultEntries, Live
<1>3. entry' \in [Entries -> Rows]
  BY <1>1, <1>2 DEF scanVaultEntries, TypeOK
<1> QED BY <1>1, <1>2, <1>3 DEF Rewriting

LEMMA CreateRow ==
    ASSUME TypeOK, NEW e \in Entries, NEW l \in Labels, Create(e, l)
    PROVE  Rewriting(entry')
<1> DEFINE sealing == [f \in Fields |-> env.cur]
           token == scopedNameBlindIndex(l)
           r2 == [state |-> "live", value |-> env.cur, old |-> FALSE, seal |-> sealing,
                  label |-> l, urlIdx |-> env.cur, nameIdx |-> token]
<1>1. entry' = [entry EXCEPT ![e] = r2] /\ entry[e] = Unborn /\ ~vaultEntryNameExistsInScope(e, l)
  BY DEF Create, Live
<1>2. /\ sealing \in [Fields -> Keys \cup {Empty, Plain}] /\ \A f \in Fields : sealing[f] = env.cur
      /\ token \in Tokens /\ env.cur \in Keys
  BY RingTypes, TokenTypes
<1> HIDE DEF sealing, token
<1>3. /\ r2 \in LiveRows /\ r2.value = env.cur /\ r2.seal = sealing /\ r2.label = l
      /\ r2.urlIdx = env.cur
  BY <1>2 DEF LiveRows
<1> HIDE DEF r2
<1>4. Rewritten(entry[e], r2)
  BY <1>1, <1>2, <1>3, Distinct, FieldNames DEF Rewritten, UrlCurrent
<1> QED BY <1>1, <1>3, <1>4, OneRow

LEMMA UpdateMetadataRow ==
    ASSUME TypeOK, NEW e \in Entries, UpdateMetadata(e)
    PROVE  Rewriting(entry')
<1> DEFINE r == entry[e]
           sealing == [r.seal EXCEPT !["url"] = env.cur, !["notes"] = env.cur]
           r2 == [r EXCEPT !.seal = sealing, !.urlIdx = env.cur]
<1>0. /\ e \in Live /\ r # Unborn /\ r \in LiveRows
      /\ Readable(r.seal["url"]) /\ Readable(r.seal["notes"])
  BY RowTypes DEF UpdateMetadata, Live, anyMetaColumnUndecryptable
<1>1. r.seal \in [Fields -> Keys \cup {Empty, Plain}] /\ env.cur \in Keys
  BY <1>0, RingTypes DEF LiveRows
<1>2. entry' = [entry EXCEPT ![e].seal["url"] = env.cur, ![e].seal["notes"] = env.cur,
                             ![e].urlIdx = env.cur]
  BY DEF UpdateMetadata, encryptColumn
<1>3. entry' = [entry EXCEPT ![e] = r2]
  BY <1>0, <1>1, <1>2 DEF TypeOK, LiveRows
<1>4. /\ sealing \in [Fields -> Keys \cup {Empty, Plain}]
      /\ sealing["url"] = env.cur /\ sealing["notes"] = env.cur
      /\ \A f \in Fields \ {"url", "notes"} : sealing[f] = r.seal[f]
  BY <1>1, FieldNames
<1> HIDE DEF sealing
<1>5. /\ r2 \in LiveRows /\ r2.value = r.value /\ r2.seal = sealing /\ r2.label = r.label
      /\ r2.urlIdx = env.cur
  BY <1>0, <1>1, <1>4 DEF LiveRows
<1> HIDE DEF r2
<1>6. Rewritten(r, r2)
  BY <1>0, <1>1, <1>4, <1>5, Distinct DEF Rewritten, UrlCurrent
<1> QED BY <1>0, <1>3, <1>5, <1>6, OneRow

LEMMA UpdateNameRow ==
    ASSUME TypeOK, NEW e \in Entries, NEW l \in Labels, UpdateVaultEntryName(e, l)
    PROVE  Rewriting(entry')
<1> DEFINE r == entry[e]
           sealing == [r.seal EXCEPT !["name"] = env.cur]
           token == scopedNameBlindIndex(l)
           r2 == [r EXCEPT !.seal = sealing, !.label = l, !.nameIdx = token]
<1>0. /\ e \in Live /\ r # Unborn /\ r \in LiveRows /\ ~vaultEntryNameExistsInScope(e, l)
  BY RowTypes DEF UpdateVaultEntryName, Live
<1>1. /\ r.seal \in [Fields -> Keys \cup {Empty, Plain}] /\ env.cur \in Keys /\ token \in Tokens
  BY <1>0, RingTypes, TokenTypes DEF LiveRows
<1>2. entry' = [entry EXCEPT ![e].seal["name"] = env.cur, ![e].label = l, ![e].nameIdx = token]
  BY DEF UpdateVaultEntryName, encryptColumn
<1> HIDE DEF token
<1>3. entry' = [entry EXCEPT ![e] = r2]
  BY <1>0, <1>1, <1>2 DEF TypeOK, LiveRows
<1>4. /\ sealing \in [Fields -> Keys \cup {Empty, Plain}] /\ sealing["name"] = env.cur
      /\ \A f \in Fields \ {"name"} : sealing[f] = r.seal[f]
  BY <1>1, FieldNames
<1> HIDE DEF sealing
<1>5. /\ r2 \in LiveRows /\ r2.value = r.value /\ r2.seal = sealing /\ r2.label = l
      /\ r2.urlIdx = r.urlIdx
  BY <1>0, <1>1, <1>4 DEF LiveRows
<1> HIDE DEF r2
<1>6. Rewritten(r, r2)
  BY <1>0, <1>1, <1>4, <1>5, FieldNames DEF Rewritten, UrlCurrent
<1> QED BY <1>0, <1>3, <1>5, <1>6, OneRow

LEMMA UpdateValueRow ==
    ASSUME TypeOK, NEW e \in Entries, UpdateVaultEntryValue(e)
    PROVE  Rewriting(entry')
<1> DEFINE r == entry[e]
           r2 == [r EXCEPT !.value = env.cur, !.old = FALSE]
<1>0. e \in Live /\ r # Unborn /\ r \in LiveRows /\ env.cur \in Keys
  BY RowTypes, RingTypes DEF UpdateVaultEntryValue, Live
<1>1. entry' = [entry EXCEPT ![e] = r2]
  BY <1>0 DEF UpdateVaultEntryValue, TypeOK, LiveRows
<1>2. /\ r2 \in LiveRows /\ r2.value = env.cur /\ r2.seal = r.seal /\ r2.label = r.label
      /\ r2.urlIdx = r.urlIdx
  BY <1>0 DEF LiveRows
<1> HIDE DEF r2
<1>3. Rewritten(r, r2)
  BY <1>0, <1>2, RowForm DEF Rewritten, UrlCurrent
<1> QED BY <1>0, <1>1, <1>2, <1>3, OneRow

(* Every step rewrites rows, one name at most. *)
LEMMA NextRewrites == ASSUME TypeOK, todo \subseteq Live, Next PROVE Rewriting(entry')
<1>1. CASE UNCHANGED entry
  BY <1>1, NothingRewritten
<1>2. CASE Reconfigure \/ Crash
  <2> UNCHANGED entry
    BY <1>2 DEF Reconfigure, Configure, Crash
  <2> QED BY NothingRewritten
<1>3. CASE EnforceVaultKey \/ MigrateTOTPSecrets \/ BackfillEnds \/ SkipRekey \/ RekeyStatus
  <2> UNCHANGED entry
    BY <1>3 DEF EnforceVaultKey, PassGate, MigrateTOTPSecrets, BackfillEnds, SkipRekey, RekeyStatus
  <2> QED BY NothingRewritten
<1>4. CASE MigrateEncryption
  BY <1>4, V1Migration
<1>5. ASSUME NEW e \in Entries, BackfillMetadataEncryption(e) PROVE Rewriting(entry')
  <2> DEFINE k == encryptColumnIfNeeded(entry[e].seal["conf"])
  <2>1. e \in Live /\ entry' = [entry EXCEPT ![e].seal["conf"] = k]
    BY <1>5 DEF BackfillMetadataEncryption
  <2>2. k = env.cur \/ k = entry[e].seal["conf"]
    BY DEF encryptColumnIfNeeded
  <2> HIDE DEF k
  <2> QED BY <2>1, <2>2, ConfBackfill
<1>6. ASSUME NEW e \in Entries, BackfillMetadataAtRest(e) PROVE Rewriting(entry')
  BY <1>6, RestBackfill DEF BackfillMetadataAtRest
<1>7. ASSUME RekeyVault PROVE Rewriting(entry')
  <2>1. PICK W \in SUBSET Live : entry' = scanVaultEntries(W)
    BY <1>7 DEF RekeyVault, applyPlan
  <2> QED BY <2>1, Scan
<1>8. CASE RekeyOnBoot \/ VaultKeyRekey
  BY <1>1, <1>7, <1>8 DEF RekeyOnBoot, VaultKeyRekey
<1>9. CASE Write
  <2>1. ASSUME NEW e \in Entries, NEW l \in Labels, Create(e, l) \/ UpdateVaultEntryName(e, l)
        PROVE  Rewriting(entry')
    BY <2>1, CreateRow, UpdateNameRow
  <2>2. ASSUME NEW e \in Entries, UpdateMetadata(e) \/ UpdateVaultEntryValue(e)
        PROVE  Rewriting(entry')
    BY <2>2, UpdateMetadataRow, UpdateValueRow
  <2>3. ASSUME NEW e \in Entries, SetProviderMeta(e) PROVE Rewriting(entry')
    <3>1. e \in Live /\ entry' = [entry EXCEPT ![e].seal["conf"] = env.cur]
      BY <2>3 DEF SetProviderMeta, encryptColumn
    <3> QED BY <3>1, ConfBackfill
  <2>4. ASSUME NEW c \in Cells, SaveSealed(c) PROVE Rewriting(entry')
    BY <1>1, <2>4 DEF SaveSealed
  <2>5. CASE loadOrCreateAuditDEK
    BY <1>1, <2>5 DEF loadOrCreateAuditDEK
  <2> QED BY <1>9, <2>1, <2>2, <2>3, <2>4, <2>5 DEF Write
<1> QED BY <1>2, <1>3, <1>4, <1>5, <1>6, <1>8, <1>9 DEF Next, Boot

-----------------------------------------------------------------------------
(* What a step does to the other sealed values. *)

SealedUnder(k) == [seal |-> k, old |-> FALSE]

CellWriting(new) ==
    /\ new \in [Cells -> CellRows]
    /\ \A c \in Cells : \/ new[c].seal = env.cur
                        \/ new[c].seal = cell[c].seal
                        \/ cell[c].seal \notin Ring \cup {Empty, Plain}

LEMMA SealedRows == \A k \in Keys \cup {Nested} : SealedUnder(k) \in CellRows /\ SealedUnder(k).seal = k
  BY DEF SealedUnder, CellRows

LEMMA CellTypes == TypeOK => \A c \in Cells : cell[c] \in CellRows
  BY DEF TypeOK

LEMMA NoCellWritten == ASSUME TypeOK, UNCHANGED cell PROVE CellWriting(cell')
  BY DEF TypeOK, CellWriting

LEMMA OneCell ==
    ASSUME TypeOK, NEW c \in Cells, NEW new \in CellRows, cell' = [cell EXCEPT ![c] = new],
           new.seal = env.cur \/ new.seal = cell[c].seal \/ cell[c].seal \notin Ring \cup {Empty, Plain}
    PROVE  CellWriting(cell')
  BY DEF TypeOK, CellWriting

LEMMA SeedMigration == ASSUME TypeOK, MigrateTOTPSecrets PROVE CellWriting(cell')
<1> DEFINE row == cell["totp"]
           new == MigratedSeed(row)
<1>1. "totp" \in Cells /\ cell' = [cell EXCEPT !["totp"] = new]
  BY DEF MigrateTOTPSecrets, Cells
<1>2. row \in CellRows
  BY <1>1, CellTypes
<1>3. \/ new = row \/ new = SealedUnder(env.cur)
      \/ new = SealedUnder(Nested) /\ row.seal \notin Ring \cup {Empty, Plain}
  BY DEF MigratedSeed, SealedUnder, Opens
<1>4. env.cur \in Keys
  BY RingTypes
<1> HIDE DEF new
<1>5. new \in CellRows
  BY <1>2, <1>3, <1>4, SealedRows
<1>6. new.seal = env.cur \/ new.seal = row.seal \/ row.seal \notin Ring \cup {Empty, Plain}
  BY <1>3, <1>4, SealedRows
<1> HIDE DEF row
<1> QED BY <1>1, <1>5, <1>6, OneCell DEF row

LEMMA Plan ==
    ASSUME TypeOK, NEW W, applyPlan(W), ~ValuesUnreadable
    PROVE  /\ CellWriting(cell')
           /\ \A c \in Cells : cell'[c].seal \in {env.cur, Empty, Plain, Nested}
<1>1. ASSUME NEW c \in Cells
      PROVE  /\ cell'[c] \in CellRows /\ cell'[c].seal \in {env.cur, cell[c].seal}
             /\ cell'[c].seal \in {env.cur, Empty, Plain, Nested}
  <2> DEFINE row == cell[c]
  <2>1. row \in CellRows /\ row.seal \in Keys \cup {Empty, Plain, Nested} /\ env.cur \in Keys
    BY CellTypes, RingTypes DEF CellRows
  <2>2. keyAge(row.seal) # "unknown"
    BY InStored DEF ValuesUnreadable
  <2>3. row.seal \in {env.cur, Empty, Plain, Nested} \/ keyAge(row.seal) = "previous"
    BY <2>1, <2>2, Distinct DEF keyAge
  <2>4. cell'[c] = IF c = "channel" THEN ConvertedChannel(row) ELSE ConvertedRow(row)
    BY DEF applyPlan
  <2>5. \/ cell'[c] = SealedUnder(env.cur)
        \/ cell'[c] = row /\ row.seal \in {env.cur, Empty, Plain, Nested}
    BY <2>1, <2>3, <2>4, Distinct DEF ConvertedChannel, ConvertedRow, SealedUnder
  <2> QED BY <2>1, <2>5, SealedRows
<1>2. cell' \in [Cells -> CellRows]
  BY <1>1 DEF applyPlan
<1> QED BY <1>1, <1>2 DEF CellWriting

LEMMA NextSeals == ASSUME TypeOK, Next PROVE CellWriting(cell')
<1>0. /\ env.cur \in Keys /\ SealedUnder(env.cur) \in CellRows /\ SealedUnder(env.cur).seal = env.cur
      /\ "dek" \in Cells
  BY RingTypes, SealedRows DEF Cells
<1>1. CASE UNCHANGED cell
  BY <1>1, NoCellWritten
<1>2. CASE Reconfigure \/ Crash
  <2> UNCHANGED cell
    BY <1>2 DEF Reconfigure, Configure, Crash
  <2> QED BY NoCellWritten
<1>3. CASE EnforceVaultKey \/ MigrateEncryption \/ BackfillEnds \/ SkipRekey \/ RekeyStatus
  <2> UNCHANGED cell
    BY <1>3 DEF EnforceVaultKey, PassGate, MigrateEncryption, BackfillEnds, SkipRekey, RekeyStatus
  <2> QED BY NoCellWritten
<1>4. ASSUME NEW e \in Entries, BackfillMetadataEncryption(e) \/ BackfillMetadataAtRest(e)
      PROVE  CellWriting(cell')
  <2> UNCHANGED cell
    BY <1>4 DEF BackfillMetadataEncryption, BackfillMetadataAtRest
  <2> QED BY NoCellWritten
<1>5. CASE MigrateTOTPSecrets
  BY <1>5, SeedMigration
<1>6. ASSUME RekeyVault PROVE CellWriting(cell')
  BY <1>6, Plan DEF RekeyVault
<1>7. CASE RekeyOnBoot \/ VaultKeyRekey
  BY <1>1, <1>6, <1>7 DEF RekeyOnBoot, VaultKeyRekey
<1>8. CASE Write
  <2>1. ASSUME NEW e \in Entries, NEW l \in Labels, Create(e, l) \/ UpdateVaultEntryName(e, l)
        PROVE  UNCHANGED cell
    BY <2>1 DEF Create, UpdateVaultEntryName
  <2>2. ASSUME NEW e \in Entries, UpdateMetadata(e) \/ UpdateVaultEntryValue(e) \/ SetProviderMeta(e)
        PROVE  UNCHANGED cell
    BY <2>2 DEF UpdateMetadata, UpdateVaultEntryValue, SetProviderMeta
  <2>3. ASSUME NEW c \in Cells, cell' = [cell EXCEPT ![c] = SealedUnder(env.cur)]
        PROVE  CellWriting(cell')
    BY <1>0, <2>3, OneCell
  <2>4. ASSUME NEW c \in Cells, SaveSealed(c) PROVE CellWriting(cell')
    BY <2>3, <2>4 DEF SaveSealed, SealedUnder
  <2>5. CASE loadOrCreateAuditDEK
    BY <1>0, <2>3, <2>5 DEF loadOrCreateAuditDEK, SealedUnder
  <2> QED BY <1>1, <1>8, <2>1, <2>2, <2>4, <2>5 DEF Write
<1> QED BY <1>2, <1>3, <1>4, <1>5, <1>7, <1>8 DEF Next, Boot

-----------------------------------------------------------------------------
(* Types and names, whatever the operator does. *)

Shape == TypeOK /\ OwnNames /\ todo \subseteq Live

(* A step that rewrites rows keeps them live and leaves ids as names to the  *)
(* entries they are the ids of.                                              *)
LEMMA LiveGrows == ASSUME TypeOK, Rewriting(entry') PROVE Live \subseteq Live'
  BY RowForm DEF Rewriting, Rewritten, Live

LEMMA NamesStayOwn == ASSUME TypeOK, OwnNames, Rewriting(entry') PROVE OwnNames'
<1> SUFFICES ASSUME NEW e \in Entries, entry'[e] # Unborn
             PROVE  entry'[e].label \in Labels \cup {e}
  BY DEF OwnNames
<1> QED BY DEF Rewriting, Named, OwnNames

(* The settings that are not sealed values. *)
Settings ==
    /\ sentinel \in Keys \cup {NoKey}
    /\ env \in Rings /\ good \in Rings
    /\ pc \in {"down", "totp", "v1", "conf", "rest", "rekey", "serving"}
    /\ todo \subseteq Live
    /\ advice \in BOOLEAN /\ forfeit \in BOOLEAN
    /\ used \subseteq Keys
    /\ writes \in 0..MaxWrites

LEMMA ServingSettings == ASSUME Settings, Live \subseteq Live', Serving PROVE Settings'
<1>1. UNCHANGED <<sentinel, env, pc, todo, advice, good, used, forfeit>>
  BY DEF Serving, history
<1>2. writes' \in 0..MaxWrites
  BY RekeyAssumption DEF Serving, Settings
<1> QED BY <1>1, <1>2 DEF Settings

LEMMA SweepSettings ==
    ASSUME Settings, TypeOK, Live \subseteq Live', RekeyVault, pc' \in {"serving", pc}
    PROVE  Settings'
<1>1. /\ sentinel' = env.cur /\ advice' = Rotating
      /\ UNCHANGED <<env, todo, writes, good, used, forfeit>>
  BY DEF RekeyVault, ResealVaultKeycheck, history
<1>2. sentinel' \in Keys \cup {NoKey} /\ advice' \in BOOLEAN
  BY <1>1, RingTypes DEF Rotating
<1> QED BY <1>1, <1>2 DEF Settings

LEMMA GateSettings ==
    ASSUME Settings, TypeOK, Live \subseteq Live', EnforceVaultKey
    PROVE  Settings'
<1>1. /\ good' = env /\ used' = used \cup Ring /\ pc' = "totp" /\ UNCHANGED <<env, todo, writes>>
      /\ sentinel' = SealedSentinel \/ sentinel' = env.cur \/ sentinel' = sentinel
      /\ forfeit' = forfeit \/ forfeit' = TRUE
      /\ advice' = advice \/ advice' = (Rotating /\ ~SentinelOnPreviousKey)
  BY DEF EnforceVaultKey, PassGate
<1>2. sentinel' \in Keys \cup {NoKey}
  BY <1>1, RingTypes DEF SealedSentinel, Settings
<1>3. advice' \in BOOLEAN /\ used' \subseteq Keys
  BY <1>1, RingTypes DEF Settings, Rotating
<1> QED BY <1>1, <1>2, <1>3 DEF Settings

LEMMA NextSettings == ASSUME Settings, TypeOK, Live \subseteq Live', Next PROVE Settings'
<1>1. CASE Reconfigure
  <2>1. PICK ring \in Rings : Configure(ring)
    BY <1>1, RingTypes, RekeyAssumption DEF Reconfigure, TypeOK, Rings
  <2> QED BY <2>1 DEF Configure, history, Settings
<1>2. CASE Crash
  BY <1>2 DEF Crash, history, Settings
<1>3. CASE EnforceVaultKey
  BY <1>3, GateSettings
<1>4. CASE MigrateTOTPSecrets
  BY <1>4 DEF MigrateTOTPSecrets, history, Settings
<1>5. CASE MigrateEncryption
  <2>1. /\ UNCHANGED <<sentinel, env, writes, good, used, forfeit>>
        /\ \/ pc' = "conf" /\ todo' = Live /\ advice' = advice
           \/ pc' = "down" /\ advice' = FALSE /\ todo' = todo
    BY <1>5 DEF MigrateEncryption, history
  <2> QED BY <2>1 DEF Settings
<1>6. ASSUME NEW e \in Entries, BackfillMetadataEncryption(e) \/ BackfillMetadataAtRest(e)
      PROVE  Settings'
  <2>1. /\ todo' = todo \ {e}
        /\ UNCHANGED <<sentinel, env, pc, advice, writes, good, used, forfeit>>
    BY <1>6 DEF BackfillMetadataEncryption, BackfillMetadataAtRest, history
  <2> QED BY <2>1 DEF Settings
<1>7. CASE BackfillEnds
  BY <1>7 DEF BackfillEnds, NextPhase, history, Settings
<1>8. CASE RekeyOnBoot \/ VaultKeyRekey
  <2>1. CASE RekeyVault /\ pc' \in {"serving", pc}
    BY <2>1, SweepSettings
  <2>2. CASE /\ pc' = "down" /\ advice' = FALSE
             /\ UNCHANGED <<entry, cell, sentinel, env, todo, writes, history>>
    BY <2>2 DEF history, Settings
  <2> QED BY <1>8, <2>1, <2>2 DEF RekeyOnBoot, VaultKeyRekey
<1>9. CASE SkipRekey \/ RekeyStatus
  BY <1>9 DEF SkipRekey, RekeyStatus, history, Settings
<1>10. CASE Write
  <2>1. Serving
    BY <1>10 DEF Write, Create, UpdateMetadata, UpdateVaultEntryName, UpdateVaultEntryValue,
              SetProviderMeta, SaveSealed, loadOrCreateAuditDEK
  <2> QED BY <2>1, ServingSettings
<1> QED BY <1>1, <1>2, <1>3, <1>4, <1>5, <1>6, <1>7, <1>8, <1>9, <1>10 DEF Next, Boot

LEMMA InitShape == Init => Shape
<1> SUFFICES ASSUME Init PROVE Shape
  OBVIOUS
<1>1. PICK s \in Stores : entry = s.entry /\ cell = s.cell
  BY DEF Init
<1>2. s \in [entry : [Entries -> Rows], cell : [Cells -> CellRows]]
  BY RekeyAssumption
<1>3. entry \in [Entries -> Rows] /\ cell \in [Cells -> CellRows]
  BY <1>1, <1>2
<1>4. OwnNames
  BY <1>1, RekeyAssumption DEF OwnNames
<1>5. env \in Rings /\ FirstKey \in Keys /\ 0 \in 0..MaxWrites
  BY RekeyAssumption DEF Init, Rings
<1> QED BY <1>3, <1>4, <1>5 DEF Init, Shape, TypeOK

LEMMA ShapeStep == ASSUME Shape, [Next]_vars PROVE Shape'
<1>1. CASE Next
  <2>1. TypeOK /\ OwnNames /\ todo \subseteq Live /\ Settings
    BY DEF Shape, TypeOK, Settings
  <2>2. Rewriting(entry') /\ CellWriting(cell')
    BY <1>1, <2>1, NextRewrites, NextSeals
  <2>3. Live \subseteq Live' /\ OwnNames'
    BY <2>1, <2>2, LiveGrows, NamesStayOwn
  <2>4. Settings'
    BY <1>1, <2>1, <2>3, NextSettings
  <2>5. Live' \subseteq Entries
    BY DEF Live
  <2>6. TypeOK'
    BY <2>2, <2>4, <2>5 DEF TypeOK, Settings, Rewriting, CellWriting
  <2> QED BY <2>3, <2>4, <2>6 DEF Shape, Settings
<1>2. CASE UNCHANGED vars
  BY <1>2 DEF vars, history, store, Shape, TypeOK, OwnNames, Live
<1> QED BY <1>1, <1>2

LEMMA ShapeAlways == Spec => []Shape
<1>1. Init => Shape
  BY InitShape
<1>2. Shape /\ [Next]_vars => Shape'
  BY ShapeStep
<1> QED BY <1>1, <1>2, PTL DEF Spec

(* Every variable keeps to the column or the setting it models, whatever the *)
(* operator configures: a row stays one that the sweep can read, since the   *)
(* backfills only ever come to rows that exist.                              *)
THEOREM TypeCorrect == Spec => []TypeOK
<1>1. Shape => TypeOK
  BY DEF Shape
<1> QED BY <1>1, ShapeAlways, PTL

(* Whatever keys are configured, rotated, mistyped or removed and wherever a *)
(* boot stops, a url or a note that no configured key opens keeps its        *)
(* ciphertext in every step: saves refuse, backfills skip, the sweep leaves. *)
THEOREM CiphertextIsKept == Spec => UnreadableIsKept
<1>1. ASSUME Shape, [Next]_vars
      PROVE  [\A e \in Live : \A f \in {"url", "notes"} :
                ~Readable(entry[e].seal[f]) => entry'[e].seal[f] = entry[e].seal[f]]_vars
  <2>1. CASE Next
    <3>1. Rewriting(entry')
      BY <1>1, <2>1, NextRewrites DEF Shape
    <3>2. ASSUME NEW e \in Live, NEW f \in {"url", "notes"}, ~Readable(entry[e].seal[f])
          PROVE  entry'[e].seal[f] = entry[e].seal[f]
      BY <3>1, <3>2 DEF Rewriting, Rewritten, Live
    <3> QED BY <3>2
  <2> QED BY <1>1, <2>1
<1> QED BY <1>1, ShapeAlways, PTL DEF Spec, UnreadableIsKept

(* No backfill, save, creation or sweep gives an entry a name another entry  *)
(* of its scope has, although the unique index compares tokens computed      *)
(* under two keys: the decrypting check finds what the tokens cannot, and    *)
(* the name a backfill makes up is an id no other entry can have.            *)
THEOREM NamesNeverCollide == Spec => NamesStayDistinct
<1>1. ASSUME Shape, [Next]_vars
      PROVE  [\A d, e \in Entries : Twins(d, e)' => Twins(d, e)]_vars
  <2>1. CASE Next
    <3>1. Rewriting(entry') /\ OwnNames /\ OwnNames'
      BY <1>1, <2>1, NextRewrites, ShapeStep DEF Shape
    <3>2. ASSUME NEW d \in Entries, NEW e \in Entries, Twins(d, e)' PROVE Twins(d, e)
      <4>0. /\ d # e /\ SameScope(d, e) /\ SameScope(e, d) /\ entry'[d].label = entry'[e].label
            /\ entry'[d] # Unborn /\ entry'[e] # Unborn
        BY <3>2 DEF Twins, SameScope, Live
      <4>1. entry'[d].label # d /\ entry'[e].label # e
        BY <3>1, <4>0, RekeyAssumption DEF OwnNames
      <4>2. \/ entry'[d] = entry[d] \/ (entry[d] # Unborn /\ entry'[d].label = entry[d].label)
            \/ /\ ~vaultEntryNameExistsInScope(d, entry'[d].label) /\ entry'[e] = entry[e]
        BY <3>1, <4>0, <4>1 DEF Rewriting, Named
      <4>3. \/ entry'[e] = entry[e] \/ (entry[e] # Unborn /\ entry'[e].label = entry[e].label)
            \/ /\ ~vaultEntryNameExistsInScope(e, entry'[e].label) /\ entry'[d] = entry[d]
        BY <3>1, <4>0, <4>1 DEF Rewriting, Named
      <4>4. entry[d] # Unborn /\ entry'[d].label = entry[d].label
        BY <4>0, <4>2 DEF vaultEntryNameExistsInScope, Live, SameScope
      <4>5. entry[e] # Unborn /\ entry'[e].label = entry[e].label
        BY <4>0, <4>3 DEF vaultEntryNameExistsInScope, Live, SameScope
      <4> QED BY <4>0, <4>4, <4>5 DEF Twins, Live
    <3> QED BY <3>2
  <2> QED BY <1>1, <2>1
<1> QED BY <1>1, ShapeAlways, PTL DEF Spec, NamesStayDistinct

-----------------------------------------------------------------------------
(* Where the values are sealed, once the database has been upgraded and is   *)
(* only then given a new key.                                                *)

(* A write of a running process. *)
LEMMA WriteStep ==
    ASSUME Inv, TypeOK', Rewriting(entry'), CellWriting(cell'), pc # "down", pc' # "down",
           UNCHANGED <<sentinel, env, good, used, forfeit, advice>>
    PROVE  Inv'
<1>0. TypeOK /\ env = good /\ (sentinel = NoKey => forfeit) /\ Ringed
  BY DEF Inv, Booted
<1>1. Booted' /\ Plausible' /\ Ringed'
  BY <1>0 DEF Booted, Plausible, Ringed
<1>2. ASSUME ~forfeit PROVE Sound'
  <2>0. Sound
    BY <1>2 DEF Inv
  <2>1. ASSUME NEW S, env.cur \in S, AllIn(S), S \subseteq Ring PROVE AllIn(S)'
    <3>1. ASSUME NEW e \in Entries PROVE RowIn(entry'[e], S)
      BY <2>1 DEF Rewriting, Rewritten, RowIn, AllIn
    <3>2. ASSUME NEW c \in Cells PROVE cell'[c].seal \in S \cup {Empty, Plain}
      BY <2>1 DEF CellWriting, AllIn
    <3>3. sentinel' \in S \cup {NoKey}
      BY <2>1 DEF AllIn
    <3> QED BY <3>1, <3>2, <3>3 DEF AllIn
  <2>2. Ring = {good.cur, good.prev} \ {NoKey} /\ env.cur = good.cur /\ env.cur \in Ring
    BY <1>0, RingTypes, Distinct DEF Ring
  <2>4. Swept'
    <3> SUFFICES ASSUME sentinel = good.cur
                 PROVE  /\ AllIn({good.cur})'
                        /\ good.prev # NoKey => \A e \in Entries : UrlCurrent(entry'[e], good.cur)
      BY DEF Swept
    <3>2. AllIn({good.cur})'
      BY <2>0, <2>1, <2>2 DEF Sound, Swept
    <3>3. ASSUME good.prev # NoKey, NEW e \in Entries PROVE UrlCurrent(entry'[e], good.cur)
      BY <1>0, <3>3, <2>0 DEF Sound, Swept, Rewriting, Rewritten
    <3> QED BY <3>2, <3>3
  <2>5. Fresh' /\ Advised'
    BY <1>0, <1>2, <2>0 DEF Fresh, Sound, Advised
  <2>6. AllIn({good.cur, good.prev} \ {NoKey})'
    BY <2>1, <2>2, <2>0 DEF Sound
  <2> QED BY <2>4, <2>5, <2>6 DEF Sound
<1> QED BY <1>1, <1>2 DEF Inv

(* The sweep. *)
LEMMA SweepStep ==
    ASSUME Inv, TypeOK', RekeyVault, pc # "down", pc' # "down"
    PROVE  Inv'
<1>0. TypeOK /\ env = good /\ Ringed /\ env.cur \in Keys
  BY RingTypes DEF Inv, Booted
<1>1. /\ sentinel' = env.cur /\ advice' = Rotating /\ ~ValuesUnreadable
      /\ UNCHANGED <<env, todo, writes, good, used, forfeit>>
  BY DEF RekeyVault, ResealVaultKeycheck, history
<1>2. PICK W \in SUBSET Live : applyPlan(W)
  BY DEF RekeyVault
<1>3. Booted' /\ Plausible' /\ Ringed'
  BY <1>0, <1>1, Distinct DEF Booted, Plausible, Ringed
<1>4. ASSUME ~forfeit PROVE Sound'
  <2>0. AllIn({good.cur, good.prev} \ {NoKey})
    BY <1>4 DEF Inv, Sound
  <2>1. entry' = scanVaultEntries(W)
    BY <1>2 DEF applyPlan
  <2>2. ASSUME NEW e \in Entries
        PROVE  RowIn(entry'[e], {env.cur}) /\ UrlCurrent(entry'[e], env.cur)
    <3>1. CASE e \in Live
      <4>1. /\ UrlCurrent(entry'[e], env.cur)
            /\ entry'[e].value = Converted(entry[e].value)
            /\ \A f \in Fields : entry'[e].seal[f] = Converted(entry[e].seal[f])
        BY <1>0, <2>1, <3>1, Scan
      <4>2. /\ entry[e].value \in {env.cur, env.prev} \cap Keys
            /\ \A f \in Fields : entry[e].seal[f] \in ({env.cur, env.prev} \cap Keys) \cup {Empty, Plain}
        BY <1>0, <2>0, <3>1, RingTypes DEF AllIn, RowIn, Live
      <4>3. \A s \in ({env.cur, env.prev} \cap Keys) \cup {Empty, Plain} :
               Converted(s) \in {env.cur} \cup ({Empty, Plain} \cap {s})
        BY <1>0, ConvertedSeal
      <4>4. entry'[e].value = env.cur
        BY <4>1, <4>2, <4>3, Distinct
      <4>5. \A f \in Fields : entry'[e].seal[f] \in {env.cur, Empty, Plain}
        BY <4>1, <4>2, <4>3
      <4> QED BY <4>1, <4>4, <4>5 DEF RowIn
    <3>2. CASE e \notin Live
      <4>1. entry'[e] = Unborn
        BY <1>0, <2>1, <3>2, Scan
      <4> QED BY <4>1 DEF RowIn, UrlCurrent
    <3> QED BY <3>1, <3>2
  <2>3. ASSUME NEW c \in Cells PROVE cell'[c].seal \in {env.cur, Empty, Plain}
    <3>1. CellWriting(cell') /\ cell'[c].seal \in {env.cur, Empty, Plain, Nested}
      BY <1>0, <1>1, <1>2, Plan
    <3>2. cell[c].seal \in Ring \cup {Empty, Plain}
      BY <1>0, <2>0 DEF AllIn, Ring
    <3>3. Nested \notin Ring \cup {Empty, Plain, env.cur}
      BY <1>0, RingTypes, Distinct
    <3> QED BY <3>1, <3>2, <3>3 DEF CellWriting
  <2>4. AllIn({good.cur})'
    BY <1>0, <1>1, <2>2, <2>3 DEF AllIn
  <2>5. AllIn({good.cur, good.prev} \ {NoKey})'
    <3>2. good.cur \in {good.cur, good.prev} \ {NoKey} /\ UNCHANGED good
      BY <1>0, <1>1, Distinct
    <3>3. \A e \in Entries : RowIn(entry'[e], {good.cur, good.prev} \ {NoKey})
      BY <1>0, <2>2, <3>2 DEF RowIn
    <3> QED BY <1>0, <1>1, <2>3, <3>2, <3>3 DEF AllIn
  <2>6. Swept' /\ Fresh' /\ Advised'
    BY <1>0, <1>1, <2>2, <2>4, Distinct DEF Swept, Fresh, Advised, Rotating
  <2> QED BY <2>5, <2>6 DEF Sound
<1> QED BY <1>1, <1>3, <1>4 DEF Inv

LEMMA StatusStep == ASSUME Inv, RekeyStatus PROVE Inv'
<1>0. TypeOK /\ pc = "serving" /\ env = good /\ (forfeit \/ sentinel \in Keys \ {NoKey})
  BY DEF Inv, Booted, RekeyStatus, TypeOK
<1>1. /\ UNCHANGED <<entry, cell, sentinel, env, pc, todo, writes, good, used, forfeit>>
      /\ advice' = TRUE /\ Rotating /\ ~ValuesUnreadable /\ ~ValuesOnPrevious
  BY DEF RekeyStatus, history
<1>2. sentinel # NoKey => keyAge(sentinel) \notin {"unknown", "previous"}
  BY <1>0, <1>1, InStored DEF ValuesUnreadable, ValuesOnPrevious
<1>3. forfeit \/ (sentinel = good.cur /\ good.prev # NoKey)
  BY <1>0, <1>1, <1>2, Distinct DEF keyAge, Rotating
<1>4. /\ pc # "down" /\ todo' \subseteq Entries
      /\ pc' \in {"totp", "v1", "conf", "rest", "rekey", "serving"}
  BY <1>0, <1>1 DEF TypeOK
<1> QED BY <1>1, <1>3, <1>4, StopsOrPasses

(* The gate: the four configurations a boot may meet. *)
LEMMA GateStep == ASSUME Inv, TypeOK', EnforceVaultKey PROVE Inv'
<1>0. TypeOK /\ pc = "down" /\ Ringed /\ Plausible /\ ~advice /\ env.cur \in Keys
  BY RingTypes DEF Inv, Booted, EnforceVaultKey
<1>1. /\ good' = env /\ used' = used \cup Ring /\ pc' = "totp"
      /\ UNCHANGED <<entry, cell, env, todo, writes>>
  BY DEF EnforceVaultKey, PassGate
<1>2. env.prev # env.cur
  BY <1>0, Distinct DEF Plausible, Ringed
<1>3. Booted' /\ Plausible' /\ Ringed'
  <2>1. /\ sentinel' \in {SealedSentinel, env.cur} \/ (sentinel' = sentinel /\ forfeit')
        /\ SealedSentinel # NoKey
    BY <1>0, Distinct DEF EnforceVaultKey, SealedSentinel
  <2>2. /\ env.cur \in used' /\ env.prev \in used' \cup {NoKey}
        /\ sentinel' \in used' \cup {NoKey}
    BY <1>0, <1>1, <2>1, Distinct DEF Ring, SealedSentinel, Ringed
  <2>3. sentinel' = NoKey => forfeit'
    BY <1>0, <2>1, Distinct
  <2> QED BY <1>0, <1>1, <1>2, <2>2, <2>3 DEF Booted, Plausible, Ringed
<1>4. ASSUME ~forfeit' PROVE Sound'
  <2>0. /\ VerifyVaultKey /\ sentinel' = SealedSentinel /\ UNCHANGED forfeit
        /\ advice' = (Rotating /\ ~SentinelOnPreviousKey)
    BY <1>4 DEF EnforceVaultKey
  <2>1. Sound
    BY <1>4, <2>0 DEF Inv
  <2>2. ASSUME NEW S, NEW T, AllIn(S), S \subseteq T, sentinel' \in T PROVE AllIn(T)'
    <3>1. \A e \in Entries : RowIn(entry[e], T)
      BY <2>2 DEF AllIn, RowIn
    <3> QED BY <1>1, <2>2, <3>1 DEF AllIn
  <2>3. ASSUME AllIn({env.cur}), env.prev = NoKey, sentinel' = env.cur PROVE Sound'
    <3>1. AllIn({env.cur})'
      BY <1>1, <2>2, <2>3
    <3>2. {good.cur, good.prev}' \ {NoKey} = {env.cur}
      BY <1>0, <1>1, <2>3, Distinct
    <3>3. AllIn({good.cur, good.prev} \ {NoKey})' /\ AllIn({good.cur})'
      BY <1>1, <3>1, <3>2 DEF AllIn
    <3>4. Swept' /\ Fresh' /\ Advised'
      BY <1>0, <1>1, <2>0, <2>3, <3>3, Distinct DEF Swept, Fresh, Advised, Rotating
    <3> QED BY <3>3, <3>4 DEF Sound
  <2>4. CASE sentinel = NoKey
    <3>0. sentinel' = env.cur
      BY <2>0, <2>4 DEF SealedSentinel
    <3>1. /\ good.cur = FirstKey /\ good.prev = NoKey /\ used = {FirstKey}
          /\ AllIn({FirstKey}) /\ cell["dek"].seal = Empty
      BY <2>1, <2>4 DEF Sound, Fresh
    <3>2. env.prev = NoKey
      BY <1>0, <2>4, <3>1 DEF Plausible
    <3>3. CASE env.cur = FirstKey
      BY <2>3, <3>0, <3>1, <3>2, <3>3
    <3>4. CASE env.cur # FirstKey
      <4>1. Ring = {env.cur} /\ FirstKey \notin Ring /\ Empty \notin Ring /\ Plain \notin Ring
        BY <1>0, <3>2, <3>4, Distinct DEF Ring
      <4>2. ~vaultKeyOpensExistingData
        <5>1. \A e \in Live : entry[e].value = FirstKey
          BY <3>1 DEF AllIn, RowIn, Live
        <5>2. \A c \in Cells : cell[c].seal \in {FirstKey, Empty, Plain}
          BY <3>1 DEF AllIn
        <5> QED BY <4>1, <5>1, <5>2 DEF vaultKeyOpensExistingData, Opens, AnyEncryptedVaultEntry,
                                    AnyEncryptedColumnSample, Cells
      <4>3. ~HasCiphertext
        BY <2>0, <2>4, <4>2 DEF VerifyVaultKey
      <4>4. \A e \in Entries : entry[e] = Unborn
        BY <4>3 DEF HasCiphertext, AnyEncryptedVaultEntry, Live
      <4>5. \A c \in Cells : cell[c].seal \in {Empty, Plain}
        BY <3>1, <4>3 DEF HasCiphertext, AnyEncryptedColumnSample, Cells
      <4>6. AllIn({env.cur})
        BY <2>4, <4>4, <4>5 DEF AllIn, RowIn
      <4> QED BY <2>3, <3>0, <3>2, <4>6
    <3> QED BY <3>3, <3>4
  <2>5. CASE sentinel # NoKey
    <3>0. sentinel' = sentinel /\ sentinel \in {env.cur, env.prev}
      BY <2>0, <2>5 DEF SealedSentinel, VerifyVaultKey, Opens, Ring
    <3>1. advice' => sentinel = env.cur /\ env.prev # NoKey
      BY <2>0, <2>5, <3>0 DEF Rotating, SentinelOnPreviousKey, SealedSentinel
    <3>2. Fresh' /\ Advised'
      BY <1>1, <2>5, <3>0, <3>1 DEF Fresh, Advised
    <3>3. CASE env = good
      <4>1. UNCHANGED <<entry, cell, sentinel, good>>
        BY <1>1, <3>0, <3>3
      <4>2. AllIn({good.cur, good.prev} \ {NoKey})' /\ Swept'
        BY <2>1, <4>1 DEF Sound, AllIn, RowIn, Swept, UrlCurrent
      <4> QED BY <3>2, <4>2 DEF Sound
    <3>4. CASE env.cur = good.cur /\ env.prev = NoKey
      <4>1. sentinel = good.cur
        BY <2>5, <3>0, <3>4
      <4> QED BY <2>1, <2>3, <3>0, <3>4, <4>1 DEF Sound, Swept
    <3>5. CASE env.cur \notin used /\ env.prev = NoKey
      BY <1>0, <2>5, <3>0, <3>5 DEF Ringed
    <3>6. CASE env.cur \notin used /\ env.prev = good.cur
      <4>1. sentinel = good.cur /\ sentinel # env.cur /\ good.cur # NoKey
        BY <1>0, <2>5, <3>0, <3>6 DEF Ringed
      <4>2. AllIn({good.cur})
        BY <2>1, <4>1 DEF Sound, Swept
      <4>3. AllIn({env.cur, env.prev} \ {NoKey})'
        BY <1>1, <2>2, <3>0, <3>6, <4>1, <4>2
      <4>4. AllIn({good.cur, good.prev} \ {NoKey})'
        BY <1>1, <4>3 DEF AllIn
      <4>5. Swept'
        BY <1>1, <3>0, <4>1 DEF Swept
      <4> QED BY <3>2, <4>4, <4>5 DEF Sound
    <3> QED BY <1>0, <3>3, <3>4, <3>5, <3>6 DEF Plausible
  <2> QED BY <2>4, <2>5
<1> QED BY <1>3, <1>4 DEF Inv

LEMMA InitInv == Init => Inv
<1> SUFFICES ASSUME Init PROVE Inv
  OBVIOUS
<1>1. TypeOK
  BY InitShape DEF Shape
<1>2. PICK s \in Stores : entry = s.entry /\ cell = s.cell
  BY DEF Init
<1>3. /\ sentinel = NoKey /\ env = good /\ good.cur = FirstKey /\ good.prev = NoKey
      /\ pc = "down" /\ ~advice /\ used = {FirstKey}
  BY DEF Init
<1>4. AllIn({FirstKey}) /\ cell["dek"].seal = Empty
  BY <1>2, <1>3, RekeyAssumption DEF AllIn, RowIn
<1>5. {good.cur, good.prev} \ {NoKey} = {FirstKey}
  BY <1>3, RekeyAssumption
<1>6. Booted /\ Plausible /\ Ringed
  BY <1>3, RekeyAssumption DEF Booted, Plausible, Ringed
<1>7. Swept /\ Fresh /\ Advised
  BY <1>3, <1>4, RekeyAssumption DEF Swept, Fresh, Advised
<1>8. AllIn({good.cur, good.prev} \ {NoKey})
  BY <1>4, <1>5
<1> QED BY <1>1, <1>6, <1>7, <1>8 DEF Inv, Sound

LEMMA BootStep ==
    ASSUME Inv, Shape, Shape', MigrateTOTPSecrets \/ MigrateEncryption \/ BackfillEnds \/ SkipRekey
    PROVE  Inv'
<1>0. TypeOK /\ TypeOK' /\ todo \subseteq Live /\ todo' \subseteq Entries
  BY DEF Shape, TypeOK
<1>1. CASE MigrateTOTPSecrets
  <2>1. Rewriting(entry') /\ CellWriting(cell')
    BY <1>0, <1>1, NothingRewritten, SeedMigration DEF MigrateTOTPSecrets
  <2>2. pc # "down" /\ pc' # "down" /\ UNCHANGED <<sentinel, env, good, used, forfeit, advice>>
    BY <1>1 DEF MigrateTOTPSecrets, history
  <2> QED BY <1>0, <2>1, <2>2, WriteStep
<1>2. CASE MigrateEncryption
  <2>1. /\ pc # "down" /\ UNCHANGED <<cell, sentinel, env, writes, good, used, forfeit>>
        /\ \/ pc' = "conf" /\ UNCHANGED advice
           \/ pc' = "down" /\ advice' = FALSE /\ UNCHANGED entry
    BY <1>2 DEF MigrateEncryption, history
  <2>2. Rewriting(entry') /\ CellWriting(cell')
    BY <1>0, <1>2, <2>1, V1Migration, NoCellWritten
  <2>3. CASE pc' = "conf" /\ UNCHANGED advice
    BY <1>0, <2>1, <2>2, <2>3, WriteStep
  <2>4. CASE pc' = "down" /\ advice' = FALSE /\ UNCHANGED entry
    BY <1>0, <2>1, <2>4, StopsOrPasses
  <2> QED BY <2>1, <2>3, <2>4
<1>3. CASE BackfillEnds \/ SkipRekey
  <2>1. /\ pc # "down" /\ UNCHANGED <<entry, cell, sentinel, env, writes, good, used, forfeit, advice>>
        /\ pc' \in {"totp", "v1", "conf", "rest", "rekey", "serving"}
    BY <1>3 DEF BackfillEnds, NextPhase, SkipRekey, history
  <2> QED BY <1>0, <2>1, StopsOrPasses
<1> QED BY <1>1, <1>2, <1>3

LEMMA InvStep ==
    ASSUME "upgrade" \notin Moves, Inv, Shape, [Next]_vars
    PROVE  Inv'
<1>0. TypeOK /\ todo \subseteq Live /\ Shape' /\ TypeOK' /\ todo' \subseteq Entries
  BY ShapeStep DEF Shape, TypeOK
<1>1. CASE Reconfigure
  BY <1>1, ReconfigureInv
<1>2. CASE Crash
  <2>1. /\ pc # "down" /\ pc' = "down" /\ advice' = FALSE
        /\ UNCHANGED <<entry, cell, sentinel, env, writes, good, used, forfeit>>
    BY <1>2 DEF Crash, history
  <2> QED BY <1>0, <2>1, StopsOrPasses
<1>3. CASE EnforceVaultKey
  BY <1>0, <1>3, GateStep
<1>4. CASE MigrateTOTPSecrets \/ MigrateEncryption \/ BackfillEnds \/ SkipRekey
  BY <1>0, <1>4, BootStep
<1>5. ASSUME NEW e \in Entries, BackfillMetadataEncryption(e) \/ BackfillMetadataAtRest(e) PROVE Inv'
  <2>1. Next
    BY <1>5 DEF Next, Boot
  <2>2. Rewriting(entry') /\ CellWriting(cell')
    BY <1>0, <2>1, NextRewrites, NextSeals
  <2>3. pc # "down" /\ pc' # "down" /\ UNCHANGED <<sentinel, env, good, used, forfeit, advice>>
    BY <1>5 DEF BackfillMetadataEncryption, BackfillMetadataAtRest, history
  <2> QED BY <1>0, <2>2, <2>3, WriteStep
<1>6. CASE RekeyOnBoot
  <2>1. CASE RekeyVault /\ pc' = "serving"
    BY <1>0, <1>6, <2>1, SweepStep DEF RekeyOnBoot
  <2>2. CASE /\ pc' = "down" /\ advice' = FALSE
             /\ UNCHANGED <<entry, cell, sentinel, env, todo, writes, history>>
    <3>1. pc # "down" /\ UNCHANGED <<entry, cell, sentinel, env, writes, good, used, forfeit>>
      BY <1>6, <2>2 DEF RekeyOnBoot, history
    <3> QED BY <1>0, <2>2, <3>1, StopsOrPasses
  <2> QED BY <1>6, <2>1, <2>2 DEF RekeyOnBoot
<1>7. CASE VaultKeyRekey
  BY <1>0, <1>7, SweepStep DEF VaultKeyRekey
<1>8. CASE RekeyStatus
  BY <1>8, StatusStep
<1>9. CASE Write
  <2>1. Serving /\ Next
    BY <1>9 DEF Next, Write, Create, UpdateMetadata, UpdateVaultEntryName, UpdateVaultEntryValue,
             SetProviderMeta, SaveSealed, loadOrCreateAuditDEK
  <2>2. Rewriting(entry') /\ CellWriting(cell')
    BY <1>0, <2>1, NextRewrites, NextSeals
  <2>3. pc # "down" /\ pc' # "down" /\ UNCHANGED <<sentinel, env, good, used, forfeit, advice>>
    BY <2>1 DEF Serving, history
  <2> QED BY <1>0, <2>2, <2>3, WriteStep
<1>10. CASE UNCHANGED vars
  <2>1. UNCHANGED <<entry, cell, sentinel, env, pc, advice, good, used, forfeit>>
    BY <1>10 DEF vars
  <2>2. Booted' /\ Plausible' /\ (Advised' \/ forfeit)
    BY <2>1 DEF Inv, Booted, Plausible, Advised, Sound
  <2> QED BY <1>0, <2>1, <2>2, QuietStep
<1> QED BY <1>1, <1>2, <1>3, <1>4, <1>5, <1>6, <1>7, <1>8, <1>9, <1>10 DEF Next, Boot

LEMMA InvAlways == ASSUME "upgrade" \notin Moves PROVE Spec => []Inv
<1>1. Init => Inv
  BY InitInv
<1>2. Inv /\ Shape /\ [Next]_vars => Inv'
  BY InvStep
<1> QED BY <1>1, <1>2, ShapeAlways, PTL DEF Spec

(* A database that has passed the gate once before its key is first rotated  *)
(* never holds a value that the configuration of the last successful boot    *)
(* does not open, unless the operator overrode the gate: the sentinel is the *)
(* last value to change keys, so a boot it opens is a boot that opens all.   *)
THEOREM NothingIsOrphaned == ASSUME "upgrade" \notin Moves PROVE Spec => []NothingOrphaned
<1>1. ASSUME Inv PROVE NothingOrphaned
  <2> SUFFICES ASSUME ~forfeit, NEW s \in Stored PROVE s \in {good.cur, good.prev, Empty, Plain}
    BY DEF NothingOrphaned
  <2>1. AllIn({good.cur, good.prev} \ {NoKey})
    BY <1>1 DEF Inv, Sound
  <2> QED BY <2>1, StoredIn
<1> QED BY <1>1, InvAlways, PTL

(* On such a database the previous key is only ever declared unneeded, by    *)
(* the boot log, the sweep or the status page, when nothing is sealed under  *)
(* it and every url index is the current key's.                              *)
THEOREM AdviceIsSafe == ASSUME "upgrade" \notin Moves PROVE Spec => []RemovalAdviceIsSafe
<1>1. ASSUME Inv PROVE RemovalAdviceIsSafe
  <2> SUFFICES ASSUME advice, ~forfeit
               PROVE  env.prev \notin Stored /\ \A e \in Live : classifyBlindIndex(e) = "current"
    BY DEF RemovalAdviceIsSafe
  <2>0. TypeOK /\ env = good /\ sentinel = good.cur /\ good.prev # NoKey /\ good.prev # good.cur
    BY <1>1 DEF Inv, Booted, Sound, Advised, Ringed
  <2>1. AllIn({good.cur}) /\ \A e \in Entries : UrlCurrent(entry[e], good.cur)
    BY <1>1, <2>0 DEF Inv, Sound, Swept
  <2>2. Stored \subseteq {good.cur} \cup {Empty, Plain}
    BY <2>1, StoredIn
  <2>3. env.prev \notin Stored
    BY <2>0, <2>2, RingTypes, Distinct
  <2>4. \A e \in Live : classifyBlindIndex(e) = "current"
    BY <2>0, <2>1 DEF classifyBlindIndex, urlBlindIndex, UrlCurrent, Live
  <2> QED BY <2>3, <2>4
<1> QED BY <1>1, InvAlways, PTL
=============================================================================
