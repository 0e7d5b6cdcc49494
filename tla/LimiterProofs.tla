--------------------------- MODULE LimiterProofs ---------------------------
(* What the rate limiter promises for any number of addresses and of        *)
(* requests at once, and any limit, cap, sample and window.                 *)
EXTENDS RateLimiter, FiniteSetTheorems, TLAPS

----------------------------------------------------------------------------
(* The inductive invariant. *)

Critical == {"room", "evict", "evicted", "recount", "resync", "store", "count"}
HolderPc == IF admit \in Requests THEN req[admit].pc ELSE "none"

(* The types, without the bound on the counter, which follows from Counted. *)
Typed ==
    /\ visitors \in [Ips -> [count : 0..maxRequests + 1, windowAt : Times]]
    /\ numVisitors \in Int
    /\ admit \in Requests \cup {Nobody}
    /\ req \in [Requests -> Reqs]
    /\ sweep \in Sweeps
    /\ now \in Times
    /\ granted \in [Ips -> Nat]
    /\ misses \in Nat

(* Only the holder of the mutex is between taking and releasing it. *)
Exclusive == \A r \in Requests : req[r].pc \in Critical <=> admit = r

(* The address being admitted is not in the map until it is stored, and a   *)
(* request that counts on a visitor of the map finds it there.              *)
Newcomer ==
    \A r \in Requests :
        /\ req[r].pc \in Critical \ {"count"} => req[r].ip \notin Live
        /\ req[r].pc = "visit" => req[r].ip \in Live

(* Nothing is let through that the entry did not count. *)
Charged == \A ip \in Ips : granted[ip] <= visitors[ip].count /\ granted[ip] <= maxRequests

(* Entries stored and not counted yet, and deleted and still counted. *)
Ahead == IF HolderPc = "count" THEN 1 ELSE 0
Behind == IF HolderPc = "evicted" THEN 1 ELSE 0
Swept == IF sweep.pc = "decrement" THEN 1 ELSE 0

(* The counter is too small only by recounts that missed a decrement. *)
Counted == Cardinality(Live) + Behind + Swept <= numVisitors + misses + Ahead

(* What is known of the map while an entry is being admitted. *)
Roomy ==
    /\ Cardinality(Live) <= maxVisitors + misses
    /\ \A r \in Requests :
         /\ req[r].pc = "evict" /\ req[r].victim \notin Live
              => Cardinality(Live) <= maxVisitors + misses - 1
         /\ req[r].pc = "recount" => Cardinality(Live) <= maxVisitors + misses - 1
         /\ req[r].pc = "resync" =>
              /\ Cardinality(Live) + Swept <= maxVisitors + misses - 1
              /\ Cardinality(Live) + Swept <= req[r].live + misses
         /\ req[r].pc = "store" => Cardinality(Live) + Swept <= maxVisitors + misses - 1

Inv == Typed /\ Exclusive /\ Newcomer /\ Charged /\ Counted /\ Roomy

----------------------------------------------------------------------------
(* What each state of a request and of the sweep carries. *)
LEMMA Fields ==
    ASSUME Typed, NEW r \in Requests
    PROVE  /\ req[r] \in Reqs
           /\ req[r].pc # "idle" => req[r].ip \in Ips /\ req[r].at \in Times
           /\ req[r].pc = "evict" => req[r].victim \in Ips
           /\ req[r].pc = "resync" => req[r].live \in Nat
<1>1. req[r] \in Reqs
  BY DEF Typed
<1>2. CASE req[r] = Idle
  BY <1>1, <1>2 DEF Idle
<1>3. CASE req[r] \in [pc : {"visit", "stale", "admit", "room", "evicted", "recount",
                             "store", "count"}, ip : Ips, at : Times]
  BY <1>1, <1>3
<1>4. CASE req[r] \in [pc : {"evict"}, ip : Ips, at : Times, victim : Ips]
  BY <1>1, <1>4
<1>5. CASE req[r] \in [pc : {"resync"}, ip : Ips, at : Times, live : Nat]
  BY <1>1, <1>5
<1> QED BY <1>1, <1>2, <1>3, <1>4, <1>5 DEF Reqs

LEMMA States ==
    ASSUME NEW ip \in Ips, NEW at \in Times
    PROVE  /\ Idle \in Reqs /\ Idle.pc = "idle"
           /\ \A pc \in {"visit", "stale", "admit", "room", "evicted", "recount", "store",
                         "count"} : [pc |-> pc, ip |-> ip, at |-> at] \in Reqs
           /\ \A v \in Ips : [pc |-> "evict", ip |-> ip, at |-> at, victim |-> v] \in Reqs
           /\ \A n \in Nat : [pc |-> "resync", ip |-> ip, at |-> at, live |-> n] \in Reqs
  BY DEF Reqs, Idle

LEMMA SweepFields ==
    ASSUME Typed
    PROVE  sweep.pc = "delete" => sweep.ip \in Ips
<1>1. CASE sweep = Resting
  BY <1>1 DEF Resting
<1>2. CASE sweep = [pc |-> "decrement"]
  BY <1>2
<1>3. CASE sweep \in [pc : {"delete"}, ip : Ips]
  BY <1>3
<1> QED BY <1>1, <1>2, <1>3 DEF Typed, Sweeps

----------------------------------------------------------------------------
(* How the map changes. *)

LEMMA LiveFinite == Live \subseteq Ips /\ IsFiniteSet(Live) /\ Cardinality(Live) \in Nat
<1>1. Live \subseteq Ips /\ IsFiniteSet(Ips)
  BY LimiterAssumption DEF Live
<1> QED BY <1>1, FS_Subset, FS_CardinalityType

LEMMA SameLive == visitors' = visitors => Live' = Live
  BY DEF Live

(* An entry goes. *)
LEMMA LiveDrops ==
    ASSUME Typed, NEW ip \in Live, Dropped(ip)
    PROVE  /\ Live' = Live \ {ip}
           /\ Cardinality(Live') = Cardinality(Live) - 1
           /\ \A x \in Ips : visitors'[x].count = IF x = ip THEN 0 ELSE visitors[x].count
           /\ visitors' \in [Ips -> [count : 0..maxRequests + 1, windowAt : Times]]
           /\ granted' \in [Ips -> Nat]
<1>0. ip \in Ips /\ None \in [count : 0..maxRequests + 1, windowAt : Times] /\ None.count = 0
  BY LimiterAssumption DEF Live, None, Times
<1>1. visitors' = [visitors EXCEPT ![ip] = None]
  BY DEF Dropped
<1>2. Live' = Live \ {ip}
  BY <1>0, <1>1 DEF Live, Typed
<1>3. Cardinality(Live \ {ip}) = Cardinality(Live) - 1
  BY LiveFinite, FS_RemoveElement
<1>4. \A x \in Ips : visitors'[x].count = IF x = ip THEN 0 ELSE visitors[x].count
  BY <1>0, <1>1 DEF Typed
<1>5. visitors' \in [Ips -> [count : 0..maxRequests + 1, windowAt : Times]]
  BY <1>0, <1>1 DEF Typed
<1>6. granted' \in [Ips -> Nat]
  BY <1>0 DEF Typed, Dropped
<1> QED BY <1>2, <1>3, <1>4, <1>5, <1>6

(* A visitor that is stored or counts a request is in the map. *)
LEMMA Present ==
    ASSUME Typed, NEW ip \in Ips, NEW n \in 1..maxRequests + 1, NEW t \in Times,
           visitors' = [visitors EXCEPT ![ip] = [count |-> n, windowAt |-> t]]
    PROVE  /\ Live' = Live \cup {ip}
           /\ visitors' \in [Ips -> [count : 0..maxRequests + 1, windowAt : Times]]
           /\ \A x \in Ips : visitors'[x].count = IF x = ip THEN n ELSE visitors[x].count
           /\ ip \in Live => Cardinality(Live') = Cardinality(Live)
           /\ ip \notin Live => Cardinality(Live') = Cardinality(Live) + 1
<1> DEFINE v == [count |-> n, windowAt |-> t]
<1>1. v \in [count : 0..maxRequests + 1, windowAt : Times] /\ v # None /\ v.count = n
  BY LimiterAssumption DEF None
<1>2. visitors' = [visitors EXCEPT ![ip] = v]
  OBVIOUS
<1> HIDE DEF v
<1>3. Live' = Live \cup {ip}
  BY <1>1, <1>2 DEF Live, Typed
<1>4. /\ visitors' \in [Ips -> [count : 0..maxRequests + 1, windowAt : Times]]
      /\ \A x \in Ips : visitors'[x].count = IF x = ip THEN n ELSE visitors[x].count
  BY <1>1, <1>2 DEF Typed
<1>5. ip \in Live => Live \cup {ip} = Live
  OBVIOUS
<1>6. ip \notin Live => Cardinality(Live \cup {ip}) = Cardinality(Live) + 1
  BY LiveFinite, FS_AddElement
<1> QED BY <1>3, <1>4, <1>5, <1>6

(* Requests that held a dropped or replaced visitor go on with it. *)
LEMMA StaleFacts ==
    ASSUME Typed, NEW ip \in Ips
    PROVE  /\ Stale(ip) \in [Requests -> Reqs]
           /\ \A q \in Requests :
                /\ req[q].pc = "visit" /\ req[q].ip = ip => Stale(ip)[q].pc = "stale"
                /\ ~(req[q].pc = "visit" /\ req[q].ip = ip) => Stale(ip)[q] = req[q]
<1>1. ASSUME NEW q \in Requests, req[q].pc = "visit"
      PROVE  [req[q] EXCEPT !.pc = "stale"] \in Reqs
  <2>1. req[q] \in [pc : {"visit", "stale", "admit", "room", "evicted", "recount",
                          "store", "count"}, ip : Ips, at : Times]
    BY <1>1 DEF Typed, Reqs, Idle
  <2> QED BY <2>1 DEF Reqs
<1>2. ASSUME NEW q \in Requests, req[q].pc = "visit"
      PROVE  [req[q] EXCEPT !.pc = "stale"].pc = "stale"
  BY <1>2, Fields DEF Typed, Reqs, Idle
<1>3. \A q \in Requests : req[q] \in Reqs
  BY DEF Typed
<1> QED BY <1>1, <1>2, <1>3 DEF Stale

LEMMA Holder ==
    ASSUME Typed, Exclusive
    PROVE  /\ \A r \in Requests : admit = r => HolderPc = req[r].pc
           /\ \A r \in Requests : req[r].pc \in Critical => admit = r /\ HolderPc = req[r].pc
           /\ admit = Nobody => HolderPc = "none"
           /\ \A r, q \in Requests : req[r].pc \in Critical /\ q # r => req[q].pc \notin Critical
  BY LimiterAssumption DEF Exclusive, HolderPc, Typed

----------------------------------------------------------------------------
(* Each step keeps the invariant. *)

LEMMA InitInv == Init => Inv
<1> SUFFICES ASSUME Init PROVE Inv
  OBVIOUS
<1>1. Typed
  BY LimiterAssumption DEF Init, Typed, None, Times, Reqs, Sweeps
<1>2. Live = {}
  BY DEF Init, Live
<1>3. Cardinality(Live) = 0
  BY <1>2, FS_EmptySet
<1>4. /\ \A r \in Requests : req[r].pc = "idle"
      /\ admit = Nobody /\ HolderPc = "none" /\ sweep.pc = "resting"
  BY LimiterAssumption DEF Init, Idle, Resting, HolderPc
<1>5. Exclusive /\ Newcomer
  BY <1>4, LimiterAssumption DEF Exclusive, Newcomer, Critical
<1>6. Charged
  BY LimiterAssumption DEF Init, Charged, None
<1>7. Counted /\ Roomy
  BY <1>3, <1>4, LimiterAssumption DEF Init, Counted, Roomy, Ahead, Behind, Swept
<1> QED BY <1>1, <1>5, <1>6, <1>7 DEF Inv

(* Steps outside the mutex that leave map, counter and mutex alone. *)
LEMMA OutsideInv ==
    ASSUME Inv, NEW r \in Requests, NEW x \in Reqs,
           req[r].pc \notin Critical, x.pc \notin Critical,
           x.pc = "visit" => x.ip \in Live,
           req' = [req EXCEPT ![r] = x],
           UNCHANGED <<visitors, numVisitors, admit, sweep, now, granted, misses>>
    PROVE  Inv'
<1>0. Typed /\ Exclusive /\ Newcomer /\ Charged /\ Counted /\ Roomy
  BY DEF Inv
<1>1. Live' = Live
  BY SameLive
<1>2. Typed'
  BY <1>0 DEF Typed
<1>3. /\ req'[r] = x
      /\ \A q \in Requests : q # r => req'[q] = req[q]
  BY <1>0 DEF Typed
<1>4. Exclusive'
  BY <1>0, <1>3 DEF Exclusive
<1>5. Newcomer'
  BY <1>0, <1>1, <1>3 DEF Newcomer
<1>6. Charged'
  BY <1>0 DEF Charged
<1>7. HolderPc' = HolderPc
  BY <1>0, <1>3, Holder DEF HolderPc, Exclusive
<1>8. Counted'
  BY <1>0, <1>1, <1>7 DEF Counted, Ahead, Behind, Swept
<1>9. x.pc \notin {"evict", "recount", "resync", "store"}
  BY DEF Critical
<1>10. Roomy'
  BY <1>0, <1>1, <1>3, <1>9 DEF Roomy, Swept
<1> QED BY <1>2, <1>4, <1>5, <1>6, <1>8, <1>10 DEF Inv

LEMMA AllowInv ==
    ASSUME Inv, NEW r \in Requests, NEW ip \in Ips, allow(r, ip)
    PROVE  Inv'
<1> DEFINE x == [pc |-> IF ip \in Live THEN "visit" ELSE "admit", ip |-> ip, at |-> now]
<1>1. now \in Times /\ req[r].pc = "idle"
  BY DEF Inv, Typed, allow, Idle
<1>2. x \in Reqs /\ x.pc \notin Critical /\ (x.pc = "visit" => x.ip \in Live)
  BY <1>1, States DEF Critical
<1>3. req' = [req EXCEPT ![r] = x]
  BY DEF allow, Goes
<1> HIDE DEF x
<1> QED BY <1>1, <1>2, <1>3, OutsideInv DEF allow, Critical

LEMMA VisitStaleInv ==
    ASSUME Inv, NEW r \in Requests, VisitStale(r)
    PROVE  Inv'
<1>1. Idle \in Reqs /\ Idle.pc = "idle"
  BY DEF Reqs, Idle
<1> QED BY <1>1, OutsideInv DEF VisitStale, Goes, Critical

(* One more request of an address in the map. *)
LEMMA VisitInv ==
    ASSUME Inv, NEW r \in Requests, Visit(r)
    PROVE  Inv'
<1>0. Typed /\ Exclusive /\ Newcomer /\ Charged /\ Counted /\ Roomy
  BY DEF Inv
<1> DEFINE ip == req[r].ip
           v == visitors[ip]
<1>1. /\ req[r].pc = "visit" /\ ip \in Ips /\ ip \in Live /\ req[r].at \in Times
  BY <1>0, Fields DEF Visit, Newcomer
<1>2. v.count \in 0..maxRequests + 1 /\ v.windowAt \in Times /\ granted[ip] \in Nat
  BY <1>0, <1>1 DEF Typed
<1>3. PICK n \in 1..maxRequests + 1, t \in Times, g \in Nat :
        /\ visitors' = [visitors EXCEPT ![ip] = [count |-> n, windowAt |-> t]]
        /\ granted' = [granted EXCEPT ![ip] = g]
        /\ g <= n /\ g <= maxRequests
  <2>1. granted[ip] <= v.count /\ granted[ip] <= maxRequests
    BY <1>0, <1>1 DEF Charged
  <2>2. CASE req[r].at > v.windowAt + window
    <3>1. /\ visitors' = [visitors EXCEPT ![ip] = [count |-> 1, windowAt |-> req[r].at]]
          /\ granted' = [granted EXCEPT ![ip] = 1]
      BY <2>2 DEF Visit
    <3>2. 1 \in 1..maxRequests + 1 /\ 1 \in Nat /\ 1 <= maxRequests /\ 1 <= 1
      BY LimiterAssumption
    <3> HIDE DEF ip
    <3> QED BY <3>1, <3>2, <1>1
  <2>3. CASE ~(req[r].at > v.windowAt + window)
    <3> DEFINE m == IF v.count <= maxRequests THEN v.count + 1 ELSE v.count
               h == IF v.count < maxRequests THEN granted[ip] + 1 ELSE granted[ip]
    <3>1. /\ visitors' = [visitors EXCEPT ![ip].count = m]
          /\ granted' = [granted EXCEPT ![ip] = h]
      BY <2>3 DEF Visit
    <3>2. m \in 1..maxRequests + 1 /\ h \in Nat /\ h <= m /\ h <= maxRequests
      BY <1>2, <2>1, LimiterAssumption
    <3> HIDE DEF m, h
    <3>3. v \in [count : 0..maxRequests + 1, windowAt : Times]
      BY <1>0, <1>1 DEF Typed
    <3>4. [v EXCEPT !.count = m] = [count |-> m, windowAt |-> v.windowAt]
      BY <3>3
    <3>5. visitors' = [visitors EXCEPT ![ip] = [count |-> m, windowAt |-> v.windowAt]]
      BY <3>1, <3>4
    <3>6. v.windowAt \in Times
      BY <1>2
    <3> HIDE DEF v, ip
    <3> QED BY <3>1, <3>2, <3>5, <3>6
  <2> QED BY <2>2, <2>3
<1>4. /\ Live' = Live
      /\ visitors' \in [Ips -> [count : 0..maxRequests + 1, windowAt : Times]]
      /\ \A z \in Ips : visitors'[z].count = IF z = ip THEN n ELSE visitors[z].count
  <2>1. visitors' = [visitors EXCEPT ![ip] = [count |-> n, windowAt |-> t]]
    BY <1>3
  <2> HIDE DEF ip
  <2>2. /\ Live' = Live \cup {ip}
        /\ visitors' \in [Ips -> [count : 0..maxRequests + 1, windowAt : Times]]
        /\ \A z \in Ips : visitors'[z].count = IF z = ip THEN n ELSE visitors[z].count
    BY ONLY <1>0, <1>1, <2>1, n \in 1..maxRequests + 1, t \in Times, Present
  <2> QED BY <1>1, <2>2
<1>5. Idle \in Reqs /\ Idle.pc = "idle"
  BY DEF Reqs, Idle
<1>6. /\ req' = [req EXCEPT ![r] = Idle]
      /\ UNCHANGED <<numVisitors, admit, sweep, now, misses>>
  BY DEF Visit, Goes
<1>7. /\ req'[r] = Idle
      /\ \A q \in Requests : q # r => req'[q] = req[q]
  BY <1>0, <1>6 DEF Typed
<1>8. Typed'
  BY <1>0, <1>1, <1>3, <1>4, <1>5, <1>6 DEF Typed
<1>9. Exclusive'
  BY <1>0, <1>1, <1>5, <1>6, <1>7 DEF Exclusive, Critical
<1>10. Newcomer'
  BY <1>0, <1>4, <1>5, <1>7 DEF Newcomer, Critical
<1>11. Charged'
  BY <1>0, <1>1, <1>3, <1>4 DEF Charged, Typed
<1>12. HolderPc' = HolderPc
  BY <1>0, <1>1, <1>6, <1>7 DEF HolderPc, Exclusive, Critical
<1>13. Counted'
  BY <1>0, <1>4, <1>6, <1>12 DEF Counted, Ahead, Behind, Swept
<1>14. Roomy'
  BY <1>0, <1>4, <1>5, <1>6, <1>7 DEF Roomy, Swept
<1> QED BY <1>8, <1>9, <1>10, <1>11, <1>13, <1>14 DEF Inv

(* A step of the holder of the mutex that leaves the map alone. *)
LEMMA InsideInv ==
    ASSUME Inv, NEW r \in Requests, NEW x \in Reqs,
           req[r].pc \in Critical \ {"count"}, x.pc \in Critical \ {"count", "evicted"},
           x.ip = req[r].ip, req' = [req EXCEPT ![r] = x],
           UNCHANGED <<visitors, admit, sweep, now, granted>>,
           numVisitors' \in Int, misses' \in Nat, misses' >= misses,
           Cardinality(Live) + Swept <= numVisitors' + misses',
           x.pc = "evict" => x.victim \in Live,
           x.pc = "recount" => Cardinality(Live) <= maxVisitors + misses' - 1,
           x.pc = "resync" => /\ Cardinality(Live) + Swept <= maxVisitors + misses' - 1
                              /\ Cardinality(Live) + Swept <= x.live + misses',
           x.pc = "store" => Cardinality(Live) + Swept <= maxVisitors + misses' - 1
    PROVE  Inv'
<1>0. Typed /\ Exclusive /\ Newcomer /\ Charged /\ Counted /\ Roomy
  BY DEF Inv
<1>1. Live' = Live /\ Swept' = Swept /\ Cardinality(Live) \in Nat
  BY SameLive, LiveFinite DEF Swept
<1>2. /\ req'[r] = x
      /\ \A q \in Requests : q # r => req'[q] = req[q] /\ req[q].pc \notin Critical
  BY <1>0, Holder DEF Typed
<1>3. Typed'
  BY <1>0 DEF Typed
<1>4. Exclusive'
  BY <1>0, <1>2 DEF Exclusive
<1>5. Newcomer'
  <2>1. req[r].ip \notin Live /\ x.pc # "visit"
    BY <1>0 DEF Newcomer, Critical
  <2> QED BY <1>0, <1>1, <1>2, <2>1 DEF Newcomer
<1>6. Charged'
  BY <1>0 DEF Charged
<1>7. HolderPc' = x.pc
  BY <1>0, <1>2, Holder DEF HolderPc
<1>8. Counted'
  BY <1>1, <1>7 DEF Counted, Ahead, Behind
<1>9. Roomy'
  <2>1. Cardinality(Live) <= maxVisitors + misses'
    BY <1>0, <1>1, LimiterAssumption DEF Roomy, Typed
  <2>2. \A q \in Requests : q # r => req'[q].pc \notin {"evict", "recount", "resync", "store"}
    BY <1>2 DEF Critical
  <2> QED BY <1>1, <1>2, <2>1, <2>2 DEF Roomy
<1> QED BY <1>3, <1>4, <1>5, <1>6, <1>8, <1>9 DEF Inv

(* The mutex is taken, and given back if another request was faster. *)
LEMMA AdmitInv ==
    ASSUME Inv, NEW r \in Requests, admitNewVisitor(r)
    PROVE  Inv'
<1>0. Typed /\ Exclusive /\ Newcomer /\ Charged /\ Counted /\ Roomy
  BY DEF Inv
<1>1. req[r].pc = "admit" /\ admit = Nobody /\ req[r].ip \in Ips /\ req[r].at \in Times
  BY <1>0, Fields DEF admitNewVisitor
<1>2. CASE req[r].ip \in Live
  <2> DEFINE x == Now(r, "visit")
  <2>1. x \in Reqs /\ x.pc = "visit" /\ x.ip = req[r].ip
    BY <1>1, States DEF Now
  <2>2. /\ req' = [req EXCEPT ![r] = x]
        /\ UNCHANGED <<visitors, numVisitors, admit, sweep, now, granted, misses>>
    BY <1>1, <1>2 DEF admitNewVisitor, Goes, Admitted
  <2> HIDE DEF x
  <2> QED BY <1>1, <1>2, <2>1, <2>2, OutsideInv DEF Critical
<1>3. CASE req[r].ip \notin Live
  <2> DEFINE x == Now(r, "room")
  <2>1. x \in Reqs /\ x.pc = "room" /\ x.ip = req[r].ip
    BY <1>1, States DEF Now
  <2>2. /\ req' = [req EXCEPT ![r] = x] /\ admit' = r
        /\ UNCHANGED <<visitors, numVisitors, sweep, now, granted, misses>>
    BY <1>3 DEF admitNewVisitor, Goes, Admitted
  <2> HIDE DEF x
  <2>3. Live' = Live /\ Swept' = Swept
    BY <2>2, SameLive DEF Swept
  <2>4. \A q \in Requests : req[q].pc \notin Critical
    BY <1>0, <1>1, LimiterAssumption DEF Exclusive
  <2>5. /\ req'[r] = x
        /\ \A q \in Requests : q # r => req'[q] = req[q]
    BY <1>0, <2>2 DEF Typed
  <2>6. Typed'
    BY <1>0, <2>1, <2>2 DEF Typed
  <2>7. Exclusive'
    BY <2>1, <2>2, <2>4, <2>5 DEF Exclusive, Critical
  <2>8. Newcomer'
    BY <1>0, <1>3, <2>1, <2>3, <2>5 DEF Newcomer, Critical
  <2>9. Charged'
    BY <1>0, <2>2 DEF Charged
  <2>10. HolderPc' = "room" /\ HolderPc = "none"
    BY <1>0, <1>1, <2>1, <2>2, <2>5, Holder DEF HolderPc
  <2>11. Counted'
    BY <1>0, <2>2, <2>3, <2>10 DEF Counted, Ahead, Behind
  <2>12. Roomy'
    BY <1>0, <2>1, <2>2, <2>3, <2>5 DEF Roomy
  <2> QED BY <2>6, <2>7, <2>8, <2>9, <2>11, <2>12 DEF Inv
<1> QED BY <1>2, <1>3

(* What the counter says to the holder between two of its updates. *)
LEMMA Settled ==
    ASSUME Inv, NEW r \in Requests, req[r].pc \in Critical \ {"count", "evicted"}
    PROVE  Cardinality(Live) + Swept <= numVisitors + misses
  BY Holder, LiveFinite DEF Inv, Counted, Ahead, Behind, Swept, Typed

LEMMA EvictOldestInv ==
    ASSUME Inv, NEW r \in Requests, evictOldestSample(r)
    PROVE  Inv'
<1>0. Typed /\ req[r].pc = "room" /\ req[r].ip \in Ips /\ req[r].at \in Times
  BY Fields DEF evictOldestSample, Inv
<1>1. /\ req[r].pc \in Critical \ {"count", "evicted"}
      /\ numVisitors \in Int /\ misses \in Nat /\ Cardinality(Live) \in Nat /\ Swept \in {0, 1}
      /\ UNCHANGED <<visitors, numVisitors, admit, sweep, now, granted, misses>>
  BY <1>0, LiveFinite DEF Critical, Typed, Swept, evictOldestSample
<1>2. Cardinality(Live) + Swept <= numVisitors + misses
  BY <1>1, Settled
<1>9. /\ numVisitors' \in Int /\ misses' \in Nat /\ misses' >= misses /\ misses' = misses
       /\ Cardinality(Live) + Swept <= numVisitors' + misses'
  BY <1>1, <1>2
<1>3. CASE numVisitors < maxVisitors /\ Goes(r, Now(r, "store"))
  <2> DEFINE x == Now(r, "store")
  <2>1. x \in Reqs /\ x.pc = "store" /\ x.ip = req[r].ip /\ req' = [req EXCEPT ![r] = x]
    BY <1>0, <1>3, States DEF Now, Goes
  <2>2. Cardinality(Live) + Swept <= maxVisitors + misses' - 1
    BY <1>1, <1>2, <1>3, LimiterAssumption
  <2> HIDE DEF x
  <2> QED BY <1>1, <1>9, <2>1, <2>2, InsideInv DEF Critical
<1>4. CASE Live = {} /\ Goes(r, Now(r, "recount"))
  <2> DEFINE x == Now(r, "recount")
  <2>1. x \in Reqs /\ x.pc = "recount" /\ x.ip = req[r].ip /\ req' = [req EXCEPT ![r] = x]
    BY <1>0, <1>4, States DEF Now, Goes
  <2>2. Cardinality(Live) <= maxVisitors + misses' - 1
    BY <1>1, <1>4, FS_EmptySet, LimiterAssumption
  <2> HIDE DEF x
  <2> QED BY <1>1, <1>9, <2>1, <2>2, InsideInv DEF Critical
<1>5. ASSUME NEW ip \in Oldest,
             Goes(r, [pc |-> "evict", ip |-> req[r].ip, at |-> req[r].at, victim |-> ip])
      PROVE  Inv'
  <2> DEFINE x == [pc |-> "evict", ip |-> req[r].ip, at |-> req[r].at, victim |-> ip]
  <2>1. ip \in Live /\ ip \in Ips
    BY DEF Oldest, Live
  <2>2. /\ x \in Reqs /\ x.pc = "evict" /\ x.ip = req[r].ip /\ x.victim \in Live
        /\ req' = [req EXCEPT ![r] = x]
    BY <1>0, <1>5, <2>1, States DEF Goes
  <2> HIDE DEF x
  <2> QED BY <1>1, <1>9, <2>2, InsideInv DEF Critical
<1> QED BY <1>3, <1>4, <1>5 DEF evictOldestSample

LEMMA DecrementInv ==
    ASSUME Inv, NEW r \in Requests, Decrement(r)
    PROVE  Inv'
<1> DEFINE x == Now(r, "room")
<1>0. /\ Typed /\ Exclusive /\ Counted
      /\ req[r].pc = "evicted" /\ req[r].ip \in Ips /\ req[r].at \in Times
  BY Fields DEF Decrement, Inv
<1>1. x \in Reqs /\ x.pc = "room" /\ x.ip = req[r].ip /\ req' = [req EXCEPT ![r] = x]
  BY <1>0, States DEF Now, Goes, Decrement
<1>2. /\ UNCHANGED <<visitors, admit, sweep, now, granted, misses>>
      /\ numVisitors' = numVisitors - 1 /\ numVisitors \in Int /\ misses \in Nat
  BY <1>0 DEF Decrement, Typed
<1>3. HolderPc = "evicted"
  BY <1>0, Holder DEF Critical
<1>4. /\ numVisitors' \in Int /\ misses' \in Nat /\ misses' >= misses
      /\ Cardinality(Live) + Swept <= numVisitors' + misses'
  BY <1>0, <1>2, <1>3, LiveFinite DEF Counted, Ahead, Behind, Swept
<1> HIDE DEF x
<1> QED BY <1>0, <1>1, <1>2, <1>4, InsideInv DEF Critical

LEMMA RecountInv ==
    ASSUME Inv, NEW r \in Requests, Recount(r)
    PROVE  Inv'
<1> DEFINE x == [pc |-> "resync", ip |-> req[r].ip, at |-> req[r].at, live |-> Cardinality(Live)]
<1>0. /\ Typed /\ Roomy
      /\ req[r].pc = "recount" /\ req[r].ip \in Ips /\ req[r].at \in Times
      /\ Cardinality(Live) \in Nat
  BY Fields, LiveFinite DEF Recount, Inv
<1>1. /\ x \in Reqs /\ x.pc = "resync" /\ x.ip = req[r].ip /\ req' = [req EXCEPT ![r] = x]
      /\ x.live = Cardinality(Live)
  BY <1>0, States DEF Now, Goes, Recount
<1>2. /\ UNCHANGED <<visitors, numVisitors, admit, sweep, now, granted>>
      /\ misses' = misses + Swept /\ numVisitors \in Int /\ misses \in Nat /\ Swept \in {0, 1}
  BY <1>0 DEF Recount, Typed, Swept
<1>3. Cardinality(Live) + Swept <= numVisitors + misses
  BY <1>0, Settled DEF Critical
<1>4. Cardinality(Live) <= maxVisitors + misses - 1
  BY <1>0 DEF Roomy
<1> HIDE DEF x
<1>5. /\ misses' \in Nat /\ misses' >= misses
      /\ Cardinality(Live) + Swept <= numVisitors' + misses'
      /\ Cardinality(Live) + Swept <= maxVisitors + misses' - 1
      /\ Cardinality(Live) + Swept <= x.live + misses'
  BY <1>0, <1>1, <1>2, <1>3, <1>4, LimiterAssumption
<1> QED BY <1>0, <1>1, <1>2, <1>5, InsideInv DEF Critical

LEMMA ResyncInv ==
    ASSUME Inv, NEW r \in Requests, resyncVisitorCount(r)
    PROVE  Inv'
<1> DEFINE x == Now(r, "store")
<1>0. /\ Typed /\ Roomy
      /\ req[r].pc = "resync" /\ req[r].ip \in Ips /\ req[r].at \in Times /\ req[r].live \in Nat
  BY Fields DEF resyncVisitorCount, Inv
<1>1. x \in Reqs /\ x.pc = "store" /\ x.ip = req[r].ip /\ req' = [req EXCEPT ![r] = x]
  BY <1>0, States DEF Now, Goes, resyncVisitorCount
<1>2. /\ UNCHANGED <<visitors, admit, sweep, now, granted, misses>>
      /\ numVisitors' = req[r].live /\ misses \in Nat
  BY <1>0 DEF resyncVisitorCount, Typed
<1>3. /\ Cardinality(Live) + Swept <= maxVisitors + misses - 1
      /\ Cardinality(Live) + Swept <= req[r].live + misses
  BY <1>0 DEF Roomy
<1>4. /\ numVisitors' \in Int /\ misses' \in Nat /\ misses' >= misses
      /\ Cardinality(Live) + Swept <= maxVisitors + misses' - 1
      /\ Cardinality(Live) + Swept <= numVisitors' + misses'
  BY <1>0, <1>2, <1>3
<1> HIDE DEF x
<1> QED BY <1>0, <1>1, <1>2, <1>4, InsideInv DEF Critical

(* The eviction: the victim goes, whoever still holds it. *)
LEMMA LoadAndDeleteInv ==
    ASSUME Inv, NEW r \in Requests, LoadAndDelete(r)
    PROVE  Inv'
<1>0. Typed /\ Exclusive /\ Newcomer /\ Charged /\ Counted /\ Roomy
  BY DEF Inv
<1>1. /\ req[r].pc = "evict" /\ req[r].ip \in Ips /\ req[r].at \in Times
      /\ req[r].victim \in Ips
      /\ UNCHANGED <<numVisitors, admit, sweep, now, misses>>
      /\ numVisitors \in Int /\ misses \in Nat /\ Cardinality(Live) \in Nat /\ Swept \in {0, 1}
  BY <1>0, Fields, LiveFinite DEF LoadAndDelete, Typed, Swept
<1>2. Cardinality(Live) + Swept <= numVisitors + misses
  BY <1>1, Settled DEF Critical
<1>3. CASE req[r].victim \notin Live
  <2> DEFINE x == Now(r, "recount")
  <2>1. x \in Reqs /\ x.pc = "recount" /\ x.ip = req[r].ip /\ req' = [req EXCEPT ![r] = x]
    BY <1>1, <1>3, States DEF Now, Goes, LoadAndDelete
  <2>2. /\ numVisitors' \in Int /\ misses' \in Nat /\ misses' >= misses
        /\ Cardinality(Live) + Swept <= numVisitors' + misses'
        /\ Cardinality(Live) <= maxVisitors + misses' - 1
    BY <1>0, <1>1, <1>2, <1>3 DEF Roomy
  <2>3. UNCHANGED <<visitors, granted>>
    BY <1>3 DEF LoadAndDelete
  <2> HIDE DEF x
  <2> QED BY <1>1, <2>1, <2>2, <2>3, InsideInv DEF Critical
<1>4. CASE req[r].victim \in Live
  <2> DEFINE x == Now(r, "evicted")
             ip == req[r].victim
  <2>1. x \in Reqs /\ x.pc = "evicted" /\ x.ip = req[r].ip
    BY <1>1, States DEF Now
  <2>2. ip \in Live /\ Dropped(ip) /\ req' = [Stale(ip) EXCEPT ![r] = x]
    BY <1>4 DEF LoadAndDelete
  <2> HIDE DEF x, ip
  <2>3. /\ Live' = Live \ {ip} /\ ip \in Ips
        /\ Cardinality(Live') = Cardinality(Live) - 1
        /\ \A z \in Ips : visitors'[z].count = IF z = ip THEN 0 ELSE visitors[z].count
        /\ visitors' \in [Ips -> [count : 0..maxRequests + 1, windowAt : Times]]
        /\ granted' \in [Ips -> Nat]
    BY <1>0, <2>2, LiveDrops, LiveFinite
  <2>4. /\ req' \in [Requests -> Reqs] /\ req'[r] = x
        /\ \A q \in Requests : q # r =>
             /\ req[q].pc \notin Critical /\ req'[q].pc \notin Critical
             /\ req'[q].pc = "visit" => req'[q] = req[q] /\ req[q].ip # ip
    <3>1. \A q \in Requests : q # r => req[q].pc \notin Critical
      BY <1>0, <1>1, Holder DEF Critical
    <3>2. \A q \in Requests : q # r => req'[q] = Stale(ip)[q]
      BY <1>0, <2>2, <2>3, StaleFacts
    <3>3. req' \in [Requests -> Reqs] /\ req'[r] = x
      BY <1>0, <2>1, <2>2, <2>3, StaleFacts
    <3> QED BY <1>0, <2>3, <3>1, <3>2, <3>3, StaleFacts DEF Critical
  <2>5. Typed'
    BY <1>0, <1>1, <2>3, <2>4 DEF Typed
  <2>6. Exclusive'
    BY <1>0, <1>1, <2>1, <2>4 DEF Exclusive, Critical
  <2>7. Newcomer'
    <3>1. x.ip \notin Live
      BY <1>0, <1>1, <2>1 DEF Newcomer, Critical
    <3> QED BY <1>0, <2>1, <2>3, <2>4, <3>1 DEF Newcomer
  <2>8. Charged'
    BY <1>0, <2>2, <2>3, LimiterAssumption DEF Charged, Dropped, Typed
  <2>9. HolderPc' = "evicted" /\ Swept' = Swept
    BY <1>0, <1>1, <2>1, <2>4, Holder DEF HolderPc, Swept, Critical
  <2>10. Counted'
    BY <1>1, <1>2, <2>3, <2>9 DEF Counted, Ahead, Behind
  <2>11. Roomy'
    <3>1. Cardinality(Live') <= maxVisitors + misses'
      BY <1>0, <1>1, <2>3, LimiterAssumption DEF Roomy
    <3>2. \A q \in Requests : req'[q].pc \notin {"evict", "recount", "resync", "store"}
      BY <2>1, <2>4 DEF Critical
    <3> QED BY <3>1, <3>2 DEF Roomy
  <2> QED BY <2>5, <2>6, <2>7, <2>8, <2>10, <2>11 DEF Inv
<1> QED BY <1>3, <1>4

(* The admission: the newcomer was not in the map, so nothing that was let  *)
(* through is forgotten.                                                    *)
LEMMA StoreInv ==
    ASSUME Inv, NEW r \in Requests, Store(r)
    PROVE  Inv'
<1> DEFINE x == Now(r, "count")
           ip == req[r].ip
<1>0. Typed /\ Exclusive /\ Newcomer /\ Charged /\ Counted /\ Roomy
  BY DEF Inv
<1>1. /\ req[r].pc = "store" /\ ip \in Ips /\ req[r].at \in Times /\ ip \notin Live
      /\ UNCHANGED <<numVisitors, admit, sweep, now, misses>>
      /\ numVisitors \in Int /\ misses \in Nat /\ Cardinality(Live) \in Nat /\ Swept \in {0, 1}
  BY <1>0, Fields, LiveFinite DEF Store, Typed, Swept, Newcomer, Critical
<1>2. Cardinality(Live) + Swept <= numVisitors + misses
  BY <1>1, Settled DEF Critical
<1>3. x \in Reqs /\ x.pc = "count" /\ x.ip = ip
  BY <1>1, States DEF Now
<1>4. /\ visitors' = [visitors EXCEPT ![ip] = [count |-> 1, windowAt |-> req[r].at]]
      /\ granted' = [granted EXCEPT ![ip] = @ + 1]
      /\ req' = [Stale(ip) EXCEPT ![r] = x]
  BY DEF Store
<1>5. granted[ip] = 0
  BY <1>0, <1>1 DEF Charged, Typed, Live, None
<1> HIDE DEF x, ip
<1>6. /\ Live' = Live \cup {ip}
      /\ visitors' \in [Ips -> [count : 0..maxRequests + 1, windowAt : Times]]
      /\ \A z \in Ips : visitors'[z].count = IF z = ip THEN 1 ELSE visitors[z].count
      /\ Cardinality(Live') = Cardinality(Live) + 1
  <2>1. 1 \in 1..maxRequests + 1
    BY LimiterAssumption
  <2> QED BY <1>0, <1>1, <1>4, <2>1, Present
<1>7. /\ req' \in [Requests -> Reqs] /\ req'[r] = x
      /\ \A q \in Requests : q # r =>
           /\ req[q].pc \notin Critical /\ req'[q].pc \notin Critical
           /\ req'[q].pc = "visit" => req'[q] = req[q]
  <2>1. \A q \in Requests : q # r => req[q].pc \notin Critical
    BY <1>0, <1>1, Holder DEF Critical
  <2>2. \A q \in Requests : q # r => req'[q] = Stale(ip)[q]
    BY <1>0, <1>1, <1>4, StaleFacts
  <2>3. req' \in [Requests -> Reqs] /\ req'[r] = x
    BY <1>0, <1>1, <1>3, <1>4, StaleFacts
  <2> QED BY <1>0, <1>1, <2>1, <2>2, <2>3, StaleFacts DEF Critical
<1>8. Typed'
  <2>1. granted' \in [Ips -> Nat]
    BY <1>0, <1>1, <1>4, <1>5 DEF Typed
  <2> QED BY <1>0, <1>1, <1>6, <1>7, <2>1 DEF Typed
<1>9. Exclusive'
  BY <1>0, <1>1, <1>3, <1>7 DEF Exclusive, Critical
<1>10. Newcomer'
  BY <1>0, <1>3, <1>6, <1>7 DEF Newcomer
<1>11. Charged'
  BY <1>0, <1>1, <1>4, <1>5, <1>6, LimiterAssumption DEF Charged, Typed
<1>12. HolderPc' = "count" /\ Swept' = Swept
  BY <1>0, <1>1, <1>3, <1>7, Holder DEF HolderPc, Swept, Critical
<1>13. Counted'
  BY <1>1, <1>2, <1>6, <1>12 DEF Counted, Ahead, Behind
<1>14. Roomy'
  <2>1. Cardinality(Live) + Swept <= maxVisitors + misses - 1
    BY <1>0, <1>1 DEF Roomy
  <2>2. Cardinality(Live') <= maxVisitors + misses'
    BY <1>1, <1>6, <2>1, LimiterAssumption
  <2>3. \A q \in Requests : req'[q].pc \notin {"evict", "recount", "resync", "store"}
    BY <1>3, <1>7 DEF Critical
  <2> QED BY <2>2, <2>3 DEF Roomy
<1> QED BY <1>8, <1>9, <1>10, <1>11, <1>13, <1>14 DEF Inv

(* The newcomer is counted and the mutex released. *)
LEMMA IncrementInv ==
    ASSUME Inv, NEW r \in Requests, Increment(r)
    PROVE  Inv'
<1>0. Typed /\ Exclusive /\ Newcomer /\ Charged /\ Counted /\ Roomy
  BY DEF Inv
<1>1. /\ req[r].pc = "count" /\ numVisitors' = numVisitors + 1 /\ admit' = Nobody
      /\ req' = [req EXCEPT ![r] = Idle]
      /\ UNCHANGED <<visitors, sweep, now, granted, misses>>
  BY DEF Increment, Goes
<1>2. Idle \in Reqs /\ Idle.pc = "idle"
  BY DEF Reqs, Idle
<1>3. /\ req'[r] = Idle
      /\ \A q \in Requests : q # r => req'[q] = req[q] /\ req[q].pc \notin Critical
  BY <1>0, <1>1, Holder DEF Typed, Critical
<1>4. Typed'
  BY <1>0, <1>1, <1>2 DEF Typed
<1>5. Exclusive'
  BY <1>1, <1>2, <1>3, LimiterAssumption DEF Exclusive, Critical
<1>6. Live' = Live /\ Swept' = Swept /\ Swept \in {0, 1} /\ Cardinality(Live) \in Nat
  BY <1>1, SameLive, LiveFinite DEF Swept
<1>7. Newcomer'
  BY <1>0, <1>2, <1>3, <1>6 DEF Newcomer, Critical
<1>8. Charged'
  BY <1>0, <1>1 DEF Charged
<1>9. HolderPc = "count" /\ HolderPc' = "none"
  BY <1>0, <1>1, Holder, LimiterAssumption DEF HolderPc, Critical
<1>10. Counted'
  BY <1>0, <1>1, <1>6, <1>9 DEF Counted, Ahead, Behind, Typed
<1>11. Roomy'
  <2>1. \A q \in Requests : req'[q].pc \notin {"evict", "recount", "resync", "store"}
    BY <1>2, <1>3 DEF Critical
  <2> QED BY <1>0, <1>1, <1>6, <2>1 DEF Roomy
<1> QED BY <1>4, <1>5, <1>7, <1>8, <1>10, <1>11 DEF Inv

(* The sweep finds an old entry, or finds it gone, or counts what it took;  *)
(* the clock moves.  The requests and the map stay.                         *)
LEMMA AsideInv ==
    ASSUME Inv, UNCHANGED <<visitors, admit, req, granted, misses>>,
           sweep' \in Sweeps, now' \in Times,
           \/ numVisitors' = numVisitors /\ sweep.pc # "decrement" /\ sweep'.pc # "decrement"
           \/ numVisitors' = numVisitors /\ sweep' = sweep
           \/ numVisitors' = numVisitors - 1 /\ sweep.pc = "decrement" /\ sweep'.pc # "decrement"
    PROVE  Inv'
<1>0. Typed /\ Exclusive /\ Newcomer /\ Charged /\ Counted /\ Roomy
  BY DEF Inv
<1>1. Live' = Live /\ HolderPc' = HolderPc /\ Cardinality(Live) \in Nat
  BY SameLive, LiveFinite DEF HolderPc
<1>2. /\ numVisitors' \in Int
      /\ Swept \in {0, 1} /\ Swept' \in {0, 1} /\ Swept' <= Swept
      /\ numVisitors' = numVisitors - Swept + Swept'
  BY <1>0 DEF Typed, Swept
<1>3. Typed'
  BY <1>0, <1>2 DEF Typed
<1>4. Exclusive' /\ Newcomer' /\ Charged'
  BY <1>0, <1>1 DEF Exclusive, Newcomer, Charged
<1>5. Counted'
  BY <1>0, <1>1, <1>2 DEF Counted, Ahead, Behind, Typed
<1>6. Roomy'
  <2>1. \A r \in Requests : req[r].pc = "resync" => req[r].live \in Nat
    BY <1>0, Fields
  <2> QED BY <1>0, <1>1, <1>2, <2>1, LimiterAssumption DEF Roomy, Typed
<1> QED BY <1>3, <1>4, <1>5, <1>6 DEF Inv

(* The sweep deletes by the key: perhaps an entry admitted since it looked. *)
LEMMA SweepDeletesInv ==
    ASSUME Inv, SweepDeletes
    PROVE  Inv'
<1>0. Typed /\ Exclusive /\ Newcomer /\ Charged /\ Counted /\ Roomy
  BY DEF Inv
<1>1. /\ sweep.pc = "delete" /\ sweep.ip \in Ips
      /\ UNCHANGED <<numVisitors, admit, now, misses>>
      /\ numVisitors \in Int /\ misses \in Nat /\ Cardinality(Live) \in Nat /\ Swept = 0
  BY <1>0, SweepFields, LiveFinite DEF SweepDeletes, Typed, Swept
<1>2. CASE sweep.ip \notin Live
  <2>1. sweep' = Resting /\ UNCHANGED <<visitors, req, granted>>
    BY <1>2 DEF SweepDeletes
  <2>2. Resting \in Sweeps /\ Resting.pc # "decrement"
    BY DEF Sweeps, Resting
  <2> QED BY <1>0, <1>1, <2>1, <2>2, AsideInv DEF Typed
<1>3. CASE sweep.ip \in Live
  <2> DEFINE ip == sweep.ip
  <2>1. ip \in Live /\ Dropped(ip) /\ req' = Stale(ip) /\ sweep' = [pc |-> "decrement"]
    BY <1>3 DEF SweepDeletes
  <2> HIDE DEF ip
  <2>2. sweep' \in Sweeps /\ Swept' = 1
    BY <2>1 DEF Sweeps, Swept
  <2>3. /\ Live' = Live \ {ip} /\ ip \in Ips
        /\ Cardinality(Live') = Cardinality(Live) - 1
        /\ \A z \in Ips : visitors'[z].count = IF z = ip THEN 0 ELSE visitors[z].count
        /\ visitors' \in [Ips -> [count : 0..maxRequests + 1, windowAt : Times]]
        /\ granted' \in [Ips -> Nat]
    BY <1>0, <2>1, LiveDrops, LiveFinite
  <2>4. /\ req' \in [Requests -> Reqs]
        /\ \A q \in Requests :
             /\ req'[q].pc \in Critical <=> req[q].pc \in Critical
             /\ req'[q].pc \in Critical => req'[q] = req[q]
             /\ req'[q].pc = "visit" => req'[q] = req[q] /\ req[q].ip # ip
    BY <1>0, <2>1, <2>3, StaleFacts DEF Critical
  <2>5. Typed'
    BY <1>0, <1>1, <2>2, <2>3, <2>4 DEF Typed
  <2>6. Exclusive'
    BY <1>0, <1>1, <2>4 DEF Exclusive
  <2>7. Newcomer'
    BY <1>0, <2>3, <2>4 DEF Newcomer
  <2>8. Charged'
    BY <1>0, <2>1, <2>3, LimiterAssumption DEF Charged, Dropped, Typed
  <2>9. HolderPc' \in Critical => HolderPc' = HolderPc
    BY <1>0, <1>1, <2>4 DEF HolderPc, Critical
  <2>10. HolderPc \in Critical => HolderPc' = HolderPc
    BY <1>0, <1>1, <2>4 DEF HolderPc, Critical
  <2>11. Counted'
    BY <1>0, <1>1, <2>2, <2>3, <2>9, <2>10 DEF Counted, Ahead, Behind, Critical
  <2>12. Roomy'
    <3>1. Cardinality(Live) - 1 <= maxVisitors + misses - 1
      BY <1>0, <1>1, LimiterAssumption DEF Roomy
    <3>2. Cardinality(Live') <= maxVisitors + misses' - 1
      BY <1>1, <2>3, <3>1
    <3>3. ASSUME NEW q \in Requests, req'[q].pc = "resync"
          PROVE  /\ Cardinality(Live') + Swept' <= maxVisitors + misses' - 1
                 /\ Cardinality(Live') + Swept' <= req'[q].live + misses'
      <4>1. req'[q] = req[q]
        BY <2>4, <3>3 DEF Critical
      <4> QED BY <1>0, <1>1, <2>2, <2>3, <3>3, <4>1 DEF Roomy
    <3>4. ASSUME NEW q \in Requests, req'[q].pc = "store"
          PROVE  Cardinality(Live') + Swept' <= maxVisitors + misses' - 1
      <4>1. req'[q] = req[q]
        BY <2>4, <3>4 DEF Critical
      <4> QED BY <1>0, <1>1, <2>2, <2>3, <3>4, <4>1 DEF Roomy
    <3>5. Cardinality(Live') <= maxVisitors + misses'
      BY <1>1, <2>3, <3>2, LimiterAssumption
    <3> QED BY <3>2, <3>3, <3>4, <3>5 DEF Roomy
  <2> QED BY <2>5, <2>6, <2>7, <2>8, <2>11, <2>12 DEF Inv
<1> QED BY <1>2, <1>3

LEMMA NextInv == Inv /\ [Next]_vars => Inv'
<1> SUFFICES ASSUME Inv, [Next]_vars PROVE Inv'
  OBVIOUS
<1>0. Typed
  BY DEF Inv
<1>1. ASSUME NEW ip \in Ips, cleanup(ip) PROVE Inv'
  <2>1. [pc |-> "delete", ip |-> ip] \in Sweeps /\ [pc |-> "delete", ip |-> ip].pc = "delete"
    BY DEF Sweeps
  <2>2. Resting.pc = "resting"
    BY DEF Resting
  <2> QED BY <1>0, <1>1, <2>1, <2>2, AsideInv DEF cleanup, Typed
<1>2. CASE SweepDecrements
  <2>1. Resting \in Sweeps /\ Resting.pc # "decrement"
    BY DEF Sweeps, Resting
  <2> QED BY <1>0, <1>2, <2>1, AsideInv DEF SweepDecrements, Typed
<1>3. CASE Tick
  <2>1. now + 1 \in Times
    BY <1>0, <1>3, LimiterAssumption DEF Tick, Typed, Times
  <2> QED BY <1>0, <1>3, <2>1, AsideInv DEF Tick, Typed
<1>4. CASE UNCHANGED vars
  BY <1>0, <1>4, AsideInv DEF vars, Typed
<1>5. ASSUME NEW r \in Requests, Runs(r) PROVE Inv'
  BY <1>5, VisitInv, VisitStaleInv, EvictOldestInv, LoadAndDeleteInv, DecrementInv,
     RecountInv, ResyncInv, StoreInv, IncrementInv DEF Runs
<1> QED BY <1>1, <1>2, <1>3, <1>4, <1>5, AllowInv, AdmitInv, SweepDeletesInv DEF Next, Sweep

LEMMA Invariance == Spec => []Inv
  BY InitInv, NextInv, PTL DEF Spec

----------------------------------------------------------------------------
(* The theorems. *)

(* Every variable keeps its type, and the counter that Increment and the    *)
(* two decrements of rate_limit.go race on never falls below minus one by   *)
(* more than recounts that missed a decrement took from it.                 *)
THEOREM TypeCorrect == Spec => []TypeOK
<1>1. Inv => TypeOK
  <2> SUFFICES ASSUME Inv PROVE TypeOK
    OBVIOUS
  <2>1. Cardinality(Live) \in Nat /\ numVisitors \in Int /\ misses \in Nat
    BY LiveFinite DEF Inv, Typed
  <2>2. numVisitors >= -1 - misses
    BY <2>1 DEF Inv, Counted, Ahead, Behind, Swept
  <2> QED BY <2>2 DEF Inv, Typed, TypeOK
<1> QED BY <1>1, Invariance, PTL

(* Whatever the interleaving of the requests of an address, of evictions    *)
(* and of the sweep, its entry lets at most maxRequests through in a window *)
(* (rate_limit.go, allow and admitNewVisitor).                              *)
THEOREM LimitAlwaysHolds == Spec => []LimitHolds
<1>1. Inv => LimitHolds
  BY DEF Inv, Charged, LimitHolds
<1> QED BY <1>1, Invariance, PTL

(* The map holds at most maxVisitors entries, and one more for each recount *)
(* that fell between a deletion of the sweep and its decrement              *)
(* (rate_limit.go, admitNewVisitor, resyncVisitorCount and cleanup).        *)
THEOREM CapOverrunIsTheSweeps == Spec => []OverrunIsTheSweeps
<1>1. Inv => OverrunIsTheSweeps
  BY DEF Inv, Roomy, OverrunIsTheSweeps
<1> QED BY <1>1, Invariance, PTL
============================================================================
