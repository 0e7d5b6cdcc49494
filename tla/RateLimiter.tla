---------------------------- MODULE RateLimiter ----------------------------
(* The per-address rate limiter (middleware/rate_limit.go): a lock-free map  *)
(* of visitors, a counter of its entries, a mutex that only the admission of *)
(* a never-seen address takes, and a sweep that takes no lock at all.        *)
(*                                                                           *)
(* A step is one operation on the map, the counter, the mutex or a visitor   *)
(* (whose own mutex makes its test and its update one).  A request keeps the *)
(* visitor it loaded although the map may have dropped it since; what such a *)
(* visitor still counts is nobody's, and is not kept.                        *)
EXTENDS Integers, FiniteSets

CONSTANTS
    Ips,              \* client addresses
    Requests,         \* goroutines that serve a request
    Nobody,           \* no request
    maxRequests,      \* allowed to an address in a window
    maxVisitors,      \* the cap on the map
    evictSampleSize,  \* entries an eviction looks at
    window,           \* length of a window
    MaxTime           \* bound: the last instant

ASSUME LimiterAssumption ==
    /\ Nobody \notin Requests
    /\ maxRequests \in Nat \ {0} /\ maxVisitors \in Nat \ {0}
    /\ evictSampleSize \in Nat \ {0} /\ window \in Nat \ {0}
    /\ MaxTime \in Nat
    /\ IsFiniteSet(Ips)

VARIABLES
    visitors,     \* the map: count and windowAt of an address's visitor
    numVisitors,  \* the counter of its entries
    admit,        \* the holder of the mutex
    req,          \* where a request is in allow
    sweep,        \* where the sweep is
    now,          \* the clock
    granted,      \* history: requests let through by an address's entry in
                  \* its present window
    misses        \* history: recounts made between the deletion of an entry
                  \* by the sweep and its decrement

vars == <<visitors, numVisitors, admit, req, sweep, now, granted, misses>>

Idle == [pc |-> "idle"]
Resting == [pc |-> "resting"]
Times == 0..MaxTime
None == [count |-> 0, windowAt |-> 0]
Live == {ip \in Ips : visitors[ip] # None}

Reqs == {Idle}
    \cup [pc : {"visit", "stale", "admit", "room", "evicted", "recount", "store", "count"}, ip : Ips, at : Times]
    \cup [pc : {"evict"}, ip : Ips, at : Times, victim : Ips]
    \cup [pc : {"resync"}, ip : Ips, at : Times, live : Nat]
Sweeps == {Resting, [pc |-> "decrement"]} \cup [pc : {"delete"}, ip : Ips]

(* Every variable holds a value of the field or the local it models.  The    *)
(* counter may be below zero for a moment: an entry can be swept before the  *)
(* admission that stored it has counted it.                                  *)
TypeOK ==
    /\ visitors \in [Ips -> [count : 0..maxRequests + 1, windowAt : Times]]
    /\ numVisitors \in Int /\ numVisitors >= -1 - misses
    /\ admit \in Requests \cup {Nobody}
    /\ req \in [Requests -> Reqs]
    /\ sweep \in Sweeps
    /\ now \in Times
    /\ granted \in [Ips -> Nat]
    /\ misses \in Nat

Init ==
    /\ visitors = [ip \in Ips |-> None]
    /\ numVisitors = 0
    /\ admit = Nobody
    /\ req = [r \in Requests |-> Idle]
    /\ sweep = Resting
    /\ now = 0
    /\ granted = [ip \in Ips |-> 0]
    /\ misses = 0

-----------------------------------------------------------------------------
(* A request. *)

Goes(r, to) == req' = [req EXCEPT ![r] = to]
Now(r, pc) == [pc |-> pc, ip |-> req[r].ip, at |-> req[r].at]

(* allow: the time is taken and the address looked up without a lock. *)
allow(r, ip) ==
    /\ req[r] = Idle
    /\ Goes(r, [pc |-> IF ip \in Live THEN "visit" ELSE "admit", ip |-> ip, at |-> now])
    /\ UNCHANGED <<visitors, numVisitors, admit, sweep, now, granted, misses>>

(* The end of allow, under the visitor's own mutex: a new window, or one     *)
(* more request in this one.  Counts past the limit are all the same.        *)
Visit(r) ==
    /\ req[r].pc = "visit"
    /\ LET ip == req[r].ip
           v == visitors[ip]
           fresh == req[r].at > v.windowAt + window
       IN  IF fresh
           THEN /\ visitors' = [visitors EXCEPT ![ip] = [count |-> 1, windowAt |-> req[r].at]]
                /\ granted' = [granted EXCEPT ![ip] = 1]
           ELSE /\ visitors' = [visitors EXCEPT ![ip].count = IF v.count <= maxRequests
                                                              THEN @ + 1 ELSE @]
                /\ granted' = [granted EXCEPT ![ip] = IF v.count < maxRequests THEN @ + 1 ELSE @]
    /\ Goes(r, Idle)
    /\ UNCHANGED <<numVisitors, admit, sweep, now, misses>>

(* The same, with a visitor that is no longer in the map. *)
VisitStale(r) ==
    /\ req[r].pc = "stale"
    /\ Goes(r, Idle)
    /\ UNCHANGED <<visitors, numVisitors, admit, sweep, now, granted, misses>>

(* Mutant: the address is not looked up again under the mutex. *)
TrustsTheFirstLoad(ip) == FALSE
Admitted(ip) == ip \in Live

(* Mutant: the early return leaves the mutex locked. *)
KeepsTheLock(r) ==
    /\ req[r].pc = "admit" /\ admit = Nobody
    /\ admit' = r
    /\ Goes(r, IF Admitted(req[r].ip) THEN Now(r, "visit") ELSE Now(r, "room"))
    /\ UNCHANGED <<visitors, numVisitors, sweep, now, granted, misses>>

(* The mutex is taken and the address looked up again; if another request    *)
(* admitted it, the mutex is released.                                       *)
admitNewVisitor(r) ==
    /\ req[r].pc = "admit" /\ admit = Nobody
    /\ admit' = IF Admitted(req[r].ip) THEN Nobody ELSE r
    /\ Goes(r, IF Admitted(req[r].ip) THEN Now(r, "visit") ELSE Now(r, "room"))
    /\ UNCHANGED <<visitors, numVisitors, sweep, now, granted, misses>>

(* The oldest of some sample of the map. *)
Oldest ==
    {ip \in Live :
        \E S \in SUBSET Live :
            /\ ip \in S
            /\ Cardinality(S) <= evictSampleSize
            /\ Cardinality(S) < evictSampleSize => S = Live
            /\ \A other \in S : visitors[ip].windowAt <= visitors[other].windowAt}

(* The loop of the admission: there is room, or one entry is to go; an empty *)
(* map has none to give.                                                     *)
evictOldestSample(r) ==
    /\ req[r].pc = "room"
    /\ \/ numVisitors < maxVisitors /\ Goes(r, Now(r, "store"))
       \/ /\ numVisitors >= maxVisitors
          /\ \/ Live = {} /\ Goes(r, Now(r, "recount"))
             \/ \E ip \in Oldest :
                  Goes(r, [pc |-> "evict", ip |-> req[r].ip, at |-> req[r].at, victim |-> ip])
    /\ UNCHANGED <<visitors, numVisitors, admit, sweep, now, granted, misses>>

(* The requests as they are once the map has another visitor for an address, *)
(* or none.                                                                  *)
Stale(ip) ==
    [q \in Requests |-> IF req[q].pc = "visit" /\ req[q].ip = ip
                         THEN [req[q] EXCEPT !.pc = "stale"] ELSE req[q]]

Dropped(ip) ==
    /\ visitors' = [visitors EXCEPT ![ip] = None]
    /\ granted' = [granted EXCEPT ![ip] = 0]

(* LoadAndDelete reports whether this call deleted the entry. *)
LoadAndDelete(r) ==
    /\ req[r].pc = "evict"
    /\ IF req[r].victim \in Live
       THEN /\ Dropped(req[r].victim)
            /\ req' = [Stale(req[r].victim) EXCEPT ![r] = Now(r, "evicted")]
       ELSE Goes(r, Now(r, "recount")) /\ UNCHANGED <<visitors, granted>>
    /\ UNCHANGED <<numVisitors, admit, sweep, now, misses>>

(* Mutant: the eviction and the loop that called it each count the entry. *)
DecrementsTwice(r) ==
    /\ req[r].pc = "evicted"
    /\ numVisitors' = numVisitors - 2
    /\ Goes(r, Now(r, "room"))
    /\ UNCHANGED <<visitors, admit, sweep, now, granted, misses>>

Decrement(r) ==
    /\ req[r].pc = "evicted"
    /\ numVisitors' = numVisitors - 1
    /\ Goes(r, Now(r, "room"))
    /\ UNCHANGED <<visitors, admit, sweep, now, granted, misses>>

(* Nothing could be freed: the entries are counted ...                       *)
Recount(r) ==
    /\ req[r].pc = "recount"
    /\ Goes(r, [pc |-> "resync", ip |-> req[r].ip, at |-> req[r].at, live |-> Cardinality(Live)])
    /\ misses' = IF sweep.pc = "decrement" THEN misses + 1 ELSE misses
    /\ UNCHANGED <<visitors, numVisitors, admit, sweep, now, granted>>

(* ... and the count is believed, and the loop left.                         *)
resyncVisitorCount(r) ==
    /\ req[r].pc = "resync"
    /\ numVisitors' = req[r].live
    /\ Goes(r, Now(r, "store"))
    /\ UNCHANGED <<visitors, admit, sweep, now, granted, misses>>

(* A new visitor, whose first request is let through. *)
Store(r) ==
    /\ req[r].pc = "store"
    /\ LET ip == req[r].ip
       IN  /\ visitors' = [visitors EXCEPT ![ip] = [count |-> 1, windowAt |-> req[r].at]]
           /\ granted' = [granted EXCEPT ![ip] = @ + 1]
           /\ req' = [Stale(ip) EXCEPT ![r] = Now(r, "count")]
    /\ UNCHANGED <<numVisitors, admit, sweep, now, misses>>

(* The counter, and the deferred unlock. *)
Increment(r) ==
    /\ req[r].pc = "count"
    /\ numVisitors' = numVisitors + 1
    /\ admit' = Nobody
    /\ Goes(r, Idle)
    /\ UNCHANGED <<visitors, sweep, now, granted, misses>>

-----------------------------------------------------------------------------
(* The sweep: tests an entry under its mutex, then deletes it by its key. *)

cleanup(ip) ==
    /\ sweep = Resting
    /\ ip \in Live
    /\ now > visitors[ip].windowAt + 2 * window
    /\ sweep' = [pc |-> "delete", ip |-> ip]
    /\ UNCHANGED <<visitors, numVisitors, admit, req, now, granted, misses>>

(* LoadAndDelete again: only the entry this call deleted is counted. *)
SweepDeletes ==
    /\ sweep.pc = "delete"
    /\ IF sweep.ip \in Live
       THEN /\ Dropped(sweep.ip)
            /\ req' = Stale(sweep.ip)
            /\ sweep' = [pc |-> "decrement"]
       ELSE sweep' = Resting /\ UNCHANGED <<visitors, req, granted>>
    /\ UNCHANGED <<numVisitors, admit, now, misses>>

SweepDecrements ==
    /\ sweep.pc = "decrement"
    /\ numVisitors' = numVisitors - 1
    /\ sweep' = Resting
    /\ UNCHANGED <<visitors, admit, req, now, granted, misses>>

Tick ==
    /\ now < MaxTime
    /\ now' = now + 1
    /\ UNCHANGED <<visitors, numVisitors, admit, req, sweep, granted, misses>>

-----------------------------------------------------------------------------
Runs(r) ==
    \/ Visit(r) \/ VisitStale(r) \/ evictOldestSample(r) \/ LoadAndDelete(r) \/ Decrement(r)
    \/ Recount(r) \/ resyncVisitorCount(r) \/ Store(r) \/ Increment(r)

Sweep == (\E ip \in Ips : cleanup(ip)) \/ SweepDeletes \/ SweepDecrements

Next ==
    \/ \E r \in Requests : (\E ip \in Ips : allow(r, ip)) \/ admitNewVisitor(r) \/ Runs(r)
    \/ Sweep
    \/ Tick

Spec == Init /\ [][Next]_vars

(* A goroutine that can run does, and a mutex hands itself to whoever waits  *)
(* for long: sync.Mutex has a starvation mode.  Clients need not come.       *)
FairSpec ==
    /\ Spec
    /\ \A r \in Requests : WF_vars(Runs(r)) /\ SF_vars(admitNewVisitor(r))
    /\ WF_vars(SweepDeletes \/ SweepDecrements)

-----------------------------------------------------------------------------
(* Properties. *)

(* However the requests of an address interleave, its first ones included,   *)
(* its entry lets at most maxRequests through in a window: nobody's count is *)
(* lost while the entry is in the map (rate_limit.go, admitNewVisitor).      *)
LimitHolds == \A ip \in Ips : granted[ip] <= maxRequests

(* The map outgrows its cap only by what the sweep's late decrements took    *)
(* from a counter that had just been recounted: admission itself, with its   *)
(* evictions that may find nothing to evict, never overruns it               *)
(* (rate_limit.go, admitNewVisitor).                                         *)
OverrunIsTheSweeps == Cardinality(Live) <= maxVisitors + misses

(* A request is answered: the eviction loop ends, and the mutex that it is   *)
(* waiting for is released (rate_limit.go, admitNewVisitor).                 *)
Answered == \A r \in Requests : req[r] # Idle ~> req[r] = Idle

-----------------------------------------------------------------------------
(* What the repository says and the code does not keep; no run checks it.    *)

(* "maxVisitors hard-caps the number of distinct IPs a RateLimiter tracks at *)
(* once" (rate_limit.go).                                                    *)
HardCap == Cardinality(Live) <= maxVisitors

=============================================================================
