----------------------------- MODULE RateLimit -----------------------------
(***************************************************************************)
(* One bucket of the rolling-window rate limiters (provenance/             *)
(* rate_limits.py per user, core/rate_limits.py per session or address):   *)
(* a list of timestamps in the shared cache that each request reads,       *)
(* prunes, extends and writes back, with nothing held in between.          *)
(* Time is a counter; the clock is taken to be monotone, and a request to  *)
(* be through with the cache within the fudge of its time.time().  The     *)
(* code only filters, counts and takes the least of a list: a timestamp in *)
(* it is the number of the request that was let through with it, and the   *)
(* list the set of them, so that equal timestamps still count apart.       *)
(***************************************************************************)
EXTENDS Naturals, Sequences, FiniteSets

CONSTANTS
    Workers,        \* requests of one user served at the same time
    Limit, Window,  \* of the RateLimitSpec
    Fudge,          \* _CACHE_TTL_FUDGE_SECONDS
    Culling,        \* whether the cache directory may overflow and drop entries
    MaxTime,        \* bound: the clock
    MaxGrants       \* bound: requests let through

LimitAssumption ==
    Limit \in Nat \ {0} /\ Window \in Nat \ {0} /\ Fudge \in Nat /\ MaxTime \in Nat

VARIABLES
    now,
    entry,          \* the cached list and when it expires
    workers,
    granted,        \* auxiliary: times of the requests let through; kept: no other
                    \*   request overlapped it and the cache was not culled since
    promise         \* auxiliary: the last Retry-After of a request that no other
                    \*   overlapped, and the grants before it

vars == <<now, entry, workers, granted, promise>>

Absent == [times |-> {}, expires |-> 0]

NoPromise == [at |-> MaxTime + 1, grants |-> 0]

Asleep == [pc |-> "idle", at |-> 0, seen |-> {}, alone |-> FALSE]

TypeOK ==
    /\ now \in 0 .. MaxTime
    /\ granted \in Seq([at : Nat, kept : BOOLEAN])
    /\ \A i \in DOMAIN granted : granted[i].at <= now
    /\ entry \in [times : SUBSET DOMAIN granted, expires : Nat]
    /\ Cardinality(entry.times) <= Limit
    /\ workers \in [Workers -> [pc : {"idle", "get", "set"}, at : Nat,
                                seen : SUBSET DOMAIN granted, alone : BOOLEAN]]
    /\ \A w \in Workers : workers[w].at <= now /\ Cardinality(workers[w].seen) <= Limit
    /\ promise \in [at : Nat, grants : 0 .. Len(granted)]

Init ==
    /\ now = 0
    /\ entry = Absent
    /\ workers = [w \in Workers |-> Asleep]
    /\ granted = << >>
    /\ promise = NoPromise

-----------------------------------------------------------------------------
Tick ==
    /\ now < MaxTime
    /\ \A w \in Workers : workers[w].pc # "idle" => now - workers[w].at < Fudge
    /\ now' = now + 1
    /\ UNCHANGED <<entry, workers, granted, promise>>

\* A request of a rate_limited view, before the view runs: check_and_record,
\* or _consume, takes the time before it reads the list
Arrive(w) ==
    /\ workers[w].pc = "idle"
    /\ Len(granted) + Cardinality({o \in Workers : workers[o].pc # "idle"}) < MaxGrants
    /\ workers' = [o \in Workers |->
          IF o = w
          THEN [pc |-> "get", at |-> now, seen |-> {},
                alone |-> \A v \in Workers : workers[v].pc = "idle"]
          ELSE [workers[o] EXCEPT !.alone = FALSE]]
    /\ UNCHANGED <<now, entry, granted, promise>>

Get(w) ==
    /\ workers[w].pc = "get"
    /\ workers' = [workers EXCEPT
          ![w] = [@ EXCEPT !.pc = "set",
                           !.seen = IF now < entry.expires THEN entry.times ELSE {}]]
    /\ UNCHANGED <<now, entry, granted, promise>>

\* Mutant: a timestamp at the cutoff still counts
PrunedLate(w) ==
    {i \in workers[w].seen : granted[i].at + Window >= workers[w].at}

\* The timestamps after the cutoff
Pruned(w) ==
    {i \in workers[w].seen : granted[i].at + Window > workers[w].at}

\* Mutant: an entry lives half a window
StoredShort(times) == [times |-> times, expires |-> now + Window \div 2]

Stored(times) == [times |-> times, expires |-> now + Window + Fudge]

Oldest(times) ==
    LET ats == {granted[i].at : i \in times} IN CHOOSE t \in ats : \A u \in ats : t <= u

PromiseAfter(w) ==
    IF workers[w].alone
    THEN [at |-> Oldest(Pruned(w)) + Window, grants |-> Len(granted)] ELSE promise

Full(w) == Cardinality(Pruned(w)) >= Limit

Grant(w) ==
    /\ workers[w].pc = "set"
    /\ ~ Full(w)
    /\ entry' = Stored(Pruned(w) \cup {Len(granted) + 1})
    /\ granted' = Append(granted, [at |-> workers[w].at, kept |-> workers[w].alone])
    /\ workers' = [workers EXCEPT ![w] = Asleep]
    /\ UNCHANGED <<now, promise>>

\* 429 with Retry-After; the pruned list is written back
Refuse(w) ==
    /\ workers[w].pc = "set"
    /\ Full(w)
    /\ entry' = Stored(Pruned(w))
    /\ promise' = PromiseAfter(w)
    /\ workers' = [workers EXCEPT ![w] = Asleep]
    /\ UNCHANGED <<now, granted>>

\* FileBasedCache deletes entries at random when its directory is full
Cull ==
    /\ Culling
    /\ entry # Absent
    /\ entry' = Absent
    /\ granted' = [i \in DOMAIN granted |-> [granted[i] EXCEPT !.kept = FALSE]]
    /\ UNCHANGED <<now, workers, promise>>

Next ==
    \/ Tick
    \/ \E w \in Workers : Arrive(w) \/ Get(w) \/ Grant(w) \/ Refuse(w)
    \/ Cull

Spec == Init /\ [][Next]_vars

-----------------------------------------------------------------------------
\* The kept grants in the window that ends at t
KeptIn(t) ==
    {i \in DOMAIN granted : granted[i].kept /\ granted[i].at <= t /\ granted[i].at + Window > t}

\* "a burst of creates is capped in aggregate" (provenance/rate_limits.py): no
\* window holds more than Limit grants, not counting those another request
\* overlapped or the cache dropped, whatever overlapped requests write between.
AtMostLimit == \A t \in 0 .. MaxTime : Cardinality(KeptIn(t)) <= Limit

\* Nobody is refused unless Limit requests were let through after their cutoff,
\* however requests overlap and whatever the cache drops.
RefusalsAreEarned ==
    [][\A w \in Workers : Refuse(w) =>
          Cardinality({i \in DOMAIN granted : granted[i].at + Window > workers[w].at}) >= Limit]_vars

\* "429 refusals do NOT consume a slot" (provenance/rate_limits.py): whoever
\* comes back when the Retry-After of an unoverlapped request said, and nobody was let through
\* since, gets in.
RetryAfterIsHonoured ==
    [][\A w \in Workers : Refuse(w) =>
          workers[w].at < promise.at \/ promise.grants # Len(granted)]_vars
=============================================================================
