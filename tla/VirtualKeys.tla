----------------------------- MODULE VirtualKeys -----------------------------
(***************************************************************************)
(* Virtual keys at the proxy: authentication through a Redis cache in      *)
(* front of PostgreSQL, the fixed-window rate limit, the allowlists and    *)
(* the budget, while administrators create, revoke and delete keys.        *)
(*                                                                         *)
(* Time is a tick: the cache entry of a key and its rate counter carry the *)
(* number of ticks Redis still keeps them.  A request runs the proxy's     *)
(* checks one call at a time and is then forwarded; the same request slot  *)
(* is used again and again, so requests never run out.                     *)
(*                                                                         *)
(* since and log are history: the code has no such variables.              *)
(***************************************************************************)
EXTENDS Naturals, FiniteSets

CONSTANTS
    Key,        \* virtual keys
    Request,    \* requests in flight at once
    None,       \* no key
    Rpm,        \* rate_limit_rpm of a key, 0 for unlimited
    Budget,     \* budget_cents of a key, 0 for unlimited
    Window,     \* ticks the rate counter lives: 60 seconds
    CacheTtl,   \* ticks a cached key lives: 10 minutes
    Faults      \* the services whose calls may fail

ASSUME KeysAssumption ==
    /\ None \notin Key
    /\ Rpm \in [Key -> Nat]
    /\ Budget \in [Key -> Nat]
    /\ Window \in Nat \ {0}
    /\ CacheTtl \in Nat \ {0}
    /\ Faults \subseteq {"store", "redis"}

VARIABLES
    row,      \* the status of a key's row; absent before and after it exists
    spent,    \* spent_cents
    usage,    \* rows of the usage table with the key, counted up to its budget
    cached,   \* ticks the entry vkey:<hash> still lives, 0 for no entry
    rate,     \* the counter rl:<id>: its value and the ticks it still lives
    pc,       \* the next call of a request
    key,      \* the key a request presents
    since,    \* ticks since the row, or a copy being cached, was active
    log       \* requests the limit let through, by how many ticks ago

admin    == <<row, spent, usage>>
redis    == <<cached, rate>>
requests == <<pc, key>>
history  == <<since, log>>
vars     == <<admin, redis, requests, history>>

-----------------------------------------------------------------------------

Points == {"idle", "lookup", "select", "warm", "limit", "budget", "forward"}

AdminType   == /\ row \in [Key -> {"absent", "active", "revoked", "deleted"}]
               /\ spent \in [Key -> Nat]
               /\ usage \in [Key -> Nat]
RedisType   == /\ cached \in [Key -> 0 .. CacheTtl]
               /\ rate \in [Key -> [n : Nat, left : 0 .. Window]]
RequestType == /\ pc \in [Request -> Points]
               /\ key \in [Request -> Key \union {None}]
               /\ \A q \in Request : pc[q] # "idle" => key[q] \in Key
HistoryType == /\ since \in [Key -> 0 .. CacheTtl]
               /\ log \in [Key -> [0 .. Window - 1 -> Nat]]

\* Every variable holds a value of the type the code gives it, and a request
\* under way presents a key.
TypeOK == AdminType /\ RedisType /\ RequestType /\ HistoryType

Init ==
    /\ row = [k \in Key |-> "absent"]
    /\ spent = [k \in Key |-> 0]
    /\ usage = [k \in Key |-> 0]
    /\ cached = [k \in Key |-> 0]
    /\ rate = [k \in Key |-> [n |-> 0, left |-> 0]]
    /\ pc = [q \in Request |-> "idle"]
    /\ key = [q \in Request |-> None]
    /\ since = [k \in Key |-> 0]
    /\ log = [k \in Key |-> [i \in 0 .. Window - 1 |-> 0]]

-----------------------------------------------------------------------------
(* Administration: nothing here touches the cache *)

CreateKey(k) ==
    /\ row[k] = "absent"
    /\ row' = [row EXCEPT ![k] = "active"]
    /\ UNCHANGED <<spent, usage, redis, requests, history>>

RevokeKey(k) ==
    /\ row[k] \in {"active", "revoked"}
    /\ row' = [row EXCEPT ![k] = "revoked"]
    /\ UNCHANGED <<spent, usage, redis, requests, history>>

\* The key's usage rows go with it (ON DELETE CASCADE).
DeleteKey(k) ==
    /\ row[k] \in {"active", "revoked"}
    /\ row' = [row EXCEPT ![k] = "deleted"]
    /\ usage' = [usage EXCEPT ![k] = 0]
    /\ UNCHANGED <<spent, redis, requests, history>>

-----------------------------------------------------------------------------
(* A request *)

At(q, l) == pc[q] = l

\* Move to point l; a request that has been answered frees its slot.
Goto(q, l) ==
    /\ pc' = [pc EXCEPT ![q] = l]
    /\ IF l = "idle" THEN key' = [key EXCEPT ![q] = None] ELSE UNCHANGED key

Arrive(q, k) ==
    /\ At(q, "idle")
    /\ row[k] # "absent"
    /\ pc' = [pc EXCEPT ![q] = "lookup"]
    /\ key' = [key EXCEPT ![q] = k]
    /\ UNCHANGED <<admin, redis, history>>

\* AllowRouter follows authentication and precedes the rate limit: a request for
\* a router the key does not allow is refused uncounted.
Authenticated(q) == Goto(q, "limit") \/ Goto(q, "idle")

\* (mutant) A hit renews the entry.
LookupSliding(q) ==
    /\ At(q, "lookup")
    /\ \/ cached[key[q]] > 0 /\ Authenticated(q)
       \/ cached[key[q]] = 0 /\ Goto(q, "select")
    /\ cached' = [cached EXCEPT ![key[q]] = IF @ > 0 THEN CacheTtl ELSE 0]
    /\ UNCHANGED <<admin, rate, history>>

\* A cached key is accepted as it was when it was cached: active.
Lookup(q) ==
    /\ At(q, "lookup")
    /\ \/ cached[key[q]] > 0 /\ Authenticated(q)
       \/ cached[key[q]] = 0 /\ Goto(q, "select")
       \/ "redis" \in Faults /\ Goto(q, "idle")
    /\ UNCHANGED <<admin, redis, history>>

\* The cold path reads active rows only.
Select(q) ==
    /\ At(q, "select")
    /\ \/ row[key[q]] = "active" /\ Goto(q, "warm")
       \/ /\ row[key[q]] # "active" \/ "store" \in Faults
          /\ Goto(q, "idle")
    /\ UNCHANGED <<admin, redis, history>>

\* The entry is written after the row was read, and the error is ignored.
Warm(q) ==
    /\ At(q, "warm")
    /\ \/ cached' = [cached EXCEPT ![key[q]] = CacheTtl]
       \/ "redis" \in Faults /\ UNCHANGED cached
    /\ Authenticated(q)
    /\ UNCHANGED <<admin, rate, history>>

\* The Lua script: INCR, and EXPIRE for the first request of a window.  Values
\* beyond the first refused one are not told apart.
IncrRate(k) ==
    rate' = [rate EXCEPT ![k] =
                [n |-> IF @.n > Rpm[k] THEN @.n ELSE @.n + 1,
                 left |-> IF @.n = 0 THEN Window ELSE @.left]]

\* (mutant) Every request renews the window.
IncrRateRenewing(q) ==
    /\ At(q, "limit")
    /\ LET k == key[q] IN
       /\ rate' = [rate EXCEPT ![k].n = IF @ > Rpm[k] THEN @ ELSE @ + 1,
                               ![k].left = Window]
       /\ IF rate[k].n < Rpm[k] THEN log' = [log EXCEPT ![k][0] = @ + 1]
                                ELSE UNCHANGED log
       /\ Goto(q, IF rate[k].n < Rpm[k] THEN "budget" ELSE "idle")
    /\ UNCHANGED <<admin, cached, since>>

\* (mutant) The counter is compared before it is incremented.
CheckRateBefore(q) ==
    /\ At(q, "limit")
    /\ LET k == key[q] IN
       /\ IncrRate(k)
       /\ IF rate[k].n <= Rpm[k] THEN log' = [log EXCEPT ![k][0] = @ + 1]
                                 ELSE UNCHANGED log
       /\ Goto(q, IF rate[k].n <= Rpm[k] THEN "budget" ELSE "idle")
    /\ UNCHANGED <<admin, cached, since>>

\* A refused request counts too; an error refuses the request, whether the
\* script has run or not.
CheckRate(q) ==
    /\ At(q, "limit")
    /\ LET k == key[q] IN
       \/ /\ Rpm[k] = 0
          /\ Goto(q, "budget")
          /\ UNCHANGED <<rate, log>>
       \/ /\ Rpm[k] > 0 /\ rate[k].n < Rpm[k]
          /\ IncrRate(k)
          /\ log' = [log EXCEPT ![k][0] = @ + 1]
          /\ Goto(q, "budget")
       \/ /\ Rpm[k] > 0
          /\ rate[k].n >= Rpm[k] \/ "redis" \in Faults
          /\ IncrRate(k)
          /\ Goto(q, "idle")
          /\ UNCHANGED log
       \/ /\ Rpm[k] > 0 /\ "redis" \in Faults
          /\ Goto(q, "idle")
          /\ UNCHANGED <<rate, log>>
    /\ UNCHANGED <<admin, cached, since>>

\* The row's budget is used up; without the row there is nothing to compare.
Exhausted(k) == Budget[k] > 0 /\ row[k] # "deleted" /\ spent[k] >= Budget[k]

\* AllowModel may refuse the model; then CheckBudget, whose error lets the
\* request through.
CheckBudget(q) ==
    /\ At(q, "budget")
    /\ \/ Goto(q, "idle")
       \/ /\ ~Exhausted(key[q]) \/ "store" \in Faults
          /\ Goto(q, "forward")
    /\ UNCHANGED <<admin, redis, history>>

\* computed "from per-model pricing table" one day
CostCents == 0

\* The answer is out and recordUsage runs.  Nothing is recorded of a request that
\* failed, names no model or got a page, nor of a key whose row is gone.
RecordUsage(q) ==
    /\ At(q, "forward")
    /\ LET k == key[q] IN
       \/ /\ row[k] # "deleted"
          /\ usage' = [usage EXCEPT ![k] = IF @ < Budget[k] THEN @ + 1 ELSE @]
          /\ spent' = [spent EXCEPT ![k] = @ + CostCents]  \* IncrSpentCents
       \/ UNCHANGED <<usage, spent>>
    /\ Goto(q, "idle")
    /\ UNCHANGED <<row, redis, history>>

-----------------------------------------------------------------------------
(* Time *)

\* The key is active, or a request holds a copy of it that it will cache.
Current(k) == \/ row[k] \in {"absent", "active"}
              \/ \E q \in Request : At(q, "warm") /\ key[q] = k

Younger(k) == IF Current(k) THEN 0
              ELSE IF since[k] < CacheTtl THEN since[k] + 1 ELSE CacheTtl
Shifted(k) == [i \in 0 .. Window - 1 |-> IF i = 0 THEN 0 ELSE log[k][i - 1]]

\* (mutant) A counter counts its last tick down without being dropped.
TickLate ==
    /\ cached' = [k \in Key |-> IF cached[k] > 0 THEN cached[k] - 1 ELSE 0]
    /\ rate' = [k \in Key |-> IF rate[k].n = 0 THEN rate[k]
                              ELSE [rate[k] EXCEPT !.left = @ - 1]]
    /\ since' = [k \in Key |-> Younger(k)]
    /\ log' = [k \in Key |-> Shifted(k)]
    /\ UNCHANGED <<admin, requests>>

\* Redis drops what has expired.
Tick ==
    /\ cached' = [k \in Key |-> IF cached[k] > 0 THEN cached[k] - 1 ELSE 0]
    /\ rate' = [k \in Key |-> IF rate[k].left <= 1 THEN [n |-> 0, left |-> 0]
                              ELSE [rate[k] EXCEPT !.left = @ - 1]]
    /\ since' = [k \in Key |-> Younger(k)]
    /\ log' = [k \in Key |-> Shifted(k)]
    /\ UNCHANGED <<admin, requests>>

-----------------------------------------------------------------------------
(* The specification *)

Administration(k) == CreateKey(k) \/ RevokeKey(k) \/ DeleteKey(k)

Check(q) == Lookup(q) \/ Select(q) \/ Warm(q) \/ CheckRate(q) \/ CheckBudget(q)

Next ==
    \/ \E k \in Key : Administration(k)
    \/ \E q \in Request, k \in Key : Arrive(q, k)
    \/ \E q \in Request : Check(q) \/ RecordUsage(q)
    \/ Tick

Spec == Init /\ [][Next]_vars

\* Time passes, and a check is one database or Redis call, which returns; the
\* forwarded request itself may stream for ever.
FairSpec == Spec /\ WF_vars(Tick) /\ \A q \in Request : WF_vars(Check(q))

-----------------------------------------------------------------------------
(* Properties *)

\* f[0] + ... + f[n - 1]
SumUpTo(f, n) == LET sum[i \in Nat] == IF i = 0 THEN 0 ELSE sum[i - 1] + f[i - 1]
                 IN  sum[n]

Recent(k) == SumUpTo(log[k], Window)

\* A limited key gets at most twice its rate through in any 60 seconds, the
\* bound a fixed window gives, however requests, refusals, expiries and lost
\* replies interleave (Auth.CheckRate, Cache.IncrRate).
RateBounded == \A k \in Key : Rpm[k] > 0 => Recent(k) <= 2 * Rpm[k]

\* No cache entry outlives by more than its lifetime the moment its key was last
\* active, or last held by a request about to cache it: a revoked or deleted key
\* is accepted for ten minutes at most, hits included (Auth.Authenticate).
RevokedExpires == \A k \in Key : since[k] = CacheTtl => cached[k] = 0

\* A key that is revoked or deleted (for good: nothing reactivates it) is in the
\* end never accepted again, although nothing removes its cache entry and requests
\* keep coming.
RevokedStaysOut ==
    \A k \in Key :
        <>[](row[k] \in {"revoked", "deleted"} =>
                \A q \in Request : ~(At(q, "limit") /\ key[q] = k))

\* No key is refused by the limit for ever: the counter always has an expiry, and
\* requests that are refused do not put it off.
LimitIsTemporary == \A k \in Key : []<>(rate[k].n <= Rpm[k])

==============================================================================
