----------------------------- MODULE RateLimit -----------------------------
(***************************************************************************)
(* The two global guards every request passes, in this order: AuthGuard     *)
(* (src/auth/auth.guard.ts) looks the application up in ScyllaDB, then      *)
(* ApiThrottlerGuard (src/auth/ratelimit.guard.ts) counts the request in    *)
(* Redis with one Lua script (throttler-storage-redis.service.ts).          *)
(*                                                                          *)
(* The limit and the interval belong to an application; the counter belongs *)
(* to a user.  Any number of API processes serve requests concurrently; the *)
(* script runs atomically in Redis, and everything around it interleaves.   *)
(*                                                                          *)
(* Time advances by Tick in units of the clock Redis expires keys with.  A  *)
(* key keeps existing while its remaining life is 0 and is gone one unit    *)
(* later, as PTTL and the expiry test of Redis count milliseconds.          *)
(***************************************************************************)
EXTENDS Integers, FiniteSets, Functions

CONSTANTS
  User,         \* values of the header x-api-key
  App,          \* application ids, the first segment of the path
  Request,      \* requests in flight, each slot is used again
  Idle,         \* a slot without a request
  Revocable,    \* applications the dashboard may switch off
  Owner,        \* the ownerships considered, each in [App -> User]
  Rate,         \* the rate limits considered: [limits, interval]
  NoRate,       \* an application without a rate limit of its own
  DefaultRate,  \* THROTTLE_LIMIT and THROTTLE_INTERVAL
  MaxHits,      \* bound: the counter of the model stops here
  MaxResend,    \* bound: how often the Redis client repeats a command
  Horizon       \* bound: how far back the history of admissions reaches

RateType == [limits : Nat, interval : Nat \ {0}]

ASSUME RateAssumption ==
  /\ Rate \cup {DefaultRate} \subseteq RateType
  /\ NoRate \notin Rate

ASSUME OwnerAssumption == Owner \subseteq [App -> User] /\ Revocable \subseteq App

(* No decision tells counts above every limit apart.                        *)
ASSUME BoundAssumption ==
  /\ MaxHits \in Nat /\ MaxResend \in Nat /\ Horizon \in Nat \ {0}
  /\ \A r \in Rate \cup {DefaultRate} : r.limits < MaxHits

VARIABLES
  owner,    \* [App -> User]: applications of ScyllaDB, user_id
  rate,     \* [App -> Rate or NoRate]: applications of ScyllaDB, rate_limit
  active,   \* [App -> BOOLEAN]: applications of ScyllaDB, active
  req,      \* [Request -> RequestState or Idle]
  hits,     \* [User -> 0 .. MaxHits]: the Redis counter, 0 when there is no key
  ttl,      \* [User -> Int]: its remaining life, -1 when it has none
  grants,   \* history: per user, the counts let through in the key's life -> App
  recent,   \* history: [App -> [age -> Nat]], when requests were let through,
            \* kept until Redis loses a counter
  lost      \* history: Redis has lost a counter

vars == <<owner, rate, active, req, hits, ttl, grants, recent, lost>>

Age == 0 .. Horizon - 1

(* A request waits for ScyllaDB ("auth"), for the script to run ("count"),  *)
(* or for the script's result to arrive ("counted").                        *)
RequestState == [st : {"auth", "count", "counted"}, user : User, app : App,
                 resent : 0 .. MaxResend]

ASSUME IdleAssumption == Idle \notin RequestState

(* Every variable has its type; a counter's grants are among its counts.    *)
TypeOK ==
  /\ owner \in [App -> User]
  /\ rate \in [App -> Rate \cup {NoRate}]
  /\ active \in [App -> BOOLEAN]
  /\ req \in [Request -> RequestState \cup {Idle}]
  /\ hits \in [User -> 0 .. MaxHits]
  /\ ttl \in [User -> Nat \cup {-1}]
  /\ DOMAIN grants = User
  /\ \A u \in User : /\ DOMAIN grants[u] \subseteq 1 .. hits[u]
                     /\ grants[u] \in [DOMAIN grants[u] -> App]
  /\ recent \in [App -> [Age -> Nat]]
  /\ lost \in BOOLEAN

-----------------------------------------------------------------------------

(* rateLimit || the default of the throttler module.                        *)
RateOf(a) == IF rate[a] = NoRate THEN DefaultRate ELSE rate[a]
Limit(a) == RateOf(a).limits
Interval(a) == RateOf(a).interval

AppsOf(u) == {a \in App : owner[a] = u}

NoGrants == [n \in {} |-> CHOOSE a \in App : TRUE]

NoneRecent == [a \in App |-> [g \in Age |-> 0]]

Init ==
  /\ owner \in Owner
  /\ rate \in [App -> Rate \cup {NoRate}]
  /\ active = [a \in App |-> TRUE]
  /\ req = [r \in Request |-> Idle]
  /\ hits = [u \in User |-> 0]
  /\ ttl = [u \in User |-> -1]
  /\ grants = [u \in User |-> NoGrants]
  /\ recent = NoneRecent
  /\ lost = FALSE

(* The slot r holds a request that is at this stage.                        *)
At(r, stage) == req[r] # Idle /\ req[r].st = stage

(* A request comes in with a path and a key; ones that lack either are      *)
(* refused at once and change nothing.                                      *)
Arrive(r, u, a) ==
  /\ req[r] = Idle
  /\ req' = [req EXCEPT ![r] = [st |-> "auth", user |-> u, app |-> a, resent |-> 0]]
  /\ UNCHANGED <<owner, rate, active, hits, ttl, grants, recent, lost>>

(* Mutant: the lookup ignores whose application it is.                      *)
IsValidAnyUser(u, a) == active[a]

(* isValidApp: the application of this user exists and is active.           *)
IsValidApp(u, a) == owner[a] = u /\ active[a]

(* ScyllaDB answers AuthGuard, which lets the request go on or answers 401; *)
(* an error of the lookup is a 401 as well.                                 *)
Authenticate(r) ==
  /\ At(r, "auth")
  /\ \/ /\ IsValidApp(req[r].user, req[r].app)
        /\ req' = [req EXCEPT ![r].st = "count"]
     \/ req' = [req EXCEPT ![r] = Idle]
  /\ UNCHANGED <<owner, rate, active, hits, ttl, grants, recent, lost>>

(* INCR.                                                                    *)
Incremented(u) == IF hits[u] < MaxHits THEN hits[u] + 1 ELSE MaxHits

(* Mutants: the script renews the life on every hit, or never sets it.      *)
LifeRenewed(u, a) == Interval(a)
LifeUnset(u, a) == ttl[u]

(* PTTL, and PEXPIRE when it is not positive: a key just created has no     *)
(* life yet, and a key at its very last moment has 0.                       *)
Life(u, a) == IF ttl[u] <= 0 THEN Interval(a) ELSE ttl[u]

(* Mutant: the guard compares with >=, one request too many gets through.   *)
IsOverLimitByOne(n, a) == n > Limit(a) + 1

(* The guard's verdict on a count.                                          *)
IsOverLimit(n, a) == n > Limit(a)

(* The script runs in Redis; the verdict on its result is already fixed.    *)
Count(r) ==
  LET u == req[r].user
      a == req[r].app
      n == Incremented(u)
  IN
  /\ At(r, "count")
  /\ hits' = [hits EXCEPT ![u] = n]
  /\ ttl' = [ttl EXCEPT ![u] = Life(u, a)]
  /\ req' = [req EXCEPT ![r].st = "counted"]
  /\ IF IsOverLimit(n, a)
       THEN UNCHANGED <<grants, recent>>
       ELSE /\ grants' = [grants EXCEPT ![u] =
                            [m \in DOMAIN @ \cup {n} |-> IF m = n THEN a ELSE @[m]]]
            /\ recent' = IF lost THEN recent ELSE [recent EXCEPT ![a][0] = @ + 1]
  /\ UNCHANGED <<owner, rate, active, lost>>

(* The result arrives: the request is served or answered 429, as its count  *)
(* has decided.                                                             *)
Answer(r) ==
  /\ At(r, "counted")
  /\ req' = [req EXCEPT ![r] = Idle]
  /\ UNCHANGED <<owner, rate, active, hits, ttl, grants, recent, lost>>

(* The connection breaks after the script ran and before its result came:   *)
(* the client sends the command again, and it is counted again.             *)
Resend(r) ==
  /\ At(r, "counted")
  /\ req[r].resent < MaxResend
  /\ req' = [req EXCEPT ![r].st = "count", ![r].resent = @ + 1]
  /\ UNCHANGED <<owner, rate, active, hits, ttl, grants, recent, lost>>

(* The client gives the command up, counted or not: the guard throws and    *)
(* the request is not served.                                               *)
Fail(r) ==
  /\ At(r, "count") \/ At(r, "counted")
  /\ req' = [req EXCEPT ![r] = Idle]
  /\ UNCHANGED <<owner, rate, active, hits, ttl, grants, recent, lost>>

(* The dashboard switches an application off.                               *)
Deactivate(a) ==
  /\ active[a]
  /\ active' = [active EXCEPT ![a] = FALSE]
  /\ UNCHANGED <<owner, rate, req, hits, ttl, grants, recent, lost>>

(* A key at the end of its life goes, with the record of its window.        *)
Expired == {u \in User : ttl[u] = 0}

Tick ==
  /\ hits' = [u \in User |-> IF u \in Expired THEN 0 ELSE hits[u]]
  /\ ttl' = [u \in User |-> IF ttl[u] = -1 THEN -1 ELSE ttl[u] - 1]
  /\ grants' = [u \in User |-> IF u \in Expired THEN NoGrants ELSE grants[u]]
  /\ recent' = [a \in App |-> [g \in Age |-> IF g = 0 THEN 0 ELSE recent[a][g - 1]]]
  /\ UNCHANGED <<owner, rate, active, req, lost>>

(* Redis restarts, or fails over to a replica that missed the key.          *)
LoseCounter(u) ==
  /\ hits[u] > 0
  /\ hits' = [hits EXCEPT ![u] = 0]
  /\ ttl' = [ttl EXCEPT ![u] = -1]
  /\ grants' = [grants EXCEPT ![u] = NoGrants]
  /\ lost' = TRUE
  /\ recent' = NoneRecent
  /\ UNCHANGED <<owner, rate, active, req>>

Step(r) == Authenticate(r) \/ Count(r) \/ Answer(r) \/ Resend(r) \/ Fail(r)

Next ==
  \/ \E r \in Request, u \in User, a \in App : Arrive(r, u, a)
  \/ \E r \in Request : Step(r)
  \/ \E a \in Revocable : Deactivate(a)
  \/ \E u \in User : LoseCounter(u)
  \/ Tick

(* Time passes.                                                             *)
Spec == Init /\ [][Next]_vars /\ WF_vars(Tick)

-----------------------------------------------------------------------------
GrantedTo(u, a) == {n \in DOMAIN grants[u] : grants[u][n] = a}

(* In one life of a counter an application gets no more requests through    *)
(* than its own limit, and a user's applications together no more than the  *)
(* largest of their limits: they share one budget, whatever is sent twice   *)
(* or fails half way (ratelimit.guard.ts 29-45).                            *)
WindowBudget ==
  \A u \in User :
    /\ \A a \in App : Cardinality(GrantedTo(u, a)) <= Limit(a)
    /\ DOMAIN grants[u] # {} =>
         \E a \in AppsOf(u) : Cardinality(DOMAIN grants[u]) <= Limit(a)

(* A counter always has an end, no later than the longest interval of its   *)
(* user's applications: no sequence of requests, repeats and failures       *)
(* leaves a key behind that locks a user out                                *)
(* (throttler-storage-redis.service.ts 33-41).                              *)
CounterEnds ==
  \A u \in User : hits[u] > 0 =>
    ttl[u] >= 0 /\ \E a \in AppsOf(u) : ttl[u] <= Interval(a)

(* No request is counted against, or let through for, a user the            *)
(* application does not belong to (auth.guard.ts 31-43 before               *)
(* ratelimit.guard.ts 38).                                                  *)
OnlyOwnersAreCounted ==
  /\ \A u \in User : hits[u] > 0 => AppsOf(u) # {}
  /\ \A r \in Request : At(r, "count") \/ At(r, "counted") =>
       owner[req[r].app] = req[r].user

LetThrough(a, span) == SumFunctionOnSet(recent[a], {g \in Age : g < span})

Alone(a) == \A b \in AppsOf(owner[a]) : Interval(b) = Interval(a)

(* Where a user's applications have one interval, any stretch of time of    *)
(* that length sees at most two windows, so at most twice the limit gets    *)
(* through, while Redis keeps its counters (ratelimit.guard.ts 33-40).      *)
BurstBound ==
  ~lost => \A a \in App :
    Alone(a) /\ Interval(a) <= Horizon => LetThrough(a, Interval(a)) <= 2 * Limit(a)

(* Every window runs down to its end, however many requests arrive in it.   *)
WindowCloses == \A u \in User : []<>(ttl[u] <= 0)

(* The rate in the table of README.md 143-146, "3 req/min": over a stretch  *)
(* of its own interval an application gets at most its limit through, here  *)
(* with the burst of two windows allowed for.                               *)
RateHonoured ==
  ~lost => \A a \in App :
    Interval(a) <= Horizon => LetThrough(a, Interval(a)) <= 2 * Limit(a)
=============================================================================
