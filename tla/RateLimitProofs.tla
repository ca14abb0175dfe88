-------------------------- MODULE RateLimitProofs --------------------------
(***************************************************************************)
(* Proofs about RateLimit, for any users, applications, rates and number of *)
(* requests in flight.  The invariant says what a counter remembers of the  *)
(* requests it let through, and that it exists exactly while it has a life. *)
(***************************************************************************)
EXTENDS RateLimit, Sums, TLAPS

(* An application's rate, its own or the default, has a limit the model's   *)
(* counter can pass and a positive interval.                                *)
LEMMA RateOfType ==
  ASSUME TypeOK, NEW a \in App
  PROVE  /\ Limit(a) \in Nat /\ Limit(a) < MaxHits
         /\ Interval(a) \in Nat \ {0}
<1>1. RateOf(a) \in Rate \cup {DefaultRate}
  BY DEF TypeOK, RateOf
<1>2. RateOf(a) \in RateType
  BY <1>1, RateAssumption
<1> QED BY <1>1, <1>2, BoundAssumption DEF Limit, Interval, RateType

(* The initial state is well typed.                                         *)
LEMMA InitType == Init => TypeOK
<1> SUFFICES ASSUME Init PROVE TypeOK
  OBVIOUS
<1> USE DEF Init, TypeOK
<1>1. owner \in [App -> User]
  BY OwnerAssumption
<1>2. hits \in [User -> 0 .. MaxHits] /\ ttl \in [User -> Nat \cup {-1}]
  BY BoundAssumption
<1>3. DOMAIN grants = User /\ \A u \in User : DOMAIN grants[u] = {}
  BY DEF NoGrants
<1>4. \A u \in User : grants[u] \in [DOMAIN grants[u] -> App]
  BY <1>3 DEF NoGrants
<1>5. recent \in [App -> [Age -> Nat]]
  BY DEF NoneRecent
<1>6. rate \in [App -> Rate \cup {NoRate}] /\ active \in [App -> BOOLEAN] /\ lost \in BOOLEAN
  OBVIOUS
<1>7. req \in [Request -> RequestState \cup {Idle}]
  OBVIOUS
<1> QED BY <1>1, <1>2, <1>3, <1>4, <1>5, <1>6, <1>7

(* What a request in flight is.                                             *)
LEMMA RequestType ==
  ASSUME TypeOK, NEW r \in Request, NEW stage, At(r, stage)
  PROVE  /\ req[r] \in RequestState
         /\ req[r].user \in User /\ req[r].app \in App /\ req[r].st = stage
BY DEF TypeOK, At, RequestState

(* The count of a request is positive and never below the counter.          *)
LEMMA IncrementedType ==
  ASSUME TypeOK, NEW u \in User
  PROVE  /\ Incremented(u) \in 1 .. MaxHits
         /\ hits[u] <= Incremented(u)
<1>1. hits[u] \in 0 .. MaxHits /\ MaxHits \in Nat /\ MaxHits > 0
  <2>1. DefaultRate.limits < MaxHits /\ DefaultRate.limits \in Nat
    BY BoundAssumption, RateAssumption DEF RateType
  <2> QED BY <2>1, BoundAssumption DEF TypeOK
<1> QED BY <1>1 DEF Incremented

(* The life the script leaves a key with is that of the request's           *)
(* application or the one the key already had.                              *)
LEMMA LifeType ==
  ASSUME TypeOK, NEW u \in User, NEW a \in App
  PROVE  /\ Life(u, a) \in Nat
         /\ Life(u, a) = Interval(a) \/ (ttl[u] > 0 /\ Life(u, a) = ttl[u])
<1>1. ttl[u] \in Nat \cup {-1} /\ Interval(a) \in Nat
  BY RateOfType DEF TypeOK
<1> QED BY <1>1 DEF Life

(* Every step keeps the types.                                              *)
LEMMA NextType == TypeOK /\ [Next]_vars => TypeOK'
<1> SUFFICES ASSUME TypeOK, [Next]_vars PROVE TypeOK'
  OBVIOUS
<1>1. ASSUME NEW r \in Request, NEW u \in User, NEW a \in App, Arrive(r, u, a)
      PROVE  TypeOK'
  <2>1. [st |-> "auth", user |-> u, app |-> a, resent |-> 0] \in RequestState
    BY BoundAssumption DEF RequestState
  <2> QED BY <1>1, <2>1 DEF Arrive, TypeOK
<1>2. ASSUME NEW r \in Request, Authenticate(r) PROVE TypeOK'
  <2>1. [req[r] EXCEPT !.st = "count"] \in RequestState
    BY <1>2, RequestType DEF Authenticate, RequestState
  <2>2. req' \in [Request -> RequestState \cup {Idle}]
    BY <1>2, <2>1 DEF Authenticate, TypeOK
  <2> QED BY <1>2, <2>2 DEF Authenticate, TypeOK
<1>3. ASSUME NEW r \in Request, Count(r) PROVE TypeOK'
  <2> DEFINE u == req[r].user
             a == req[r].app
             n == Incremented(u)
  <2>1. u \in User /\ a \in App /\ req[r] \in RequestState
    BY <1>3, RequestType DEF Count
  <2>2. n \in 1 .. MaxHits /\ hits[u] <= n /\ Life(u, a) \in Nat
    BY <2>1, IncrementedType, LifeType
  <2>3. req' \in [Request -> RequestState \cup {Idle}]
    <3>1. [req[r] EXCEPT !.st = "counted"] \in RequestState
      BY <2>1 DEF RequestState
    <3> QED BY <1>3, <3>1 DEF Count, TypeOK
  <2>4. hits' = [hits EXCEPT ![u] = n] /\ ttl' = [ttl EXCEPT ![u] = Life(u, a)]
    BY <1>3 DEF Count
  <2>5. hits' \in [User -> 0 .. MaxHits] /\ ttl' \in [User -> Nat \cup {-1}]
    <3> HIDE DEF u, a, n
    <3> QED BY <2>1, <2>2, <2>4 DEF TypeOK
  <2>6. DOMAIN grants' = User
    BY <1>3 DEF Count, TypeOK
  <2>7. ASSUME NEW w \in User
        PROVE  /\ DOMAIN grants'[w] \subseteq 1 .. hits'[w]
               /\ grants'[w] \in [DOMAIN grants'[w] -> App]
    <3>1. CASE IsOverLimit(n, a) \/ w # u
      <4>1. grants'[w] = grants[w]
        BY <1>3, <3>1 DEF Count, TypeOK
      <4>2. hits[w] <= hits'[w] /\ hits[w] \in Nat /\ hits'[w] \in Nat
        <5> HIDE DEF u, a, n
        <5> QED BY <2>1, <2>2, <2>4, <2>5 DEF TypeOK
      <4> QED BY <4>1, <4>2 DEF TypeOK
    <3>2. CASE ~IsOverLimit(n, a) /\ w = u
      <4>1. grants'[w] = [m \in DOMAIN grants[u] \cup {n} |-> IF m = n THEN a ELSE grants[u][m]]
        BY <1>3, <2>1, <3>2 DEF Count, TypeOK
      <4>2. hits'[w] = n /\ hits[u] \in Nat
        BY <2>1, <2>4, <3>2 DEF TypeOK
      <4>3. DOMAIN grants[u] \subseteq 1 .. hits[u] /\ grants[u] \in [DOMAIN grants[u] -> App]
        BY <2>1 DEF TypeOK
      <4> HIDE DEF u, a, n
      <4> QED BY <2>1, <2>2, <4>1, <4>2, <4>3
    <3> QED BY <3>1, <3>2
  <2>8. recent' \in [App -> [Age -> Nat]]
    <3>1. 0 \in Age
      BY BoundAssumption DEF Age
    <3>2. recent' = recent \/ recent' = [recent EXCEPT ![a][0] = @ + 1]
      BY <1>3 DEF Count
    <3>3. recent[a] \in [Age -> Nat]
      BY <2>1 DEF TypeOK
    <3>4. [recent[a] EXCEPT ![0] = @ + 1] \in [Age -> Nat]
      <4>1. recent[a][0] + 1 \in Nat
        BY <3>1, <3>3
      <4> QED BY <3>3, <4>1
    <3>5. [recent EXCEPT ![a][0] = @ + 1] = [recent EXCEPT ![a] = [recent[a] EXCEPT ![0] = @ + 1]]
      BY <2>1 DEF TypeOK
    <3> QED BY <3>2, <3>4, <3>5 DEF TypeOK
  <2> QED BY <1>3, <2>3, <2>5, <2>6, <2>7, <2>8 DEF Count, TypeOK
<1>4. ASSUME NEW r \in Request, Answer(r) \/ Fail(r) PROVE TypeOK'
  BY <1>4 DEF Answer, Fail, TypeOK
<1>5. ASSUME NEW r \in Request, Resend(r) PROVE TypeOK'
  <2>1. [req[r] EXCEPT !.st = "count", !.resent = @ + 1] \in RequestState
    <3>1. req[r] \in RequestState
      BY <1>5, RequestType DEF Resend
    <3>2. req[r].resent + 1 \in 0 .. MaxResend
      BY <1>5, <3>1, BoundAssumption DEF Resend, RequestState
    <3> QED BY <3>1, <3>2 DEF RequestState
  <2>2. req' \in [Request -> RequestState \cup {Idle}]
    BY <1>5, <2>1 DEF Resend, TypeOK
  <2> QED BY <1>5, <2>2 DEF Resend, TypeOK
<1>6. ASSUME NEW a \in Revocable, Deactivate(a) PROVE TypeOK'
  BY <1>6, OwnerAssumption DEF Deactivate, TypeOK
<1>7. ASSUME NEW u \in User, LoseCounter(u) PROVE TypeOK'
  <2>1. recent' \in [App -> [Age -> Nat]]
    BY <1>7 DEF LoseCounter, NoneRecent
  <2>2. hits' \in [User -> 0 .. MaxHits] /\ ttl' \in [User -> Nat \cup {-1}]
    BY <1>7, BoundAssumption DEF LoseCounter, TypeOK
  <2>3. ASSUME NEW w \in User
        PROVE  /\ DOMAIN grants'[w] \subseteq 1 .. hits'[w]
               /\ grants'[w] \in [DOMAIN grants'[w] -> App]
    <3>1. CASE w = u
      <4>1. grants'[w] = NoGrants
        BY <1>7, <3>1 DEF LoseCounter, TypeOK
      <4> QED BY <4>1 DEF NoGrants
    <3>2. CASE w # u
      BY <1>7, <3>2 DEF LoseCounter, TypeOK
    <3> QED BY <3>1, <3>2
  <2> QED BY <1>7, <2>1, <2>2, <2>3 DEF LoseCounter, TypeOK
<1>8. CASE Tick
  <2>1. recent' \in [App -> [Age -> Nat]]
    <3>1. \A g \in Age : g = 0 \/ g - 1 \in Age
      BY BoundAssumption DEF Age
    <3>2. \A a \in App, g \in Age : (IF g = 0 THEN 0 ELSE recent[a][g - 1]) \in Nat
      BY <3>1 DEF TypeOK
    <3> QED BY <1>8, <3>2 DEF Tick
  <2>2. hits' \in [User -> 0 .. MaxHits]
    BY <1>8, BoundAssumption DEF Tick, TypeOK
  <2>3. ttl' \in [User -> Nat \cup {-1}]
    <3>1. \A u \in User : (IF ttl[u] = -1 THEN -1 ELSE ttl[u] - 1) \in Nat \cup {-1}
      BY DEF TypeOK
    <3> QED BY <1>8, <3>1 DEF Tick
  <2>4. DOMAIN grants' = User
    BY <1>8 DEF Tick
  <2>5. ASSUME NEW w \in User
        PROVE  /\ DOMAIN grants'[w] \subseteq 1 .. hits'[w]
               /\ grants'[w] \in [DOMAIN grants'[w] -> App]
    <3>1. CASE w \in Expired
      <4>1. grants'[w] = NoGrants
        BY <1>8, <3>1 DEF Tick
      <4> QED BY <4>1 DEF NoGrants
    <3>2. CASE w \notin Expired
      BY <1>8, <3>2 DEF Tick, TypeOK
    <3> QED BY <3>1, <3>2
  <2> QED BY <1>8, <2>1, <2>2, <2>3, <2>4, <2>5 DEF Tick, TypeOK
<1>9. CASE UNCHANGED vars
  BY <1>9 DEF vars, TypeOK
<1> QED BY <1>1, <1>2, <1>3, <1>4, <1>5, <1>6, <1>7, <1>8, <1>9 DEF Next, Step

(* Every variable keeps its type, and a counter never remembers a count it  *)
(* has not reached.                                                         *)
THEOREM TypeCorrect == Spec => []TypeOK
<1> QED BY InitType, NextType, PTL DEF Spec

-----------------------------------------------------------------------------
(* A key exists exactly while it has a life.                                *)
KeyOk == \A u \in User : hits[u] > 0 <=> ttl[u] # -1

(* A count is remembered only if it was within its application's limit, and *)
(* one of the counts remembered is the largest.                             *)
GrantsOk ==
  \A u \in User :
    /\ \A n \in DOMAIN grants[u] :
         n <= Limit(grants[u][n]) /\ owner[grants[u][n]] = u
    /\ DOMAIN grants[u] # {} => \E m \in DOMAIN grants[u] : DOMAIN grants[u] \subseteq 1 .. m

IInv == TypeOK /\ KeyOk /\ GrantsOk /\ OnlyOwnersAreCounted /\ CounterEnds

(* The invariant holds when the service starts.                             *)
LEMMA InitInv == Init => IInv
<1> SUFFICES ASSUME Init PROVE IInv
  OBVIOUS
<1>1. TypeOK
  BY InitType
<1>2. KeyOk /\ CounterEnds
  BY DEF Init, KeyOk, CounterEnds
<1>3. GrantsOk
  BY DEF Init, GrantsOk, NoGrants
<1>4. OnlyOwnersAreCounted
  BY DEF Init, OnlyOwnersAreCounted, At
<1> QED BY <1>1, <1>2, <1>3, <1>4 DEF IInv

(* The script's run keeps the invariant.                                    *)
LEMMA CountInv ==
  ASSUME IInv, NEW r \in Request, Count(r), TypeOK'
  PROVE  IInv'
<1> DEFINE u == req[r].user
           a == req[r].app
           n == Incremented(u)
<1>1. u \in User /\ a \in App /\ owner[a] = u
  BY RequestType DEF IInv, Count, OnlyOwnersAreCounted
<1>2. n \in 1 .. MaxHits /\ hits[u] <= n /\ hits[u] \in Nat
  BY <1>1, IncrementedType DEF IInv, TypeOK
<1>3. /\ Life(u, a) \in Nat
      /\ Life(u, a) = Interval(a) \/ (ttl[u] > 0 /\ Life(u, a) = ttl[u])
  BY <1>1, LifeType DEF IInv
<1>4. /\ hits' = [hits EXCEPT ![u] = n]
      /\ ttl' = [ttl EXCEPT ![u] = Life(u, a)]
      /\ UNCHANGED <<owner, rate>>
  BY DEF Count
<1>5. \A b \in App : Limit(b)' = Limit(b) /\ Interval(b)' = Interval(b)
  BY <1>4 DEF Limit, Interval, RateOf
<1>6. \A w \in User : AppsOf(w)' = AppsOf(w)
  BY <1>4 DEF AppsOf
<1>7. KeyOk'
  BY <1>1, <1>2, <1>3, <1>4 DEF IInv, KeyOk, TypeOK
<1>8. CounterEnds'
  <2> SUFFICES ASSUME NEW w \in User, hits'[w] > 0
               PROVE  ttl'[w] >= 0 /\ \E b \in AppsOf(w) : ttl'[w] <= Interval(b)
    BY <1>4 DEF CounterEnds, AppsOf, Interval, RateOf
  <2>1. CASE w # u
    BY <1>4, <2>1 DEF IInv, TypeOK, CounterEnds
  <2>2. CASE w = u /\ Life(u, a) = Interval(a)
    <3>1. a \in AppsOf(w) /\ ttl'[w] = Interval(a)
      BY <1>1, <1>4, <2>2 DEF AppsOf, IInv, TypeOK
    <3>2. Interval(a) \in Nat
      BY <1>1, RateOfType DEF IInv
    <3> QED BY <3>1, <3>2
  <2>3. CASE w = u /\ ttl[u] > 0 /\ Life(u, a) = ttl[u]
    <3>1. hits[u] > 0
      BY <1>1, <2>3 DEF IInv, KeyOk
    <3>2. ttl'[w] = ttl[w]
      BY <1>1, <1>4, <2>3 DEF IInv, TypeOK
    <3> QED BY <2>3, <3>1, <3>2 DEF IInv, CounterEnds
  <2> QED BY <1>3, <2>1, <2>2, <2>3
<1>9. GrantsOk'
  <2> SUFFICES ASSUME NEW w \in User
               PROVE  (/\ \A m \in DOMAIN grants[w] :
                            m <= Limit(grants[w][m]) /\ owner[grants[w][m]] = w
                       /\ DOMAIN grants[w] # {} =>
                            \E m \in DOMAIN grants[w] : DOMAIN grants[w] \subseteq 1 .. m)'
    BY DEF GrantsOk
  <2>0. /\ \A m \in DOMAIN grants[w] : grants[w][m] \in App
        /\ \A m \in DOMAIN grants[w] : m <= Limit(grants[w][m]) /\ owner[grants[w][m]] = w
        /\ DOMAIN grants[w] \subseteq 1 .. hits[w]
    BY DEF IInv, TypeOK, GrantsOk
  <2>1. CASE IsOverLimit(n, a) \/ w # u
    <3>1. grants'[w] = grants[w]
      BY <2>1 DEF Count, IInv, TypeOK
    <3>2. DOMAIN grants[w] # {} => \E m \in DOMAIN grants[w] : DOMAIN grants[w] \subseteq 1 .. m
      BY DEF IInv, GrantsOk
    <3> QED BY <1>4, <2>0, <3>1, <3>2 DEF Limit, RateOf
  <2>2. CASE ~IsOverLimit(n, a) /\ w = u
    <3>1. grants'[w] = [m \in DOMAIN grants[u] \cup {n} |-> IF m = n THEN a ELSE grants[u][m]]
      BY <1>1, <2>2 DEF Count, IInv, TypeOK
    <3>2. n <= Limit(a)
      BY <1>1, <1>2, <2>2, RateOfType DEF IsOverLimit, IInv
    <3> HIDE DEF u, a, n
    <3>3. ASSUME NEW m \in DOMAIN grants'[w]
          PROVE  m <= Limit(grants'[w][m]) /\ owner[grants'[w][m]] = w
      BY <1>1, <2>0, <2>2, <3>1, <3>2
    <3>4. \A m \in DOMAIN grants'[w] : (m <= Limit(grants[w][m]) /\ owner[grants[w][m]] = w)'
      BY <1>4, <3>3 DEF Limit, RateOf
    <3>5. n \in DOMAIN grants'[w] /\ DOMAIN grants'[w] \subseteq 1 .. n
      BY <1>2, <2>0, <2>2, <3>1
    <3> QED BY <3>4, <3>5
  <2> QED BY <2>1, <2>2
<1>10. OnlyOwnersAreCounted'
  <2>1. ASSUME NEW w \in User, hits'[w] > 0 PROVE AppsOf(w)' # {}
    <3>1. CASE w = u
      BY <1>1, <1>4, <3>1 DEF AppsOf
    <3>2. CASE w # u
      BY <1>4, <1>6, <2>1, <3>2 DEF IInv, TypeOK, OnlyOwnersAreCounted
    <3> QED BY <3>1, <3>2
  <2>2. ASSUME NEW q \in Request, At(q, "count")' \/ At(q, "counted")'
        PROVE  (owner[req[q].app] = req[q].user)'
    <3>1. CASE q = r
      <4>1. req'[r] = [req[r] EXCEPT !.st = "counted"]
        BY DEF Count, IInv, TypeOK
      <4>2. req[r] \in RequestState
        BY RequestType DEF Count, IInv
      <4>3. req'[r].app = a /\ req'[r].user = u
        BY <4>1, <4>2 DEF RequestState
      <4> QED BY <1>1, <1>4, <3>1, <4>3
    <3>2. CASE q # r
      <4>1. req'[q] = req[q]
        BY <3>2 DEF Count, IInv, TypeOK
      <4> QED BY <1>4, <2>2, <4>1 DEF IInv, OnlyOwnersAreCounted, At
    <3> QED BY <3>1, <3>2
  <2> QED BY <2>1, <2>2 DEF OnlyOwnersAreCounted
<1> QED BY <1>7, <1>8, <1>9, <1>10 DEF IInv

(* Steps that touch neither Redis nor the applications' owners and rates    *)
(* keep what the invariant says of the counters.                            *)
LEMMA SameCounters ==
  ASSUME IInv, UNCHANGED <<owner, rate, hits, ttl, grants>>
  PROVE  KeyOk' /\ GrantsOk' /\ CounterEnds' /\ \A w \in User : hits'[w] > 0 => AppsOf(w)' # {}
<1>1. KeyOk'
  BY DEF IInv, KeyOk
<1>2. GrantsOk'
  BY DEF IInv, GrantsOk, Limit, RateOf
<1>3. CounterEnds'
  BY DEF IInv, CounterEnds, AppsOf, Interval, RateOf
<1>4. \A w \in User : hits'[w] > 0 => AppsOf(w)' # {}
  BY DEF IInv, OnlyOwnersAreCounted, AppsOf
<1> QED BY <1>1, <1>2, <1>3, <1>4

(* A step that leaves the requests alone, and takes counters away or keeps  *)
(* them, leaves the owners counted.                                         *)
LEMMA SameRequests ==
  ASSUME IInv, UNCHANGED <<owner, req>>, \A w \in User : hits'[w] > 0 => hits[w] > 0
  PROVE  OnlyOwnersAreCounted'
BY DEF IInv, OnlyOwnersAreCounted, AppsOf, At

(* Every step keeps the invariant.                                          *)
LEMMA NextInv == IInv /\ [Next]_vars => IInv'
<1> SUFFICES ASSUME IInv, [Next]_vars PROVE IInv'
  OBVIOUS
<1>0. TypeOK'
  BY NextType DEF IInv
<1>1. ASSUME NEW r \in Request, NEW u \in User, NEW a \in App, Arrive(r, u, a)
      PROVE  IInv'
  <2>1. UNCHANGED <<owner, rate, hits, ttl, grants>>
    BY <1>1 DEF Arrive
  <2>2. ASSUME NEW q \in Request, (At(q, "count") \/ At(q, "counted"))'
        PROVE  (owner[req[q].app] = req[q].user)'
    <3>1. q # r
      BY <1>1, <2>2 DEF Arrive, At, IInv, TypeOK
    <3>2. req'[q] = req[q]
      BY <1>1, <3>1 DEF Arrive, IInv, TypeOK
    <3> QED BY <2>1, <2>2, <3>2 DEF IInv, OnlyOwnersAreCounted, At
  <2> QED BY <1>0, <2>1, <2>2, SameCounters DEF IInv, OnlyOwnersAreCounted
<1>2. ASSUME NEW r \in Request, Authenticate(r) PROVE IInv'
  <2>1. UNCHANGED <<owner, rate, hits, ttl, grants>>
    BY <1>2 DEF Authenticate
  <2>2. ASSUME NEW q \in Request, (At(q, "count") \/ At(q, "counted"))'
        PROVE  (owner[req[q].app] = req[q].user)'
    <3>1. CASE q = r
      <4>0. req' # [req EXCEPT ![r] = Idle]
        BY <2>2, <3>1 DEF At, IInv, TypeOK
      <4>1. IsValidApp(req[r].user, req[r].app) /\ req' = [req EXCEPT ![r].st = "count"]
        BY <1>2, <4>0 DEF Authenticate
      <4>2. req'[r] = [req[r] EXCEPT !.st = "count"]
        BY <4>1 DEF IInv, TypeOK
      <4>3. req[r] \in RequestState
        BY <1>2, RequestType DEF Authenticate, IInv
      <4>4. req'[r].app = req[r].app /\ req'[r].user = req[r].user
        BY <4>2, <4>3 DEF RequestState
      <4> QED BY <2>1, <3>1, <4>1, <4>4 DEF IsValidApp
    <3>2. CASE q # r
      <4>1. req'[q] = req[q]
        BY <1>2, <3>2 DEF Authenticate, IInv, TypeOK
      <4> QED BY <2>1, <2>2, <4>1 DEF IInv, OnlyOwnersAreCounted, At
    <3> QED BY <3>1, <3>2
  <2> QED BY <1>0, <2>1, <2>2, SameCounters DEF IInv, OnlyOwnersAreCounted
<1>3. ASSUME NEW r \in Request, Count(r) PROVE IInv'
  BY <1>0, <1>3, CountInv
<1>4. ASSUME NEW r \in Request, Answer(r) \/ Fail(r) PROVE IInv'
  <2>1. UNCHANGED <<owner, rate, hits, ttl, grants>>
    BY <1>4 DEF Answer, Fail
  <2>2. ASSUME NEW q \in Request, (At(q, "count") \/ At(q, "counted"))'
        PROVE  (owner[req[q].app] = req[q].user)'
    <3>1. q # r
      BY <1>4, <2>2 DEF Answer, Fail, At, IInv, TypeOK
    <3>2. req'[q] = req[q]
      BY <1>4, <3>1 DEF Answer, Fail, IInv, TypeOK
    <3> QED BY <2>1, <2>2, <3>2 DEF IInv, OnlyOwnersAreCounted, At
  <2> QED BY <1>0, <2>1, <2>2, SameCounters DEF IInv, OnlyOwnersAreCounted
<1>5. ASSUME NEW r \in Request, Resend(r) PROVE IInv'
  <2>1. UNCHANGED <<owner, rate, hits, ttl, grants>>
    BY <1>5 DEF Resend
  <2>2. ASSUME NEW q \in Request, (At(q, "count") \/ At(q, "counted"))'
        PROVE  (owner[req[q].app] = req[q].user)'
    <3>1. CASE q = r
      <4>1. req'[r] = [req[r] EXCEPT !.st = "count", !.resent = @ + 1]
        BY <1>5 DEF Resend, IInv, TypeOK
      <4>2. req[r] \in RequestState
        BY <1>5, RequestType DEF Resend, IInv
      <4>3. req'[r].app = req[r].app /\ req'[r].user = req[r].user
        BY <4>1, <4>2 DEF RequestState
      <4>4. owner[req[r].app] = req[r].user
        BY <1>5 DEF Resend, IInv, OnlyOwnersAreCounted
      <4> QED BY <2>1, <3>1, <4>3, <4>4
    <3>2. CASE q # r
      <4>1. req'[q] = req[q]
        BY <1>5, <3>2 DEF Resend, IInv, TypeOK
      <4> QED BY <2>1, <2>2, <4>1 DEF IInv, OnlyOwnersAreCounted, At
    <3> QED BY <3>1, <3>2
  <2> QED BY <1>0, <2>1, <2>2, SameCounters DEF IInv, OnlyOwnersAreCounted
<1>6. ASSUME NEW a \in Revocable, Deactivate(a) PROVE IInv'
  <2>1. UNCHANGED <<owner, rate, req, hits, ttl, grants>>
    BY <1>6 DEF Deactivate
  <2> QED BY <1>0, <2>1, SameCounters, SameRequests DEF IInv
<1>7. ASSUME NEW u \in User, LoseCounter(u) PROVE IInv'
  <2>1. /\ UNCHANGED <<owner, rate, req>>
        /\ hits' = [hits EXCEPT ![u] = 0] /\ ttl' = [ttl EXCEPT ![u] = -1]
        /\ grants' = [grants EXCEPT ![u] = NoGrants]
    BY <1>7 DEF LoseCounter
  <2>2. KeyOk'
    BY <2>1 DEF IInv, KeyOk, TypeOK
  <2>3. GrantsOk'
    <3>1. \A w \in User : w # u => grants'[w] = grants[w]
      BY <2>1 DEF IInv, TypeOK
    <3>2. DOMAIN grants'[u] = {}
      BY <2>1 DEF IInv, TypeOK, NoGrants
    <3> QED BY <2>1, <3>1, <3>2 DEF IInv, GrantsOk, Limit, RateOf
  <2>4. CounterEnds'
    <3>1. \A w \in User : w # u => hits'[w] = hits[w] /\ ttl'[w] = ttl[w]
      BY <2>1 DEF IInv, TypeOK
    <3>2. hits'[u] = 0
      BY <2>1 DEF IInv, TypeOK
    <3> QED BY <2>1, <3>1, <3>2 DEF IInv, CounterEnds, AppsOf, Interval, RateOf
  <2>5. OnlyOwnersAreCounted'
    <3>1. \A w \in User : hits'[w] > 0 => hits[w] > 0
      BY <2>1 DEF IInv, TypeOK
    <3> QED BY <2>1, <3>1, SameRequests
  <2> QED BY <1>0, <2>2, <2>3, <2>4, <2>5 DEF IInv
<1>8. CASE Tick
  <2>1. /\ UNCHANGED <<owner, rate, req>>
        /\ \A w \in User : hits'[w] = IF ttl[w] = 0 THEN 0 ELSE hits[w]
        /\ \A w \in User : ttl'[w] = IF ttl[w] = -1 THEN -1 ELSE ttl[w] - 1
        /\ \A w \in User : grants'[w] = IF ttl[w] = 0 THEN NoGrants ELSE grants[w]
    BY <1>8 DEF Tick, Expired
  <2>2. KeyOk'
    <3> SUFFICES ASSUME NEW w \in User PROVE (hits[w] > 0 <=> ttl[w] # -1)'
      BY DEF KeyOk
    <3>1. ttl[w] \in Nat \cup {-1} /\ hits[w] \in Nat /\ (hits[w] > 0 <=> ttl[w] # -1)
      BY DEF IInv, KeyOk, TypeOK
    <3>2. CASE ttl[w] = 0
      BY <2>1, <3>1, <3>2
    <3>3. CASE ttl[w] # 0
      BY <2>1, <3>1, <3>3
    <3> QED BY <3>2, <3>3
  <2>3. GrantsOk'
    <3>1. DOMAIN NoGrants = {}
      BY DEF NoGrants
    <3>2. ASSUME NEW w \in User, ttl[w] = 0 PROVE DOMAIN grants'[w] = {}
      BY <2>1, <3>1, <3>2
    <3>3. ASSUME NEW w \in User, ttl[w] # 0 PROVE grants'[w] = grants[w]
      BY <2>1, <3>3
    <3> QED BY <2>1, <3>2, <3>3 DEF IInv, GrantsOk, Limit, RateOf
  <2>4. CounterEnds'
    <3> SUFFICES ASSUME NEW w \in User, hits'[w] > 0
                 PROVE  (ttl[w] >= 0 /\ \E b \in AppsOf(w) : ttl[w] <= Interval(b))'
      BY DEF CounterEnds
    <3>1. hits[w] > 0 /\ ttl[w] # 0 /\ ttl[w] \in Nat \cup {-1}
      BY <2>1 DEF IInv, TypeOK
    <3>2. ttl[w] > 0 /\ ttl'[w] = ttl[w] - 1
      BY <2>1, <3>1 DEF IInv, KeyOk
    <3>3. PICK b \in AppsOf(w) : ttl[w] <= Interval(b)
      BY <3>1 DEF IInv, CounterEnds
    <3>4. b \in App /\ Interval(b) \in Nat
      BY RateOfType DEF IInv, AppsOf
    <3>5. ttl'[w] <= Interval(b)
      BY <3>2, <3>3, <3>4, <3>1
    <3> QED BY <2>1, <3>1, <3>2, <3>3, <3>4, <3>5 DEF AppsOf, Interval, RateOf
  <2>5. OnlyOwnersAreCounted'
    <3>1. \A w \in User : hits'[w] > 0 => hits[w] > 0
      BY <2>1
    <3> QED BY <2>1, <3>1, SameRequests
  <2> QED BY <1>0, <2>2, <2>3, <2>4, <2>5 DEF IInv
<1>9. CASE UNCHANGED vars
  BY <1>0, <1>9, SameCounters, SameRequests DEF vars, IInv
<1> QED BY <1>1, <1>2, <1>3, <1>4, <1>5, <1>6, <1>7, <1>8, <1>9 DEF Next, Step

(* The invariant holds in every behaviour.                                  *)
THEOREM Invariant == Spec => []IInv
<1> QED BY InitInv, NextInv, PTL DEF Spec

(* A counter always has an end, no later than the longest interval of its   *)
(* user's applications.                                                     *)
THEOREM CounterAlwaysEnds == Spec => []CounterEnds
<1>1. IInv => CounterEnds
  BY DEF IInv
<1> QED BY <1>1, Invariant, PTL

(* Nobody is counted for an application of somebody else.                   *)
THEOREM OnlyTheOwnerIsCounted == Spec => []OnlyOwnersAreCounted
<1>1. IInv => OnlyOwnersAreCounted
  BY DEF IInv
<1> QED BY <1>1, Invariant, PTL

(* A set of counts none of which is beyond a limit is no larger than it.    *)
LEMMA AtMost ==
  ASSUME NEW k \in Nat, NEW S, S \subseteq 1 .. k
  PROVE  IsFiniteSet(S) /\ Cardinality(S) <= k
<1>1. IsFiniteSet(1 .. k) /\ Cardinality(1 .. k) = k
  BY FS_Interval
<1> QED BY <1>1, FS_Subset

(* One life of a counter lets no more through than the applications' limits.*)
THEOREM WindowsKeepTheBudget == Spec => []WindowBudget
<1>1. IInv => WindowBudget
  <2> SUFFICES ASSUME IInv, NEW u \in User
               PROVE  /\ \A a \in App : Cardinality(GrantedTo(u, a)) <= Limit(a)
                      /\ DOMAIN grants[u] # {} =>
                           \E a \in AppsOf(u) : Cardinality(DOMAIN grants[u]) <= Limit(a)
    BY DEF WindowBudget
  <2>1. /\ DOMAIN grants[u] \subseteq Nat \ {0}
        /\ \A m \in DOMAIN grants[u] : /\ grants[u][m] \in App
                                       /\ m <= Limit(grants[u][m])
                                       /\ owner[grants[u][m]] = u
    BY DEF IInv, TypeOK, GrantsOk
  <2>2. ASSUME NEW a \in App PROVE Cardinality(GrantedTo(u, a)) <= Limit(a)
    <3>1. Limit(a) \in Nat
      BY RateOfType DEF IInv
    <3>2. GrantedTo(u, a) \subseteq 1 .. Limit(a)
      BY <2>1, <3>1 DEF GrantedTo
    <3> QED BY <3>1, <3>2, AtMost
  <2>3. ASSUME DOMAIN grants[u] # {}
        PROVE  \E a \in AppsOf(u) : Cardinality(DOMAIN grants[u]) <= Limit(a)
    <3>1. PICK m \in DOMAIN grants[u] : DOMAIN grants[u] \subseteq 1 .. m
      BY <2>3 DEF IInv, GrantsOk
    <3>2. grants[u][m] \in AppsOf(u) /\ m \in Nat
      BY <2>1 DEF AppsOf
    <3>3. Limit(grants[u][m]) \in Nat /\ m <= Limit(grants[u][m])
      BY <2>1, RateOfType DEF IInv
    <3>4. DOMAIN grants[u] \subseteq 1 .. Limit(grants[u][m])
      BY <3>1, <3>2, <3>3
    <3> QED BY <3>2, <3>3, <3>4, AtMost
  <2> QED BY <2>2, <2>3
<1> QED BY <1>1, Invariant, PTL

-----------------------------------------------------------------------------
(* The bound over any stretch of time.                                      *)

(* A set of ages, one unit of time before: the sum over it of a history     *)
(* that was moved by one age is the sum of the history where it was.        *)
Before(S) == {g \in Age : g + 1 \in S}

(* A sum over the history one unit later is that over the units before.     *)
LEMMA SumShift ==
  ASSUME NEW f, NEW h, NEW S \in SUBSET Age,
         \A g \in Age : f[g] \in Int,
         \A g \in Age : h[g] = IF g = 0 THEN 0 ELSE f[g - 1]
  PROVE  SumFunctionOnSet(h, S) = SumFunctionOnSet(f, Before(S))
<1>1. IsFiniteSet(Age) /\ Age \subseteq Nat /\ \A g \in Age : g = 0 \/ g - 1 \in Age
  BY FS_Interval, BoundAssumption DEF Age
<1>2. \A T \in SUBSET Age : IsFiniteSet(T) /\ IsFiniteSet(Before(T))
  BY <1>1, FS_Subset DEF Before
<1>3. \A g \in Age : h[g] \in Int
  BY <1>1
<1> DEFINE F == {T \in SUBSET S : SumFunctionOnSet(h, T) = SumFunctionOnSet(f, Before(T))}
<1>4. {} \in F
  <2>1. Before({}) = {}
    BY DEF Before
  <2> QED BY <2>1, SumEmpty
<1>5. ASSUME NEW T \in SUBSET S, NEW x \in S \ T, T \in F PROVE T \cup {x} \in F
  <2>1. x \in Age /\ x \in Nat /\ T \subseteq Age
    BY <1>1
  <2>2. SumFunctionOnSet(h, T \cup {x}) = h[x] + SumFunctionOnSet(h, T)
    BY <1>2, <1>3, <1>5, <2>1, SumAdd
  <2>3. SumFunctionOnSet(f, Before(T)) \in Int
    BY <1>2, <2>1, SumInt DEF Before
  <2>4. CASE x = 0
    <3>0. \A g \in Age : g + 1 \in T \cup {x} <=> g + 1 \in T
      BY <1>1, <2>4
    <3>1. Before(T \cup {x}) = Before(T)
      BY <3>0 DEF Before
    <3> QED BY <1>5, <2>1, <2>2, <2>3, <2>4, <3>1
  <2>5. CASE x # 0
    <3>1. x - 1 \in Age /\ x - 1 \notin Before(T)
      BY <1>1, <1>5, <2>1, <2>5 DEF Before
    <3>2. Before(T \cup {x}) = Before(T) \cup {x - 1}
      <4>1. \A g \in Age : g + 1 \in T \cup {x} <=> g + 1 \in T \/ g = x - 1
        BY <1>1, <2>1
      <4> QED BY <3>1, <4>1 DEF Before
    <3>3. SumFunctionOnSet(f, Before(T) \cup {x - 1}) = f[x - 1] + SumFunctionOnSet(f, Before(T))
      BY <1>2, <2>1, <3>1, SumAdd DEF Before
    <3> QED BY <1>5, <2>1, <2>2, <2>5, <3>2, <3>3
  <2> QED BY <2>4, <2>5
<1>6. S \in F
  <2> HIDE DEF F
  <2> QED BY <1>2, <1>4, <1>5, SetInduction
<1> QED BY <1>6

(* What was let through since the counter's life began, age units ago, and  *)
(* what was let through before it within one interval.                      *)
InThisLife(a, age) == SumFunctionOnSet(recent[a], {g \in Age : g <= age})
BeforeThisLife(a, age) ==
  SumFunctionOnSet(recent[a], {g \in Age : age < g /\ g < Interval(a)})

(* Without a counter nothing was let through just now, and no more than one *)
(* window's worth within the last interval.  A counter is of some age, its  *)
(* age and what is left of its life make at least an interval; what it let  *)
(* through it still remembers, and before it there was one window at most.  *)
BetweenWindows(a) ==
  hits[owner[a]] = 0 => recent[a][0] = 0 /\ LetThrough(a, Interval(a)) <= Limit(a)

WithinWindow(a) ==
  hits[owner[a]] > 0 =>
    \E age \in Nat :
      /\ age + ttl[owner[a]] >= Interval(a)
      /\ InThisLife(a, age) <= Cardinality(GrantedTo(owner[a], a))
      /\ BeforeThisLife(a, age) <= Limit(a)

BurstInv == ~lost => \A a \in App : Alone(a) => BetweenWindows(a) /\ WithinWindow(a)

(* The history of an application, and the sums over parts of it.            *)
LEMMA RecentType ==
  ASSUME TypeOK, NEW a \in App
  PROVE  /\ \A g \in Age : recent[a][g] \in Nat
         /\ \A S \in SUBSET Age : IsFiniteSet(S) /\ SumFunctionOnSet(recent[a], S) \in Nat
         /\ 0 \in Age /\ Age \subseteq Nat
<1>1. \A g \in Age : recent[a][g] \in Nat
  BY DEF TypeOK
<1>2. IsFiniteSet(Age) /\ 0 \in Age /\ Age \subseteq Nat
  BY FS_Interval, BoundAssumption DEF Age
<1>3. ASSUME NEW S \in SUBSET Age
      PROVE  IsFiniteSet(S) /\ SumFunctionOnSet(recent[a], S) \in Nat
  BY <1>1, <1>2, FS_Subset, SumNat
<1> QED BY <1>1, <1>2, <1>3

(* What a counter remembers of one application is within its limit.         *)
LEMMA GrantedWithin ==
  ASSUME IInv, NEW a \in App
  PROVE  /\ IsFiniteSet(GrantedTo(owner[a], a))
         /\ Cardinality(GrantedTo(owner[a], a)) \in Nat
         /\ Cardinality(GrantedTo(owner[a], a)) <= Limit(a)
<1>1. owner[a] \in User /\ Limit(a) \in Nat
  BY RateOfType DEF IInv, TypeOK
<1>2. GrantedTo(owner[a], a) \subseteq 1 .. Limit(a)
  BY <1>1 DEF IInv, TypeOK, GrantsOk, GrantedTo
<1> QED BY <1>1, <1>2, AtMost, FS_CardinalityType

(* The invariant holds when the service starts.                             *)
LEMMA InitBurst == Init => BurstInv
<1> SUFFICES ASSUME Init, NEW a \in App PROVE BetweenWindows(a) /\ WithinWindow(a)
  BY DEF BurstInv
<1>1. TypeOK
  BY InitType
<1>2. owner[a] \in User /\ hits[owner[a]] = 0
  BY <1>1 DEF TypeOK, Init
<1>3. \A g \in Age : recent[a][g] = 0
  BY DEF Init, NoneRecent
<1>4. LetThrough(a, Interval(a)) <= Limit(a)
  <2> DEFINE S == {g \in Age : g < Interval(a)}
  <2>1. IsFiniteSet(S) /\ SumFunctionOnSet(recent[a], S) \in Nat
    BY <1>1, RecentType
  <2>2. SumFunctionOnSet(recent[a], S) <= 0 * Cardinality(S)
    BY <1>3, <2>1, SumAtMost
  <2>3. Cardinality(S) \in Nat /\ Limit(a) \in Nat
    BY <1>1, <2>1, FS_CardinalityType, RateOfType
  <2>4. SumFunctionOnSet(recent[a], S) <= Limit(a)
    BY <2>1, <2>2, <2>3
  <2> QED BY <2>4 DEF LetThrough
<1> QED BY <1>1, <1>2, <1>3, <1>4, RecentType DEF BetweenWindows, WithinWindow

(* Time passes: the history grows older by a unit.  A counter in its last   *)
(* moment is as old as an interval, so when it goes the last interval saw   *)
(* none but its own requests.                                               *)
LEMMA TickBurst ==
  ASSUME IInv, BurstInv, Tick
  PROVE  BurstInv'
<1> SUFFICES ASSUME ~lost, NEW a \in App, Alone(a)
             PROVE  (BetweenWindows(a) /\ WithinWindow(a))'
  BY DEF BurstInv, Tick, Alone, AppsOf, Interval, RateOf
<1> DEFINE u == owner[a]
           I == Interval(a)
<1>1. u \in User /\ I \in Nat \ {0} /\ Limit(a) \in Nat
  BY RateOfType DEF IInv, TypeOK
<1>2. BetweenWindows(a) /\ WithinWindow(a)
  BY DEF BurstInv
<1>3. /\ UNCHANGED <<owner, rate>>
      /\ hits'[u] = IF ttl[u] = 0 THEN 0 ELSE hits[u]
      /\ ttl'[u] = IF ttl[u] = -1 THEN -1 ELSE ttl[u] - 1
      /\ ttl[u] # 0 => grants'[u] = grants[u]
      /\ \A g \in Age : recent'[a][g] = IF g = 0 THEN 0 ELSE recent[a][g - 1]
  BY <1>1 DEF Tick, Expired
<1>4. Interval(a)' = I /\ Limit(a)' = Limit(a)
  BY <1>3 DEF Interval, Limit, RateOf
<1>5. hits[u] \in Nat /\ ttl[u] \in Nat \cup {-1} /\ (hits[u] > 0 <=> ttl[u] # -1)
  BY <1>1 DEF IInv, TypeOK, KeyOk
<1>6. /\ \A g \in Age : recent[a][g] \in Nat
      /\ \A S \in SUBSET Age : IsFiniteSet(S) /\ SumFunctionOnSet(recent[a], S) \in Nat
      /\ 0 \in Age /\ Age \subseteq Nat
  BY RecentType DEF IInv
<1>7. ASSUME NEW S \in SUBSET Age, NEW T \in SUBSET Age, Before(S) \subseteq T
      PROVE  /\ SumFunctionOnSet(recent'[a], S) <= SumFunctionOnSet(recent[a], T)
             /\ SumFunctionOnSet(recent'[a], S) \in Nat
  <2>1. SumFunctionOnSet(recent'[a], S) = SumFunctionOnSet(recent[a], Before(S))
    BY <1>3, <1>6, SumShift
  <2>2. Before(S) \in SUBSET Age
    BY DEF Before
  <2> QED BY <1>6, <1>7, <2>1, <2>2, SumMonotone
<1> HIDE DEF u, I
<1>8. BetweenWindows(a)'
  <2> DEFINE S == {g \in Age : g < I}
  <2> SUFFICES ASSUME hits'[u] = 0
               PROVE  recent'[a][0] = 0 /\ SumFunctionOnSet(recent'[a], S) <= Limit(a)
    BY <1>3, <1>4 DEF BetweenWindows, LetThrough, u
  <2>1. recent'[a][0] = 0
    BY <1>3, <1>6
  <2>2. CASE hits[u] = 0
    <3>1. SumFunctionOnSet(recent[a], S) <= Limit(a)
      BY <1>2, <2>2 DEF BetweenWindows, LetThrough, u, I
    <3>2. Before(S) \subseteq S
      <4>1. ASSUME NEW g \in Age, g + 1 \in S PROVE g \in S
        BY <1>1, <1>6, <4>1
      <4> QED BY <4>1 DEF Before
    <3>3. /\ SumFunctionOnSet(recent'[a], S) <= SumFunctionOnSet(recent[a], S)
          /\ SumFunctionOnSet(recent'[a], S) \in Nat
      BY <1>7, <3>2
    <3>4. SumFunctionOnSet(recent[a], S) \in Nat
      BY <1>6
    <3> HIDE DEF S
    <3> QED BY <1>1, <2>1, <3>1, <3>3, <3>4
  <2>3. CASE hits[u] > 0
    <3>1. ttl[u] = 0
      BY <1>3, <1>5, <2>3
    <3>2. PICK age \in Nat : /\ age + ttl[u] >= I
                             /\ InThisLife(a, age) <= Cardinality(GrantedTo(u, a))
      BY <1>2, <2>3 DEF WithinWindow, u, I
    <3> DEFINE T == {g \in Age : g <= age}
    <3>3. Before(S) \subseteq T
      <4>1. ASSUME NEW g \in Age, g + 1 \in S PROVE g \in T
        BY <1>1, <1>6, <3>1, <3>2, <4>1
      <4> QED BY <4>1 DEF Before
    <3>4. /\ SumFunctionOnSet(recent'[a], S) <= SumFunctionOnSet(recent[a], T)
          /\ SumFunctionOnSet(recent'[a], S) \in Nat
      BY <1>7, <3>3
    <3>5. SumFunctionOnSet(recent[a], T) \in Nat
      BY <1>6
    <3>6. SumFunctionOnSet(recent[a], T) <= Cardinality(GrantedTo(u, a))
      BY <3>2 DEF InThisLife
    <3>7. Cardinality(GrantedTo(u, a)) \in Nat /\ Cardinality(GrantedTo(u, a)) <= Limit(a)
      BY GrantedWithin DEF u
    <3> HIDE DEF S, T
    <3> QED BY <1>1, <2>1, <3>4, <3>5, <3>6, <3>7
  <2> QED BY <1>5, <2>2, <2>3
<1>9. WithinWindow(a)'
  <2> SUFFICES ASSUME hits'[u] > 0
               PROVE  \E age \in Nat :
                        /\ age + ttl'[u] >= I
                        /\ InThisLife(a, age)' <= Cardinality(GrantedTo(u, a)')
                        /\ BeforeThisLife(a, age)' <= Limit(a)
    BY <1>3, <1>4 DEF WithinWindow, GrantedTo, u
  <2>1. hits[u] > 0 /\ ttl[u] # 0 /\ ttl[u] \in Nat /\ ttl'[u] = ttl[u] - 1
    BY <1>3, <1>5
  <2>2. PICK age \in Nat : /\ age + ttl[u] >= I
                           /\ InThisLife(a, age) <= Cardinality(GrantedTo(u, a))
                           /\ BeforeThisLife(a, age) <= Limit(a)
    BY <1>2, <2>1 DEF WithinWindow, u, I
  <2>3. GrantedTo(u, a)' = GrantedTo(u, a)
    BY <1>3, <2>1 DEF GrantedTo, u
  <2> DEFINE T == {g \in Age : g <= age}
             S == {g \in Age : g <= age + 1}
             Told == {g \in Age : age < g /\ g < I}
             Sold == {g \in Age : age + 1 < g /\ g < I}
  <2>4. Before(S) \subseteq T /\ Before(Sold) \subseteq Told
    <3>1. ASSUME NEW g \in Age, g + 1 \in S PROVE g \in T
      BY <1>6, <3>1
    <3>2. ASSUME NEW g \in Age, g + 1 \in Sold PROVE g \in Told
      BY <1>1, <1>6, <3>2
    <3> QED BY <3>1, <3>2 DEF Before
  <2>5. /\ SumFunctionOnSet(recent'[a], S) <= SumFunctionOnSet(recent[a], T)
        /\ SumFunctionOnSet(recent'[a], S) \in Nat
    BY <1>7, <2>4
  <2>6. /\ SumFunctionOnSet(recent'[a], Sold) <= SumFunctionOnSet(recent[a], Told)
        /\ SumFunctionOnSet(recent'[a], Sold) \in Nat
    BY <1>7, <2>4
  <2>7. SumFunctionOnSet(recent[a], T) \in Nat /\ SumFunctionOnSet(recent[a], Told) \in Nat
    BY <1>6
  <2>8. /\ InThisLife(a, age) = SumFunctionOnSet(recent[a], T)
        /\ BeforeThisLife(a, age) = SumFunctionOnSet(recent[a], Told)
        /\ InThisLife(a, age + 1)' = SumFunctionOnSet(recent'[a], S)
        /\ BeforeThisLife(a, age + 1)' = SumFunctionOnSet(recent'[a], Sold)
    BY <1>4 DEF InThisLife, BeforeThisLife, I
  <2>9. Cardinality(GrantedTo(u, a)) \in Nat
    BY GrantedWithin DEF u
  <2>10. age + 1 \in Nat /\ (age + 1) + ttl'[u] >= I
    BY <1>1, <2>1, <2>2
  <2> HIDE DEF S, T, Sold, Told
  <2>11. InThisLife(a, age + 1)' <= Cardinality(GrantedTo(u, a)')
    BY <2>2, <2>3, <2>5, <2>7, <2>8, <2>9
  <2>12. BeforeThisLife(a, age + 1)' <= Limit(a)
    BY <1>1, <2>2, <2>6, <2>7, <2>8
  <2> QED BY <2>10, <2>11, <2>12
<1> QED BY <1>8, <1>9

(* The script counts a request: a new counter begins with none let through  *)
(* so far, one that is renewed in its last moment grows older than an       *)
(* interval, and a request let through is remembered where it is counted.   *)
LEMMA CountBurst ==
  ASSUME IInv, BurstInv, NEW r \in Request, Count(r)
  PROVE  BurstInv'
<1> SUFFICES ASSUME ~lost, NEW a \in App, Alone(a)
             PROVE  (BetweenWindows(a) /\ WithinWindow(a))'
  BY DEF BurstInv, Count, Alone, AppsOf, Interval, RateOf
<1> DEFINE u == owner[a]
           I == Interval(a)
           v == req[r].user
           b == req[r].app
           n == Incremented(v)
           Through == ~IsOverLimit(n, b)
<1>1. u \in User /\ I \in Nat \ {0} /\ Limit(a) \in Nat
  BY RateOfType DEF IInv, TypeOK
<1>2. v \in User /\ b \in App /\ owner[b] = v
  BY RequestType DEF IInv, Count, OnlyOwnersAreCounted
<1>3. BetweenWindows(a) /\ WithinWindow(a)
  BY DEF BurstInv
<1>4. hits[v] \in 0 .. MaxHits /\ n \in 1 .. MaxHits /\ hits[v] <= n
  BY <1>2, IncrementedType DEF IInv, TypeOK
<1>5. /\ UNCHANGED <<owner, rate>>
      /\ hits' = [hits EXCEPT ![v] = n]
      /\ ttl' = [ttl EXCEPT ![v] = Life(v, b)]
      /\ ~Through => UNCHANGED <<grants, recent>>
      /\ Through =>
           /\ grants' = [grants EXCEPT ![v] =
                [m \in DOMAIN grants[v] \cup {n} |-> IF m = n THEN b ELSE grants[v][m]]]
           /\ recent' = [recent EXCEPT ![b][0] = @ + 1]
  BY DEF Count
<1>6. Interval(a)' = I /\ Limit(a)' = Limit(a)
  BY <1>5 DEF Interval, Limit, RateOf
<1>7. hits[u] \in Nat /\ ttl[u] \in Nat \cup {-1} /\ (hits[u] > 0 <=> ttl[u] # -1)
  BY <1>1 DEF IInv, TypeOK, KeyOk
<1>8. /\ \A g \in Age : recent[a][g] \in Nat
      /\ \A S \in SUBSET Age : IsFiniteSet(S) /\ SumFunctionOnSet(recent[a], S) \in Nat
      /\ 0 \in Age /\ Age \subseteq Nat
  BY RecentType DEF IInv
<1>9. /\ IsFiniteSet(GrantedTo(u, a)) /\ Cardinality(GrantedTo(u, a)) \in Nat
      /\ Cardinality(GrantedTo(u, a)) <= Limit(a)
  BY GrantedWithin
<1>10. hits \in [User -> 0 .. MaxHits] /\ DOMAIN grants = User /\ ttl \in [User -> Nat \cup {-1}]
       /\ recent \in [App -> [Age -> Nat]] /\ DOMAIN ttl = User
  BY DEF IInv, TypeOK
(* What is let through for this application in this step, and remembered.   *)
<1>11. CASE v # u
  <2>1. a # b
    BY <1>2, <1>11
  <2>2. recent'[a] = recent[a] /\ hits'[u] = hits[u] /\ ttl'[u] = ttl[u] /\ grants'[u] = grants[u]
    <3> HIDE DEF u, v, b, n, Through
    <3> QED BY <1>1, <1>2, <1>5, <1>10, <1>11, <2>1
  <2>3. BetweenWindows(a)'
    BY <1>3, <1>5, <1>6, <2>2 DEF BetweenWindows, LetThrough
  <2>4. WithinWindow(a)'
    <3> SUFFICES ASSUME hits[u] > 0
                 PROVE  \E age \in Nat :
                          /\ age + ttl[u] >= I
                          /\ InThisLife(a, age)' <= Cardinality(GrantedTo(u, a)')
                          /\ BeforeThisLife(a, age)' <= Limit(a)
      BY <1>5, <1>6, <2>2 DEF WithinWindow, GrantedTo
    <3>1. GrantedTo(u, a)' = GrantedTo(u, a)
      BY <1>5, <2>2 DEF GrantedTo
    <3>2. \A age \in Nat : /\ InThisLife(a, age)' = InThisLife(a, age)
                           /\ BeforeThisLife(a, age)' = BeforeThisLife(a, age)
      BY <1>6, <2>2 DEF InThisLife, BeforeThisLife
    <3> QED BY <1>3, <3>1, <3>2 DEF WithinWindow
  <2> QED BY <2>3, <2>4
<1>12. CASE v = u
  <2>1. hits'[u] = n /\ n > 0 /\ ttl'[u] = Life(u, b) /\ Interval(b) = I
    BY <1>1, <1>2, <1>4, <1>5, <1>10, <1>12 DEF Alone, AppsOf
  <2>2. ttl'[u] = IF ttl[u] <= 0 THEN I ELSE ttl[u]
    BY <2>1 DEF Life
  <2>3. BetweenWindows(a)'
    BY <1>4, <1>5, <2>1 DEF BetweenWindows
  <2> DEFINE mine == Through /\ b = a
             one == IF mine THEN 1 ELSE 0
  <2>4. \A g \in Age : recent'[a][g] = IF mine /\ g = 0 THEN recent[a][g] + 1 ELSE recent[a][g]
    <3> HIDE DEF u, v, b, n, Through
    <3> QED BY <1>2, <1>5, <1>8, <1>10
  <2>5. Through => n \notin DOMAIN grants[u]
    <3> SUFFICES ASSUME Through PROVE n \notin DOMAIN grants[u]
      OBVIOUS
    <3>1. n <= Limit(b) /\ Limit(b) < MaxHits /\ Limit(b) \in Nat
      BY <1>2, <1>4, RateOfType DEF IsOverLimit, IInv
    <3>2. n = hits[u] + 1
      BY <1>4, <1>12, <3>1, BoundAssumption DEF Incremented
    <3>3. DOMAIN grants[u] \subseteq 1 .. hits[u]
      BY <1>1 DEF IInv, TypeOK
    <3> QED BY <1>7, <3>2, <3>3
  <2>6. GrantedTo(u, a)' = GrantedTo(u, a) \cup (IF mine THEN {n} ELSE {})
    <3>1. CASE ~Through
      BY <1>5, <3>1 DEF GrantedTo
    <3>2. CASE Through
      <4>1. grants'[u] = [m \in DOMAIN grants[u] \cup {n} |-> IF m = n THEN b ELSE grants[u][m]]
        <5> HIDE DEF u, v, b, n, Through
        <5> QED BY <1>1, <1>5, <1>10, <1>12, <3>2
      <4>2. GrantedTo(u, a)' = {m \in DOMAIN grants'[u] : grants'[u][m] = a}
        BY <1>5 DEF GrantedTo
      <4> HIDE DEF u, v, b, n, Through
      <4> QED BY <2>5, <3>2, <4>1, <4>2 DEF GrantedTo
    <3> QED BY <3>1, <3>2
  <2>7. n \notin GrantedTo(u, a) \/ ~mine
    BY <2>5 DEF GrantedTo
  <2>8. Cardinality(GrantedTo(u, a)') = Cardinality(GrantedTo(u, a)) + one
    <3> HIDE DEF u, n, Through
    <3>1. CASE mine
      BY <1>9, <2>6, <2>7, <3>1, FS_AddElement
    <3>2. CASE ~mine
      <4>1. GrantedTo(u, a)' = GrantedTo(u, a) /\ one = 0
        BY <2>6, <3>2
      <4> HIDE DEF one
      <4> QED BY <1>9, <4>1
    <3> QED BY <3>1, <3>2
  <2>9. ASSUME NEW age \in Nat
        PROVE  /\ InThisLife(a, age)' = InThisLife(a, age) + one
               /\ BeforeThisLife(a, age)' = BeforeThisLife(a, age)
               /\ InThisLife(a, age) \in Nat
    <3> DEFINE S == {g \in Age : g <= age}
               Sold == {g \in Age : age < g /\ g < I}
    <3>1. /\ InThisLife(a, age)' = SumFunctionOnSet(recent'[a], S)
          /\ InThisLife(a, age) = SumFunctionOnSet(recent[a], S)
          /\ BeforeThisLife(a, age)' = SumFunctionOnSet(recent'[a], Sold)
          /\ BeforeThisLife(a, age) = SumFunctionOnSet(recent[a], Sold)
      BY <1>6 DEF InThisLife, BeforeThisLife
    <3> HIDE DEF mine, I
    <3>2. 0 \in S /\ S \subseteq Age /\ 0 \notin Sold /\ Sold \subseteq Age
      BY <1>8
    <3> HIDE DEF S, Sold
    <3>21. IsFiniteSet(S) /\ IsFiniteSet(Sold) /\ SumFunctionOnSet(recent[a], S) \in Nat
      BY <1>8, <3>2
    <3>3. \A g \in S : /\ recent[a][g] \in Int /\ recent'[a][g] \in Int
                       /\ g # 0 => recent[a][g] = recent'[a][g]
      BY <1>8, <2>4, <3>2
    <3>4. SumFunctionOnSet(recent'[a], S) =
            SumFunctionOnSet(recent[a], S) + recent'[a][0] - recent[a][0]
      BY <3>2, <3>21, <3>3, SumChange
    <3>5. SumFunctionOnSet(recent[a], Sold) = SumFunctionOnSet(recent'[a], Sold)
      <4>1. \A g \in Sold : recent[a][g] = recent'[a][g] /\ recent[a][g] \in Int
        BY <1>8, <2>4, <3>2
      <4> QED BY <3>21, <4>1, SumCongruence
    <3>6. recent'[a][0] - recent[a][0] = one /\ recent[a][0] \in Nat /\ recent'[a][0] \in Nat
      BY <1>8, <2>4
    <3> QED BY <3>1, <3>21, <3>4, <3>5, <3>6
  <2>10. \E age \in Nat :
           /\ age + ttl'[u] >= I
           /\ InThisLife(a, age) <= Cardinality(GrantedTo(u, a))
           /\ BeforeThisLife(a, age) <= Limit(a)
    <3>1. CASE hits[u] = 0
      <4> DEFINE S == {g \in Age : g < I}
                 Sold == {g \in Age : 0 < g /\ g < I}
      <4>1. recent[a][0] = 0 /\ SumFunctionOnSet(recent[a], S) <= Limit(a)
        BY <1>3, <3>1 DEF BetweenWindows, LetThrough
      <4>2. InThisLife(a, 0) = 0
        <5>1. {g \in Age : g <= 0} = {0}
          <6>1. \A g \in Age : g <= 0 <=> g = 0
            BY <1>8
          <6> QED BY <1>8, <6>1
        <5>2. SumFunctionOnSet(recent[a], {0}) = recent[a][0] + SumFunctionOnSet(recent[a], {} )
          <6>1. {0} = {} \cup {0} /\ IsFiniteSet({})
            BY FS_EmptySet
          <6>2. SumFunctionOnSet(recent[a], {} \cup {0}) =
                  recent[a][0] + SumFunctionOnSet(recent[a], {})
            <7>1. 0 \notin {} /\ \A x \in {} \cup {0} : recent[a][x] \in Int
              BY <4>1
            <7> QED BY <6>1, <7>1, SumAdd
          <6> QED BY <6>1, <6>2
        <5> QED BY <4>1, <5>1, <5>2, SumEmpty DEF InThisLife
      <4>3. SumFunctionOnSet(recent[a], Sold) <= SumFunctionOnSet(recent[a], S)
        BY <1>8, SumMonotone
      <4>4. SumFunctionOnSet(recent[a], Sold) \in Nat /\ SumFunctionOnSet(recent[a], S) \in Nat
        BY <1>8
      <4>5. BeforeThisLife(a, 0) = SumFunctionOnSet(recent[a], Sold)
        BY DEF BeforeThisLife
      <4> HIDE DEF u, I, S, Sold
      <4>6. BeforeThisLife(a, 0) <= Limit(a)
        BY <1>1, <4>1, <4>3, <4>4, <4>5
      <4>7. ttl'[u] = I
        BY <1>7, <2>2, <3>1
      <4> QED BY <1>1, <1>9, <4>2, <4>6, <4>7
    <3>2. CASE hits[u] > 0
      <4>1. PICK age \in Nat : /\ age + ttl[u] >= I
                               /\ InThisLife(a, age) <= Cardinality(GrantedTo(u, a))
                               /\ BeforeThisLife(a, age) <= Limit(a)
        BY <1>3, <3>2 DEF WithinWindow
      <4>2. age + ttl'[u] >= I
        <5> HIDE DEF u, I
        <5> QED BY <1>1, <1>7, <2>2, <4>1
      <4> QED BY <4>1, <4>2
    <3> QED BY <1>7, <3>1, <3>2
  <2>11. WithinWindow(a)'
    <3>1. PICK age \in Nat :
            /\ age + ttl'[u] >= I
            /\ InThisLife(a, age) <= Cardinality(GrantedTo(u, a))
            /\ BeforeThisLife(a, age) <= Limit(a)
      BY <2>10
    <3>2. /\ InThisLife(a, age)' <= Cardinality(GrantedTo(u, a)')
          /\ BeforeThisLife(a, age)' <= Limit(a)
      <4>1. one \in Nat
        OBVIOUS
      <4> HIDE DEF one, u
      <4> QED BY <1>9, <2>8, <2>9, <3>1, <4>1
    <3> QED BY <1>5, <1>6, <3>1, <3>2 DEF WithinWindow, GrantedTo
  <2> QED BY <2>3, <2>11
<1> QED BY <1>11, <1>12

(* Every step keeps the invariant.                                          *)
LEMMA NextBurst == IInv /\ BurstInv /\ [Next]_vars => BurstInv'
<1> SUFFICES ASSUME IInv, BurstInv, [Next]_vars PROVE BurstInv'
  OBVIOUS
<1>1. ASSUME UNCHANGED <<owner, rate, hits, ttl, grants, recent, lost>> PROVE BurstInv'
  BY <1>1 DEF BurstInv, Alone, AppsOf, BetweenWindows, WithinWindow, LetThrough, InThisLife,
              BeforeThisLife, GrantedTo, Interval, Limit, RateOf
<1>2. ASSUME NEW r \in Request, NEW u \in User, NEW a \in App, Arrive(r, u, a)
      PROVE  BurstInv'
  BY <1>1, <1>2 DEF Arrive
<1>3. ASSUME NEW r \in Request, Authenticate(r) PROVE BurstInv'
  BY <1>1, <1>3 DEF Authenticate
<1>4. ASSUME NEW r \in Request, Count(r) PROVE BurstInv'
  BY <1>4, CountBurst
<1>5. ASSUME NEW r \in Request, Answer(r) \/ Resend(r) \/ Fail(r) PROVE BurstInv'
  BY <1>1, <1>5 DEF Answer, Resend, Fail
<1>6. ASSUME NEW a \in Revocable, Deactivate(a) PROVE BurstInv'
  BY <1>1, <1>6 DEF Deactivate
<1>7. ASSUME NEW u \in User, LoseCounter(u) PROVE BurstInv'
  BY <1>7 DEF LoseCounter, BurstInv
<1>8. CASE Tick
  BY <1>8, TickBurst
<1>9. CASE UNCHANGED vars
  BY <1>1, <1>9 DEF vars
<1> QED BY <1>2, <1>3, <1>4, <1>5, <1>6, <1>7, <1>8, <1>9 DEF Next, Step

(* A stretch of one interval lies in the counter's life and before it: two  *)
(* windows at most.                                                         *)
LEMMA TwoWindows == IInv /\ BurstInv => BurstBound
<1> SUFFICES ASSUME IInv, BurstInv, ~lost, NEW a \in App, Alone(a)
             PROVE  LetThrough(a, Interval(a)) <= 2 * Limit(a)
  BY DEF BurstBound
<1> DEFINE u == owner[a]
           I == Interval(a)
           S == {g \in Age : g < I}
<1>1. u \in User /\ I \in Nat \ {0} /\ Limit(a) \in Nat /\ hits[u] \in Nat
  BY RateOfType DEF IInv, TypeOK
<1>2. /\ \A g \in Age : recent[a][g] \in Nat
      /\ \A T \in SUBSET Age : IsFiniteSet(T) /\ SumFunctionOnSet(recent[a], T) \in Nat
      /\ 0 \in Age /\ Age \subseteq Nat
  BY RecentType DEF IInv
<1>3. BetweenWindows(a) /\ WithinWindow(a)
  BY DEF BurstInv
<1>4. LetThrough(a, I) = SumFunctionOnSet(recent[a], S)
  BY DEF LetThrough
<1>5. CASE hits[u] = 0
  <2>1. SumFunctionOnSet(recent[a], S) <= Limit(a)
    BY <1>3, <1>5 DEF BetweenWindows, LetThrough
  <2>2. SumFunctionOnSet(recent[a], S) \in Nat
    BY <1>2
  <2> HIDE DEF I, S
  <2>3. SumFunctionOnSet(recent[a], S) <= 2 * Limit(a)
    BY <1>1, <2>1, <2>2
  <2> QED BY <1>4, <2>3 DEF I
<1>6. CASE hits[u] > 0
  <2>1. PICK age \in Nat : /\ InThisLife(a, age) <= Cardinality(GrantedTo(u, a))
                           /\ BeforeThisLife(a, age) <= Limit(a)
    BY <1>3, <1>6 DEF WithinWindow
  <2> DEFINE T == {g \in Age : g <= age}
             Told == {g \in Age : age < g /\ g < I}
  <2>2. /\ S \subseteq T \cup Told /\ T \cap Told = {}
        /\ S \subseteq Age /\ T \subseteq Age /\ Told \subseteq Age
    <3> HIDE DEF u, I
    <3>1. \A g \in Age : /\ g < I => g <= age \/ (age < g /\ g < I)
                         /\ ~(g <= age /\ age < g)
      BY <1>1, <1>2
    <3> QED BY <3>1
  <2>3. /\ InThisLife(a, age) = SumFunctionOnSet(recent[a], T)
        /\ BeforeThisLife(a, age) = SumFunctionOnSet(recent[a], Told)
    BY DEF InThisLife, BeforeThisLife
  <2>4. Cardinality(GrantedTo(u, a)) \in Nat /\ Cardinality(GrantedTo(u, a)) <= Limit(a)
    BY GrantedWithin
  <2> HIDE DEF u, I, S, T, Told
  <2>5. SumFunctionOnSet(recent[a], S) <= SumFunctionOnSet(recent[a], T \cup Told)
    <3>1. T \cup Told \in SUBSET Age
      BY <2>2
    <3> QED BY <1>2, <2>2, <3>1, SumMonotone
  <2>6. SumFunctionOnSet(recent[a], T \cup Told) =
          SumFunctionOnSet(recent[a], T) + SumFunctionOnSet(recent[a], Told)
    <3>1. IsFiniteSet(T) /\ IsFiniteSet(Told) /\ \A g \in T \cup Told : recent[a][g] \in Int
      BY <1>2, <2>2
    <3> QED BY <2>2, <3>1, SumDisjoint
  <2>7. /\ SumFunctionOnSet(recent[a], T) \in Nat /\ SumFunctionOnSet(recent[a], Told) \in Nat
        /\ SumFunctionOnSet(recent[a], S) \in Nat
    BY <1>2, <2>2
  <2>8. SumFunctionOnSet(recent[a], S) <= 2 * Limit(a)
    BY <1>1, <2>1, <2>3, <2>4, <2>5, <2>6, <2>7
  <2> QED BY <1>4, <2>8 DEF I
<1> QED BY <1>1, <1>5, <1>6

(* Over any stretch of one interval an application whose user's             *)
(* applications have that same interval gets at most two windows' worth     *)
(* through, while Redis keeps its counters.                                 *)
THEOREM BurstsAreBounded == Spec => []BurstBound
<1> QED BY InitBurst, NextBurst, TwoWindows, Invariant, PTL DEF Spec

-----------------------------------------------------------------------------
(* No request, repeat or failure gives a running window more time or takes  *)
(* back what it has counted, unless Redis loses the counter; only time      *)
(* shortens it (throttler-storage-redis.service.ts 28-41).                  *)
WindowRunsDown ==
  \A u \in User : ttl[u] > 0 =>
    \/ ttl'[u] = ttl[u] /\ hits'[u] >= hits[u]
    \/ ttl'[u] = ttl[u] - 1 /\ hits'[u] = hits[u]
    \/ ttl'[u] = -1 /\ hits'[u] = 0 /\ lost'

(* A window that is open runs down to its end, however requests follow on   *)
(* one another (the safety part of WindowCloses).                           *)
THEOREM WindowsRunDown == Spec => [][WindowRunsDown]_vars
<1>1. TypeOK /\ [Next]_vars => [WindowRunsDown]_vars
  <2> SUFFICES ASSUME TypeOK, Next, NEW u \in User, ttl[u] > 0
               PROVE  \/ ttl'[u] = ttl[u] /\ hits'[u] >= hits[u]
                      \/ ttl'[u] = ttl[u] - 1 /\ hits'[u] = hits[u]
                      \/ ttl'[u] = -1 /\ hits'[u] = 0 /\ lost'
    BY DEF WindowRunsDown
  <2>1. hits[u] \in Nat /\ ttl[u] \in Nat /\ hits \in [User -> 0 .. MaxHits]
        /\ ttl \in [User -> Nat \cup {-1}]
    BY BoundAssumption DEF TypeOK
  <2>2. CASE UNCHANGED <<hits, ttl>>
    BY <2>1, <2>2
  <2>3. ASSUME NEW r \in Request, Count(r)
        PROVE  ttl'[u] = ttl[u] /\ hits'[u] >= hits[u]
    <3> DEFINE w == req[r].user
               a == req[r].app
               n == Incremented(w)
    <3>1. hits' = [hits EXCEPT ![w] = n] /\ ttl' = [ttl EXCEPT ![w] = Life(w, a)]
      BY <2>3 DEF Count
    <3>2. w \in User
      BY <2>3, RequestType DEF Count
    <3>3. n \in Nat /\ hits[w] <= n
      BY <3>2, IncrementedType
    <3>4. w = u => Life(w, a) = ttl[u]
      BY <2>1 DEF Life
    <3> HIDE DEF w, a, n
    <3> QED BY <2>1, <3>1, <3>2, <3>3, <3>4
  <2>4. ASSUME Tick PROVE ttl'[u] = ttl[u] - 1 /\ hits'[u] = hits[u]
    BY <2>1, <2>4 DEF Tick, Expired
  <2>5. ASSUME NEW w \in User, LoseCounter(w)
        PROVE  \/ ttl'[u] = ttl[u] /\ hits'[u] >= hits[u]
               \/ ttl'[u] = -1 /\ hits'[u] = 0 /\ lost'
    BY <2>1, <2>5 DEF LoseCounter
  <2> QED BY <2>2, <2>3, <2>4, <2>5
       DEF Next, Step, Arrive, Authenticate, Answer, Resend, Fail, Deactivate
<1> QED BY <1>1, TypeCorrect, PTL DEF Spec
=============================================================================
