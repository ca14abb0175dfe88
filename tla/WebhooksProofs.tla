--------------------------- MODULE WebhooksProofs ---------------------------
(***************************************************************************)
(* Theorems about Webhooks, for any number of requests and replicas and any *)
(* columns, values and bodies.                                              *)
(***************************************************************************)
EXTENDS Webhooks, SequenceTheorems, WellFoundedInduction, TLAPS

(* The last entry of a longer log is the new one.                           *)
LEMMA Extended ==
  ASSUME NEW S, NEW s \in Seq(S), NEW w \in S
  PROVE  /\ Append(s, w) \in Seq(S)
         /\ DOMAIN Append(s, w) = DOMAIN s \cup {Len(s) + 1}
         /\ \A n \in DOMAIN s : n \in Int /\ n < Len(s) + 1
         /\ \A n \in DOMAIN s : Append(s, w)[n] = s[n] /\ s[n] \in S
         /\ Append(s, w)[Len(s) + 1] = w
         /\ Len(s) \in Nat
<1>1. Len(s) \in Nat /\ DOMAIN s = 1 .. Len(s) /\ \A n \in 1 .. Len(s) : s[n] \in S
  BY LenProperties, ElementOfSeq
<1>2. Append(s, w) \in Seq(S)
  BY AppendProperties
<1>3. Len(Append(s, w)) = Len(s) + 1 /\ DOMAIN Append(s, w) = 1 .. (Len(s) + 1)
  BY <1>2, AppendProperties, LenProperties
<1>4. \A n \in 1 .. Len(s) : Append(s, w)[n] = s[n]
  BY AppendProperties
<1>5. Append(s, w)[Len(s) + 1] = w
  BY AppendProperties
<1> QED
  BY <1>1, <1>2, <1>3, <1>4, <1>5

(* The columns an update gives are columns of a webhook.                    *)
LEMMA WrittenType ==
  ASSUME NEW b \in Fields
  PROVE  Written(b) \in Fields
BY ValAssumption DEF Written, Fields, Column

(* What a request writes is a write.                                        *)
LEMMA MutationType ==
  ASSUME TypeOK, NEW r \in Request
  PROVE  Mutation(r) \in Write
<1>1. body[r] \in Fields /\ target[r] \in Id /\ r \in Id
  BY DEF TypeOK, Id
<1>2. Written(body[r]) \in Fields
  BY <1>1, WrittenType
<1>3. Nothing \in Fields
  BY DEF Nothing, Fields
<1> QED
  BY <1>1, <1>2, <1>3 DEF Mutation, Write

(* A set of positions that is not empty has a last one.                     *)
LEMMA HasMax ==
  ASSUME NEW k \in Nat, NEW T, T \subseteq 1 .. k, T # {}
  PROVE  Max(T) \in T /\ \A t \in T : t <= Max(T)
<1> DEFINE D == {k - t : t \in T}
<1>1. D \subseteq Nat /\ D # {}
  <2>1. \A t \in T : k - t \in Nat
    OBVIOUS
  <2> QED BY <2>1
<1> DEFINE Less == OpToRel(<, Nat)
<1>2. IsWellFoundedOn(Less, Nat)
  BY NatLessThanWellFounded
<1>3. PICK d \in D : \A e \in D : ~ (<<e, d>> \in Less)
  <2> HIDE DEF D, Less
  <2> QED BY <1>1, <1>2, WFMin
<1>4. PICK t \in T : d = k - t
  BY <1>3
<1>5. \A e \in D : ~ (e < d)
  BY <1>1, <1>3 DEF OpToRel
<1>6. \A u \in T : u <= t
  <2> TAKE u \in T
  <2>1. k - u \in D
    OBVIOUS
  <2>2. ~ (k - u < k - t)
    BY <2>1, <1>4, <1>5
  <2> QED BY <2>2
<1>7. \E x \in T : \A y \in T : x >= y
  BY <1>6
<1>8. Max(T) \in T /\ \A y \in T : Max(T) >= y
  BY <1>7 DEF Max
<1> QED
  BY <1>8

(* What a replica answers is a row of columns.                              *)
LEMMA RowType ==
  ASSUME NEW i, NEW M \in SUBSET Decided, log \in Seq(Write)
  PROVE  Row(i, M) \in Fields
<1> SUFFICES ASSUME NEW f \in Column
             PROVE  Row(i, M)[f] \in Val \cup {Null}
  BY DEF Row, Fields
<1> DEFINE giving == {n \in Live(i, M) : log[n].fields[f] # Null}
<1>1. Row(i, M)[f] = IF giving = {} THEN Null ELSE log[Max(giving)].fields[f]
  BY DEF Row
<1>2. Len(log) \in Nat /\ Decided = 1 .. Len(log)
  BY LenProperties DEF Decided
<1>3. giving \subseteq 1 .. Len(log)
  BY <1>2 DEF Live
<1> HIDE DEF giving
<1>4. CASE giving # {}
  <2>1. Max(giving) \in 1 .. Len(log)
    BY <1>2, <1>3, <1>4, HasMax
  <2>2. log[Max(giving)] \in Write
    BY <2>1, ElementOfSeq
  <2>3. log[Max(giving)].fields \in Fields
    BY <2>2 DEF Write
  <2> QED BY <1>1, <1>4, <2>3 DEF Fields
<1>5. CASE giving = {}
  BY <1>1, <1>5
<1> QED
  BY <1>4, <1>5

-----------------------------------------------------------------------------

(* A result of Read is a webhook or nothing, and the log's writes stay.     *)
LEMMA InitType == Init => TypeOK
<1> SUFFICES ASSUME Init PROVE TypeOK
  OBVIOUS
<1> DEFINE w == [id |-> First, op |-> "write", by |-> First, fields |-> [f \in Column |-> Zero]]
<1>1. w \in Write
  BY ValAssumption DEF Write, Fields, Id
<1>2. log = <<w>>
  BY DEF Init
<1>3. log \in Seq(Write) /\ DOMAIN log = {1}
  <2> HIDE DEF w
  <2> QED BY <1>1, <1>2
<1>4. Nothing \in Fields
  BY DEF Nothing, Fields
<1> QED
  BY <1>3, <1>4 DEF Init, TypeOK, Kind, Id

(* Every step keeps the types.                                              *)
LEMMA NextType == TypeOK /\ [Next]_vars => TypeOK'
<1> SUFFICES ASSUME TypeOK, [Next]_vars PROVE TypeOK'
  OBVIOUS
<1> USE DEF TypeOK
<1>0. Nothing \in Fields
  BY DEF Nothing, Fields
<1>1. ASSUME NEW r \in Request, NEW k \in Kind, NEW i \in Id, NEW b \in Body \cup {Nothing},
             Arrive(r, k, i, b)
      PROVE  TypeOK'
  <2>1. b \in Fields
    BY <1>0, BodyAssumption
  <2>2. pc' \in [Request -> {"idle", "lookup", "write", "read", "done"}]
    BY <1>1 DEF Arrive, Kind
  <2> QED BY <1>1, <2>1, <2>2 DEF Arrive, database, result
<1>2. ASSUME NEW r \in Request, Lookup(r) PROVE TypeOK'
  BY <1>2 DEF Lookup, Answer, database, args
<1>3. ASSUME NEW r \in Request, Decide(r) PROVE TypeOK'
  <2>1. log' \in Seq(Write) /\ has' \in [Replica -> SUBSET DOMAIN log']
    <3>1. CASE Holds(r)
      <4>1. log' = Append(log, Mutation(r)) /\ Mutation(r) \in Write
        BY <1>3, <3>1, MutationType DEF Decide
      <4>2. log' \in Seq(Write) /\ DOMAIN log' = DOMAIN log \cup {Len(log) + 1}
        BY <4>1, Extended
      <4>3. PICK c \in Replica : has' = [has EXCEPT ![c] = @ \cup {Len(log) + 1}]
        BY <1>3, <3>1 DEF Decide
      <4> QED BY <4>2, <4>3
    <3>2. CASE ~Holds(r)
      BY <1>3, <3>2 DEF Decide
    <3> QED BY <3>1, <3>2
  <2>2. /\ pc' \in [Request -> {"idle", "lookup", "write", "read", "done"}]
        /\ outcome' \in [Request -> {"none", "success", "notFound", "error"}]
    BY <1>3 DEF Decide, Acknowledge, Answer
  <2> QED BY <1>3, <2>1, <2>2 DEF Decide, args
<1>4. ASSUME NEW r \in Request, Read(r) PROVE TypeOK'
  <2>1. PICK c \in Replica :
          /\ Found(r, has[c])
          /\ answer' = [answer EXCEPT ![r] = Row(target[r], has[c])]
          /\ lagging' = [lagging EXCEPT ![r] = has[c] # Decided]
    BY <1>4 DEF Read
  <2>2. has[c] \in SUBSET Decided
    BY DEF Decided
  <2>3. Row(target[r], has[c]) \in Fields
    BY <2>2, RowType
  <2> QED BY <1>4, <2>1, <2>3 DEF Read, Found, Answer, database, args
<1>5. ASSUME NEW r \in Request, TimeOut(r) PROVE TypeOK'
  BY <1>5 DEF TimeOut, Answer, database, args
<1>6. ASSUME NEW r \in Request, Lose(r) PROVE TypeOK'
  BY <1>6 DEF Lose, database, args, result
<1>7. ASSUME NEW c \in Replica, NEW n \in Decided, Learn(c, n) PROVE TypeOK'
  BY <1>7 DEF Learn, args, result, Decided
<1>8. CASE Subscribe
  BY <1>8 DEF Subscribe, args, result
<1>9. CASE UNCHANGED vars
  BY <1>9 DEF vars
<1> QED
  BY <1>1, <1>2, <1>3, <1>4, <1>5, <1>6, <1>7, <1>8, <1>9 DEF Next

(* Every variable has its type.                                             *)
THEOREM TypeCorrect == Spec => []TypeOK
<1> QED BY InitType, NextType, PTL DEF Spec
-----------------------------------------------------------------------------
(* What the log says of the requests, and the requests of the log.          *)

Gone(i) == \E n \in Decided : IsRemoval(n, i)

(* A write of a request is its only step of that kind, and is what its      *)
(* client asked for.                                                        *)
WriteOk(n) ==
  log[n].by \in Request =>
    /\ pc[log[n].by] \in {"write", "read", "done"} /\ log[n].by \notin inFlight
    /\ log[n].id = target[log[n].by]
    /\ log[n].op = "delete" <=> kind[log[n].by] = "remove"
    /\ log[n].op = "write" => log[n].fields = Written(body[log[n].by])

(* A webhook that has an entry was created first.                           *)
CreatedOk(n) ==
  log[n].id \in Request => kind[log[n].id] = "create" /\ Applied(log[n].id)

LogOk == \A n \in Decided : WriteOk(n) /\ CreatedOk(n)

WaitOk(r) ==
  /\ pc[r] = "write" => r \in inFlight
  /\ r \in inFlight => pc[r] \in {"write", "done"} /\ kind[r] # "get"
  /\ pc[r] = "lookup" => kind[r] = "create"
  /\ pc[r] # "idle" /\ kind[r] = "create" => target[r] = r
  /\ pc[r] # "idle" /\ kind[r] # "create" => target[r] \in Known
  /\ outcome[r] # "none" => pc[r] = "done"

(* findOne after a write finds the webhook only if the write is there.      *)
ReadOk(r) ==
  pc[r] = "read" => /\ kind[r] # "remove"
                    /\ kind[r] \in {"create", "update"} => Applied(r) \/ Gone(target[r])

RemovedOk(r) == kind[r] = "remove" /\ outcome[r] = "success" => Applied(r)

RequestOk == \A r \in Request : WaitOk(r) /\ ReadOk(r) /\ RemovedOk(r)

IInv == TypeOK /\ RemovalIsFinal /\ LogOk /\ RequestOk /\ SuccessIsApplied /\ AnswerIsCurrent

(* The writes decided so far are those of the log.                          *)
LEMMA LogType ==
  ASSUME TypeOK
  PROVE  /\ Len(log) \in Nat /\ Decided = 1 .. Len(log)
         /\ \A n \in Decided : n \in Int /\ log[n] \in Write
BY LenProperties, ElementOfSeq DEF TypeOK, Decided

(* A webhook that was removed is not there.                                 *)
LEMMA GoneIsGone ==
  ASSUME TypeOK, RemovalIsFinal, NEW i, Gone(i)
  PROVE  ~ Exists(i, Decided)
<1>1. PICK n \in Decided : log[n].id = i /\ log[n].op = "delete"
  BY DEF Gone, IsRemoval
<1>2. \A m \in Live(i, Decided) : m \in Decided /\ log[m].id = i /\ n < m
  BY <1>1 DEF Live, IsRemoval
<1> QED
  BY <1>1, <1>2 DEF Exists, RemovalIsFinal

(* A webhook that is no longer there was removed.                           *)
LEMMA KnownOrGone ==
  ASSUME TypeOK, NEW i \in Known, ~ Exists(i, Decided)
  PROVE  Gone(i)
<1>1. PICK n \in Decided : log[n].id = i
  BY DEF Known
<1>2. log[n].op \in {"write", "delete"}
  BY LogType DEF Write
<1>3. CASE log[n].op = "delete"
  BY <1>1, <1>3 DEF Gone, IsRemoval
<1>4. CASE log[n].op = "write"
  BY <1>1, <1>4 DEF Exists, Live, Gone
<1> QED BY <1>2, <1>3, <1>4

(* A creation in flight finds no webhook of its id.                         *)
LEMMA FreshId ==
  ASSUME IInv, NEW r \in inFlight, kind[r] = "create"
  PROVE  target[r] = r /\ r \notin Known /\ Holds(r)
<1>1. r \in Request /\ target[r] = r
  BY DEF IInv, TypeOK, RequestOk, WaitOk
<1>2. r \notin Known
  <2> SUFFICES ASSUME NEW n \in Decided, log[n].id = r PROVE FALSE
    BY DEF Known
  <2>1. PICK m \in Decided : log[m].by = r
    BY <1>1 DEF IInv, LogOk, CreatedOk, Applied
  <2> QED BY <1>1, <2>1 DEF IInv, LogOk, WriteOk
<1>3. ~ Exists(r, Decided)
  BY <1>2 DEF Known, Exists, Live
<1> QED BY <1>1, <1>2, <1>3 DEF Holds

(* What Decide does to the log.                                             *)
LEMMA Grown ==
  ASSUME TypeOK, NEW r \in Request, Decide(r)
  PROVE  /\ \A n \in Decided : n \in Decided' /\ log'[n] = log[n]
         /\ Holds(r) =>
              /\ Len(log) + 1 \in Decided' /\ log'[Len(log) + 1] = Mutation(r)
              /\ Decided' = Decided \cup {Len(log) + 1}
              /\ \A n \in Decided : n < Len(log) + 1
         /\ ~ Holds(r) => log' = log
<1>1. CASE Holds(r)
  <2>1. log' = Append(log, Mutation(r)) /\ Mutation(r) \in Write
    BY <1>1, MutationType DEF Decide
  <2> QED BY <1>1, <2>1, Extended DEF TypeOK, Decided
<1>2. CASE ~Holds(r)
  BY <1>2 DEF Decide, Decided
<1> QED BY <1>1, <1>2

(* A step that leaves the log keeps what only the log tells.                *)
LEMMA SameLog ==
  ASSUME log' = log
  PROVE  /\ Decided' = Decided /\ Known' = Known
         /\ RemovalIsFinal => RemovalIsFinal'
         /\ \A r \in Request : Applied(r)' <=> Applied(r)
         /\ \A i : Gone(i)' <=> Gone(i)
BY DEF Decided, Known, RemovalIsFinal, Applied, Gone, IsRemoval

(* The invariant holds before the first request.                            *)
LEMMA InitInv == Init => IInv
<1> SUFFICES ASSUME Init PROVE IInv
  OBVIOUS
<1>1. TypeOK
  BY InitType
<1>2. Decided = {1} /\ log[1].id = First /\ log[1].by = First /\ log[1].op = "write"
  <2>1. DOMAIN log = 1 .. Len(log) /\ Len(log) = 1
    BY DEF Init
  <2> QED BY <2>1 DEF Init, Decided
<1>3. RemovalIsFinal /\ LogOk
  BY <1>2, FirstAssumption DEF RemovalIsFinal, LogOk, WriteOk, CreatedOk
<1>4. RequestOk
  BY <1>2 DEF Init, RequestOk, WaitOk, ReadOk, RemovedOk, Known
<1>5. SuccessIsApplied /\ AnswerIsCurrent
  BY DEF Init, SuccessIsApplied, AnswerIsCurrent
<1> QED BY <1>1, <1>3, <1>4, <1>5 DEF IInv
(* A request that comes in keeps the invariant.                             *)
LEMMA ArriveInv ==
  ASSUME IInv, TypeOK', NEW r \in Request, NEW k \in Kind, NEW i \in Id,
         NEW b \in Body \cup {Nothing}, Arrive(r, k, i, b)
  PROVE  IInv'
<1> USE DEF IInv
<1>1. /\ log' = log /\ outcome' = outcome /\ answer' = answer /\ lagging' = lagging
      /\ pc[r] = "idle"
      /\ kind' = [kind EXCEPT ![r] = k] /\ target' = [target EXCEPT ![r] = i]
      /\ body' = [body EXCEPT ![r] = b]
      /\ k = "create" => i = r
      /\ k # "create" => i \in Known
  BY DEF Arrive, database, result
<1>2. /\ pc' = [pc EXCEPT ![r] = pc'[r]]
      /\ \/ k = "create" /\ pc'[r] = "lookup" /\ inFlight' = inFlight
         \/ k \in {"update", "remove"} /\ pc'[r] = "write" /\ inFlight' = inFlight \cup {r}
         \/ k = "get" /\ pc'[r] = "read" /\ inFlight' = inFlight
  BY DEF Arrive, TypeOK, Kind
<1>3. RemovalIsFinal' /\ Decided' = Decided /\ Known' = Known
  BY <1>1, SameLog
<1>4. r \notin inFlight /\ outcome[r] = "none" /\ ~ Applied(r)
  BY <1>1 DEF RequestOk, WaitOk, LogOk, WriteOk, Applied
<1>5. \A n \in Decided : log[n].by # r /\ log[n].id # r
  BY <1>4 DEF Applied, LogOk, CreatedOk
<1>6. LogOk'
  <2> SUFFICES ASSUME NEW n \in Decided PROVE WriteOk(n)' /\ CreatedOk(n)'
    BY <1>3 DEF LogOk
  <2>1. WriteOk(n)'
    BY <1>1, <1>2, <1>5 DEF LogOk, WriteOk, TypeOK
  <2>2. CreatedOk(n)'
    BY <1>1, <1>3, <1>5, SameLog DEF LogOk, CreatedOk, TypeOK
  <2> QED BY <2>1, <2>2
<1>7. RequestOk'
  <2> SUFFICES ASSUME NEW s \in Request PROVE WaitOk(s)' /\ ReadOk(s)' /\ RemovedOk(s)'
    BY DEF RequestOk
  <2>1. CASE s = r
    BY <1>1, <1>2, <1>3, <1>4, <2>1 DEF WaitOk, ReadOk, RemovedOk, TypeOK
  <2>2. CASE s # r
    <3>1. /\ pc'[s] = pc[s] /\ kind'[s] = kind[s] /\ target'[s] = target[s]
          /\ (s \in inFlight' <=> s \in inFlight)
      BY <1>1, <1>2, <2>2 DEF TypeOK
    <3>2. WaitOk(s)'
      BY <1>1, <1>3, <3>1 DEF RequestOk, WaitOk
    <3>3. Applied(s)' <=> Applied(s)
      BY <1>1, SameLog
    <3>4. ReadOk(s)'
      BY <3>1, <1>1 DEF RequestOk, ReadOk, Applied, Gone, IsRemoval, Decided
    <3>5. RemovedOk(s)'
      BY <1>1, <3>1, <3>3 DEF RequestOk, RemovedOk
    <3> QED BY <3>2, <3>4, <3>5
  <2> QED BY <2>1, <2>2
<1>8. SuccessIsApplied'
  BY <1>1, <1>4, SameLog DEF SuccessIsApplied, TypeOK
<1>9. AnswerIsCurrent'
  BY <1>1, <1>3, <1>4 DEF AnswerIsCurrent, TypeOK
<1> QED BY <1>3, <1>6, <1>7, <1>8, <1>9

(* A step of r's handler, or of the network, that leaves the log alone.     *)
LEMMA QuietInv ==
  ASSUME IInv, TypeOK', NEW r \in Request,
         UNCHANGED <<log, args>>,
         pc' = [pc EXCEPT ![r] = pc'[r]], outcome' = [outcome EXCEPT ![r] = outcome'[r]],
         answer' = [answer EXCEPT ![r] = answer'[r]],
         lagging' = [lagging EXCEPT ![r] = lagging'[r]],
         pc[r] # "idle", pc'[r] # "idle", pc'[r] # "lookup",
         \A s \in Request \ {r} : s \in inFlight' <=> s \in inFlight,
         r \in inFlight' => r \in inFlight \/ pc[r] = "lookup",
         WaitOk(r)', ReadOk(r)', RemovedOk(r)',
         /\ kind[r] \in {"create", "update"} /\ outcome'[r] = "success" /\ ~ lagging'[r]
         => Applied(r),
         \A f \in Column :
           /\ kind[r] \in {"create", "update"} /\ outcome'[r] = "success" /\ ~ lagging'[r]
           /\ body[r][f] # Null
           => \/ answer'[r][f] = body[r][f]
              \/ \E m \in Decided, n \in Decided :
                   /\ m < n /\ log[m].by = r
                   /\ log[n].id = target[r] /\ log[n].fields[f] = answer'[r][f]
  PROVE  IInv'
<1> USE DEF IInv
<1>1. log' = log /\ kind' = kind /\ target' = target /\ body' = body
  BY DEF args
<1>2. RemovalIsFinal' /\ Decided' = Decided /\ Known' = Known
  BY <1>1, SameLog
<1>3. \A s \in Request \ {r} :
        /\ pc'[s] = pc[s] /\ outcome'[s] = outcome[s] /\ answer'[s] = answer[s]
        /\ lagging'[s] = lagging[s]
  BY DEF TypeOK
<1>4. LogOk'
  <2> SUFFICES ASSUME NEW n \in Decided PROVE WriteOk(n)' /\ CreatedOk(n)'
    BY <1>2 DEF LogOk
  <2>1. WriteOk(n)'
    <3> SUFFICES ASSUME log[n].by \in Request
                 PROVE  pc'[log[n].by] \in {"write", "read", "done"} /\ log[n].by \notin inFlight'
      BY <1>1 DEF LogOk, WriteOk
    <3>1. CASE log[n].by = r
      BY <3>1 DEF LogOk, WriteOk, TypeOK
    <3>2. CASE log[n].by # r
      BY <1>3, <3>2 DEF LogOk, WriteOk
    <3> QED BY <3>1, <3>2
  <2>2. CreatedOk(n)'
    BY <1>1, SameLog DEF LogOk, CreatedOk
  <2> QED BY <2>1, <2>2
<1>5. RequestOk'
  <2> SUFFICES ASSUME NEW s \in Request, s # r PROVE WaitOk(s)' /\ ReadOk(s)' /\ RemovedOk(s)'
    BY DEF RequestOk
  <2>1. WaitOk(s)'
    BY <1>1, <1>2, <1>3 DEF RequestOk, WaitOk
  <2>2. ReadOk(s)'
    BY <1>1, <1>3 DEF RequestOk, ReadOk, Applied, Gone, IsRemoval, Decided
  <2>3. RemovedOk(s)'
    BY <1>1, <1>3, SameLog DEF RequestOk, RemovedOk
  <2> QED BY <2>1, <2>2, <2>3
<1>6. SuccessIsApplied'
  <2> SUFFICES ASSUME NEW s \in Request, kind[s] \in {"create", "update"},
                      outcome'[s] = "success", ~ lagging'[s]
               PROVE  Applied(s)
    BY <1>1, SameLog DEF SuccessIsApplied
  <2> QED BY <1>3 DEF SuccessIsApplied
<1>7. AnswerIsCurrent'
  <2> SUFFICES ASSUME NEW s \in Request, NEW f \in Column,
                      kind[s] \in {"create", "update"}, outcome'[s] = "success",
                      ~ lagging'[s], body[s][f] # Null
               PROVE  \/ answer'[s][f] = body[s][f]
                      \/ \E m \in Decided, n \in Decided :
                           /\ m < n /\ log[m].by = s
                           /\ log[n].id = target[s] /\ log[n].fields[f] = answer'[s][f]
    BY <1>1, <1>2 DEF AnswerIsCurrent
  <2>1. CASE s = r
    BY <2>1
  <2>2. CASE s # r
    BY <1>3, <2>2 DEF AnswerIsCurrent
  <2> QED BY <2>1, <2>2
<1> QED BY <1>2, <1>4, <1>5, <1>6, <1>7
(* A step that none of this is about.                                       *)
LEMMA UntouchedInv ==
  ASSUME IInv, TypeOK', UNCHANGED <<log, inFlight, args, pc, result>>
  PROVE  IInv'
<1> USE DEF IInv, args, result
<1>1. RemovalIsFinal' /\ LogOk'
  BY DEF RemovalIsFinal, LogOk, WriteOk, CreatedOk, Applied, Decided
<1>2. RequestOk'
  BY DEF RequestOk, WaitOk, ReadOk, RemovedOk, Applied, Gone, IsRemoval, Decided, Known
<1>3. SuccessIsApplied' /\ AnswerIsCurrent'
  BY DEF SuccessIsApplied, AnswerIsCurrent, Applied, Decided
<1> QED BY <1>1, <1>2, <1>3

(* Looking the subscription up keeps the invariant.                         *)
LEMMA LookupInv ==
  ASSUME IInv, TypeOK', NEW r \in Request, Lookup(r)
  PROVE  IInv'
<1>1. /\ pc[r] = "lookup" /\ outcome[r] = "none" /\ kind[r] = "create" /\ target[r] = r
      /\ r \notin inFlight
  BY DEF Lookup, IInv, RequestOk, WaitOk, TypeOK
<1>2. /\ UNCHANGED <<log, args>> /\ answer' = answer /\ lagging' = lagging
      /\ \/ /\ pc' = [pc EXCEPT ![r] = "write"] /\ outcome' = outcome
            /\ inFlight' = inFlight \cup {r}
         \/ /\ pc' = [pc EXCEPT ![r] = "done"] /\ inFlight' = inFlight
            /\ outcome' = [outcome EXCEPT ![r] = "notFound"]
  BY DEF Lookup, Answer, database, args
<1>3. WaitOk(r)' /\ ReadOk(r)' /\ RemovedOk(r)'
  BY <1>1, <1>2 DEF WaitOk, ReadOk, RemovedOk, args, IInv, TypeOK
<1>4. outcome'[r] # "success"
  BY <1>1, <1>2 DEF IInv, TypeOK
<1>5. /\ pc' = [pc EXCEPT ![r] = pc'[r]] /\ outcome' = [outcome EXCEPT ![r] = outcome'[r]]
      /\ answer' = [answer EXCEPT ![r] = answer'[r]]
      /\ lagging' = [lagging EXCEPT ![r] = lagging'[r]]
      /\ pc'[r] # "idle" /\ pc'[r] # "lookup"
  BY <1>2 DEF IInv, TypeOK
<1> QED BY <1>1, <1>2, <1>3, <1>4, <1>5, QuietInv

(* A client told of a timeout keeps the invariant.                          *)
LEMMA TimeOutInv ==
  ASSUME IInv, TypeOK', NEW r \in Request, TimeOut(r)
  PROVE  IInv'
<1>1. /\ UNCHANGED <<log, args>> /\ answer' = answer /\ lagging' = lagging
      /\ inFlight' = inFlight
      /\ pc' = [pc EXCEPT ![r] = "done"] /\ outcome' = [outcome EXCEPT ![r] = "error"]
      /\ pc[r] \in {"lookup", "write", "read"}
  BY DEF TimeOut, Answer, database, args
<1>2. pc'[r] = "done" /\ outcome'[r] = "error"
  BY <1>1 DEF IInv, TypeOK
<1>3. WaitOk(r)' /\ ReadOk(r)' /\ RemovedOk(r)'
  BY <1>1, <1>2 DEF WaitOk, ReadOk, RemovedOk, args, IInv, RequestOk, Known, Decided
<1>4. /\ pc' = [pc EXCEPT ![r] = pc'[r]] /\ outcome' = [outcome EXCEPT ![r] = outcome'[r]]
      /\ answer' = [answer EXCEPT ![r] = answer'[r]]
      /\ lagging' = [lagging EXCEPT ![r] = lagging'[r]]
  BY <1>1, <1>2 DEF IInv, TypeOK
<1> QED BY <1>1, <1>2, <1>3, <1>4, QuietInv

(* A write that is given up keeps the invariant.                            *)
LEMMA LoseInv ==
  ASSUME IInv, TypeOK', NEW r \in Request, Lose(r)
  PROVE  IInv'
<1>1. /\ UNCHANGED <<log, args, pc, result>> /\ inFlight' = inFlight \ {r}
      /\ pc[r] = "done"
  BY DEF Lose, database
<1>2. WaitOk(r)' /\ ReadOk(r)' /\ RemovedOk(r)'
  BY <1>1 DEF WaitOk, ReadOk, RemovedOk, args, result, IInv, RequestOk, Known, Decided,
              Applied
<1>3. /\ pc' = [pc EXCEPT ![r] = pc'[r]] /\ outcome' = [outcome EXCEPT ![r] = outcome'[r]]
      /\ answer' = [answer EXCEPT ![r] = answer'[r]]
      /\ lagging' = [lagging EXCEPT ![r] = lagging'[r]]
  BY <1>1 DEF IInv, TypeOK, result
<1>4. \A f \in Column :
        /\ kind[r] \in {"create", "update"} /\ outcome'[r] = "success" /\ ~ lagging'[r]
        /\ body[r][f] # Null
        => \/ answer'[r][f] = body[r][f]
           \/ \E m \in Decided, n \in Decided :
                /\ m < n /\ log[m].by = r
                /\ log[n].id = target[r] /\ log[n].fields[f] = answer'[r][f]
  BY <1>1 DEF IInv, AnswerIsCurrent, result
<1>5. /\ kind[r] \in {"create", "update"} /\ outcome'[r] = "success" /\ ~ lagging'[r]
      => Applied(r)
  BY <1>1 DEF IInv, SuccessIsApplied, result
<1>6. /\ UNCHANGED <<log, args>> /\ pc[r] # "idle" /\ pc'[r] # "idle" /\ pc'[r] # "lookup"
      /\ \A s \in Request \ {r} : s \in inFlight' <=> s \in inFlight
      /\ r \in inFlight' => r \in inFlight \/ pc[r] = "lookup"
  BY <1>1
<1> QED BY <1>2, <1>3, <1>4, <1>5, <1>6, QuietInv

(* The row shown for a webhook that has r's write: that write's value, or   *)
(* that of a later write.                                                   *)
LEMMA RowShowsWrite ==
  ASSUME TypeOK, NEW i, NEW f \in Column, NEW m \in Decided, ~ Gone(i),
         log[m].id = i, log[m].op = "write", log[m].fields[f] # Null
  PROVE  \/ Row(i, Decided)[f] = log[m].fields[f]
         \/ \E n \in Decided :
              m < n /\ log[n].id = i /\ log[n].fields[f] = Row(i, Decided)[f]
<1> DEFINE giving == {n \in Live(i, Decided) : log[n].fields[f] # Null}
<1>1. m \in giving
  BY DEF Live, Gone, IsRemoval
<1>2. Row(i, Decided)[f] = log[Max(giving)].fields[f]
  BY <1>1 DEF Row
<1>3. giving \subseteq 1 .. Len(log) /\ Len(log) \in Nat
      /\ \A n \in giving : n \in Decided /\ log[n].id = i
  BY LogType DEF Live
<1> HIDE DEF giving
<1>4. Max(giving) \in giving /\ m <= Max(giving)
  BY <1>1, <1>3, HasMax
<1>5. Max(giving) = m \/ m < Max(giving)
  BY <1>1, <1>3, <1>4
<1> QED BY <1>2, <1>3, <1>4, <1>5
(* An answer from a replica keeps the invariant.                            *)
LEMMA ReadInv ==
  ASSUME IInv, TypeOK', NEW r \in Request, Read(r)
  PROVE  IInv'
<1> USE DEF IInv
<1>1. PICK c \in Replica :
        /\ Found(r, has[c])
        /\ answer' = [answer EXCEPT ![r] = Row(target[r], has[c])]
        /\ lagging' = [lagging EXCEPT ![r] = has[c] # Decided]
  BY DEF Read
<1>2. /\ UNCHANGED <<log, args>> /\ inFlight' = inFlight /\ pc[r] = "read"
      /\ kind' = kind /\ target' = target
  BY DEF Read, database, args
<1>3. /\ pc' = [pc EXCEPT ![r] = "done"]
      /\ outcome' = [outcome EXCEPT ![r] =
                       IF Exists(target[r], has[c]) THEN "success" ELSE "notFound"]
  BY <1>1 DEF Found, Answer
<1>4. /\ pc'[r] = "done" /\ answer'[r] = Row(target[r], has[c])
      /\ lagging'[r] = (has[c] # Decided)
      /\ outcome'[r] = IF Exists(target[r], has[c]) THEN "success" ELSE "notFound"
  BY <1>1, <1>3 DEF TypeOK
<1>5. /\ pc' = [pc EXCEPT ![r] = pc'[r]] /\ outcome' = [outcome EXCEPT ![r] = outcome'[r]]
      /\ answer' = [answer EXCEPT ![r] = answer'[r]]
      /\ lagging' = [lagging EXCEPT ![r] = lagging'[r]]
  BY <1>1, <1>3, <1>4 DEF TypeOK
<1>6. WaitOk(r)' /\ ReadOk(r)' /\ RemovedOk(r)'
  <2>1. kind[r] # "remove" /\ r \notin inFlight
    BY <1>2 DEF RequestOk, ReadOk, WaitOk
  <2>2. Known' = Known
    BY <1>2, SameLog
  <2> QED BY <1>2, <1>4, <2>1, <2>2 DEF RequestOk, WaitOk, ReadOk, RemovedOk
<1>7. ASSUME kind[r] \in {"create", "update"}, outcome'[r] = "success", ~ lagging'[r]
      PROVE  Applied(r) /\ ~ Gone(target[r])
  <2>1. Exists(target[r], Decided)
    BY <1>4, <1>7
  <2>2. ~ Gone(target[r])
    BY <2>1, GoneIsGone
  <2> QED BY <1>2, <1>7, <2>2 DEF RequestOk, ReadOk
<1>8. ASSUME NEW f \in Column, kind[r] \in {"create", "update"}, outcome'[r] = "success",
             ~ lagging'[r], body[r][f] # Null
      PROVE  \/ answer'[r][f] = body[r][f]
             \/ \E m \in Decided, n \in Decided :
                  /\ m < n /\ log[m].by = r
                  /\ log[n].id = target[r] /\ log[n].fields[f] = answer'[r][f]
  <2>1. PICK m \in Decided : log[m].by = r
    BY <1>7, <1>8 DEF Applied
  <2>2. log[m].id = target[r] /\ log[m].op # "delete" /\ log[m] \in Write
    BY <1>8, <2>1, LogType DEF LogOk, WriteOk
  <2>3. log[m].op = "write" /\ log[m].fields = Written(body[r])
    BY <2>1, <2>2 DEF LogOk, WriteOk, Write
  <2>4. log[m].fields[f] = body[r][f]
    <3>1. body[r] \in Fields
      BY DEF TypeOK
    <3> QED BY <1>8, <2>3, <3>1 DEF Written, Fields
  <2>5. answer'[r] = Row(target[r], Decided)
    BY <1>4, <1>8
  <2>6. ~ Gone(target[r])
    BY <1>7, <1>8
  <2>7. \/ Row(target[r], Decided)[f] = log[m].fields[f]
        \/ \E n \in Decided :
             m < n /\ log[n].id = target[r] /\ log[n].fields[f] = Row(target[r], Decided)[f]
    BY <1>8, <2>2, <2>3, <2>4, <2>6, RowShowsWrite
  <2> QED BY <2>1, <2>4, <2>5, <2>7
<1>9. pc[r] # "idle" /\ pc'[r] # "idle" /\ pc'[r] # "lookup"
  BY <1>2, <1>4
<1> HIDE DEF IInv
<1> QED BY <1>2, <1>5, <1>6, <1>7, <1>8, <1>9, QuietInv

(* A write that is decided keeps the invariant.                             *)
LEMMA DecideInv ==
  ASSUME IInv, TypeOK', NEW r \in Request, Decide(r)
  PROVE  IInv'
<1> USE DEF IInv
<1> DEFINE N == Len(log) + 1
<1>1. /\ r \in inFlight /\ inFlight' = inFlight \ {r}
      /\ kind' = kind /\ target' = target /\ body' = body
      /\ answer' = answer /\ lagging' = lagging
  BY DEF Decide, args
<1>2. /\ pc[r] \in {"write", "done"} /\ kind[r] # "get" /\ ~ Applied(r)
      /\ kind[r] = "create" => target[r] = r
      /\ kind[r] # "create" => target[r] \in Known
  BY <1>1 DEF RequestOk, WaitOk, LogOk, WriteOk, Applied
<1>3. /\ pc' = [pc EXCEPT ![r] = pc'[r]] /\ outcome' = [outcome EXCEPT ![r] = outcome'[r]]
      /\ \/ pc[r] = "done" /\ pc'[r] = "done" /\ outcome'[r] = outcome[r]
         \/ /\ pc[r] = "write" /\ kind[r] # "remove"
            /\ pc'[r] = "read" /\ outcome'[r] = outcome[r]
         \/ /\ pc[r] = "write" /\ kind[r] = "remove" /\ pc'[r] = "done"
            /\ outcome'[r] = IF Holds(r) THEN "success" ELSE "notFound"
  BY <1>2 DEF Decide, Acknowledge, Answer, TypeOK
<1>4. /\ \A n \in Decided : n \in Decided' /\ log'[n] = log[n]
      /\ Holds(r) => /\ N \in Decided' /\ log'[N] = Mutation(r)
                     /\ Decided' = Decided \cup {N}
                     /\ \A n \in Decided : n < N
      /\ ~ Holds(r) => log' = log
  BY Grown
<1> HIDE DEF N
<1>5. \A n \in Decided' : n \in Decided \/ (Holds(r) /\ n = N)
  BY <1>4 DEF Decided
<1>6. /\ \A s \in Request : Applied(s) => Applied(s)'
      /\ \A i : Gone(i) => Gone(i)'
      /\ \A i : i \in Known => i \in Known'
  BY <1>4 DEF Applied, Gone, IsRemoval, Known
<1>7. Mutation(r).by = r /\ Mutation(r).id = target[r]
      /\ (Mutation(r).op = "delete" <=> kind[r] = "remove")
      /\ (kind[r] # "remove" => Mutation(r).fields = Written(body[r]))
  BY DEF Mutation
<1>8. Holds(r) => Applied(r)'
  BY <1>4, <1>7 DEF Applied
<1>9. Holds(r) => ~ Gone(target[r])
  <2>1. CASE kind[r] = "create"
    <3>1. target[r] \notin Known
      BY <1>1, <2>1, FreshId
    <3> QED BY <3>1 DEF Gone, IsRemoval, Known
  <2>2. CASE kind[r] # "create"
    BY <2>2, GoneIsGone DEF Holds
  <2> QED BY <2>1, <2>2
<1>10. ~ Holds(r) => kind[r] # "create" /\ Gone(target[r])
  <2> SUFFICES ASSUME ~ Holds(r) PROVE kind[r] # "create" /\ Gone(target[r])
    OBVIOUS
  <2>1. kind[r] # "create"
    BY <1>1, FreshId
  <2>2. ~ Exists(target[r], Decided) /\ target[r] \in Known
    BY <1>2, <2>1 DEF Holds
  <2> QED BY <2>1, <2>2, KnownOrGone
<1>11. RemovalIsFinal'
  <2> SUFFICES ASSUME NEW n \in Decided', NEW m \in Decided', n < m,
                      log'[n].op = "delete", log'[m].id = log'[n].id
               PROVE  FALSE
    BY DEF RemovalIsFinal
  <2>1. CASE n \in Decided /\ m \in Decided
    BY <1>4, <2>1 DEF RemovalIsFinal
  <2>2. CASE n \in Decided /\ Holds(r) /\ m = N
    <3>1. log[n].op = "delete" /\ log[n].id = target[r]
      BY <1>4, <1>7, <2>2
    <3> QED BY <1>9, <2>2, <3>1 DEF Gone, IsRemoval
  <2>3. CASE n = N /\ Holds(r) /\ m \in Decided
    <3>1. m < n /\ m \in Int /\ n \in Int
      BY <1>4, <2>3, LogType DEF N
    <3> QED BY <3>1
  <2>4. CASE n = N /\ m = N
    <3>1. N \in Int
      BY LogType DEF N
    <3> QED BY <2>4, <3>1
  <2> QED BY <1>5, <2>1, <2>2, <2>3, <2>4
<1>12. LogOk'
  <2> SUFFICES ASSUME NEW n \in Decided' PROVE WriteOk(n)' /\ CreatedOk(n)'
    BY DEF LogOk
  <2>1. CASE n \in Decided
    <3>1. WriteOk(n) /\ CreatedOk(n) /\ log'[n] = log[n]
      BY <1>4, <2>1 DEF LogOk
    <3>2. WriteOk(n)'
      BY <1>1, <1>3, <3>1 DEF WriteOk, TypeOK
    <3>3. CreatedOk(n)'
      BY <1>1, <1>6, <3>1 DEF CreatedOk
    <3> QED BY <3>2, <3>3
  <2>2. CASE Holds(r) /\ n = N
    <3>1. log'[n] = Mutation(r)
      BY <1>4, <2>2
    <3>2. WriteOk(n)'
      BY <1>1, <1>3, <1>7, <3>1 DEF WriteOk, TypeOK, Mutation
    <3>3. CreatedOk(n)'
      <4>1. CASE kind[r] = "create"
        BY <1>1, <1>2, <1>7, <1>8, <2>2, <3>1, <4>1 DEF CreatedOk
      <4>2. CASE kind[r] # "create"
        <5>1. PICK k \in Decided : log[k].id = target[r]
          BY <1>2, <4>2 DEF Known
        <5> QED BY <1>1, <1>6, <1>7, <3>1, <5>1 DEF LogOk, CreatedOk
      <4> QED BY <4>1, <4>2
    <3> QED BY <3>2, <3>3
  <2> QED BY <1>5, <2>1, <2>2
<1>13. RequestOk'
  <2> SUFFICES ASSUME NEW s \in Request PROVE WaitOk(s)' /\ ReadOk(s)' /\ RemovedOk(s)'
    BY DEF RequestOk
  <2>0. WaitOk(s) /\ ReadOk(s) /\ RemovedOk(s)
    BY DEF RequestOk
  <2>1. CASE s = r
    <3>1. WaitOk(r)'
      BY <1>1, <1>2, <1>3, <1>6, <2>0, <2>1 DEF WaitOk
    <3>2. ReadOk(r)'
      BY <1>1, <1>3, <1>6, <1>8, <1>10 DEF ReadOk
    <3>3. RemovedOk(r)'
      BY <1>1, <1>3, <1>6, <1>8, <2>0, <2>1 DEF RemovedOk
    <3> QED BY <2>1, <3>1, <3>2, <3>3
  <2>2. CASE s # r
    <3>1. pc'[s] = pc[s] /\ outcome'[s] = outcome[s]
          /\ (s \in inFlight' <=> s \in inFlight)
      BY <1>1, <1>3, <2>2 DEF TypeOK
    <3>2. WaitOk(s)'
      BY <1>1, <1>6, <2>0, <3>1 DEF WaitOk
    <3>3. ReadOk(s)'
      BY <1>1, <1>6, <2>0, <3>1 DEF ReadOk
    <3>4. RemovedOk(s)'
      BY <1>1, <1>6, <2>0, <3>1 DEF RemovedOk
    <3> QED BY <3>2, <3>3, <3>4
  <2> QED BY <2>1, <2>2
<1>14. \A s \in Request : kind[s] \in {"create", "update"} => outcome'[s] = outcome[s]
  BY <1>3 DEF TypeOK
<1>15. SuccessIsApplied'
  BY <1>1, <1>6, <1>14 DEF SuccessIsApplied
<1>16. AnswerIsCurrent'
  <2> SUFFICES ASSUME NEW s \in Request, NEW f \in Column,
                      kind[s] \in {"create", "update"}, outcome'[s] = "success",
                      ~ lagging[s], body[s][f] # Null
               PROVE  \/ answer[s][f] = body[s][f]
                      \/ \E m \in Decided', n \in Decided' :
                           /\ m < n /\ log'[m].by = s
                           /\ log'[n].id = target[s] /\ log'[n].fields[f] = answer[s][f]
    BY <1>1 DEF AnswerIsCurrent
  <2>1. \/ answer[s][f] = body[s][f]
        \/ \E m \in Decided, n \in Decided :
             /\ m < n /\ log[m].by = s
             /\ log[n].id = target[s] /\ log[n].fields[f] = answer[s][f]
    BY <1>14 DEF AnswerIsCurrent
  <2> QED BY <1>4, <2>1
<1> QED BY <1>11, <1>12, <1>13, <1>15, <1>16

-----------------------------------------------------------------------------
(* Every step keeps the invariant.                                          *)
LEMMA NextInv == IInv /\ [Next]_vars => IInv'
<1> SUFFICES ASSUME IInv, [Next]_vars PROVE IInv'
  OBVIOUS
<1>0. TypeOK'
  BY NextType DEF IInv
<1>1. ASSUME NEW r \in Request, NEW k \in Kind, NEW i \in Id, NEW b \in Body \cup {Nothing},
             Arrive(r, k, i, b)
      PROVE  IInv'
  BY <1>0, <1>1, ArriveInv
<1>2. ASSUME NEW r \in Request, Lookup(r) PROVE IInv'
  BY <1>0, <1>2, LookupInv
<1>3. ASSUME NEW r \in Request, Decide(r) PROVE IInv'
  BY <1>0, <1>3, DecideInv
<1>4. ASSUME NEW r \in Request, Read(r) PROVE IInv'
  BY <1>0, <1>4, ReadInv
<1>5. ASSUME NEW r \in Request, TimeOut(r) PROVE IInv'
  BY <1>0, <1>5, TimeOutInv
<1>6. ASSUME NEW r \in Request, Lose(r) PROVE IInv'
  BY <1>0, <1>6, LoseInv
<1>7. ASSUME NEW c \in Replica, NEW n \in Decided, Learn(c, n) PROVE IInv'
  BY <1>0, <1>7, UntouchedInv DEF Learn
<1>8. CASE Subscribe
  BY <1>0, <1>8, UntouchedInv DEF Subscribe
<1>9. CASE UNCHANGED vars
  BY <1>0, <1>9, UntouchedInv DEF vars, args, result
<1> QED
  BY <1>1, <1>2, <1>3, <1>4, <1>5, <1>6, <1>7, <1>8, <1>9 DEF Next

(* The invariant holds for any number of requests and replicas.             *)
THEOREM Invariant == Spec => []IInv
<1> QED BY InitInv, NextInv, PTL DEF Spec

(* No write to a webhook takes effect after its removal, not even one that  *)
(* its client has given up on (webhook.provider.ts 39, 53).                 *)
THEOREM RemovalsAreFinal == Spec => []RemovalIsFinal
<1>1. IInv => RemovalIsFinal
  BY DEF IInv
<1> QED BY <1>1, Invariant, PTL

(* At most one client is told that it removed a webhook, and it did         *)
(* (webhooks.service.ts 76-82).                                             *)
THEOREM OneClientRemoves == Spec => []OneRemoval
<1>1. IInv => OneRemoval
  <2> SUFFICES ASSUME IInv, NEW r \in Request, NEW s \in Request,
                      kind[r] = "remove", outcome[r] = "success",
                      kind[s] = "remove", target[s] = target[r]
               PROVE  Applied(r) /\ (outcome[s] = "success" => s = r)
    BY DEF OneRemoval
  <2>1. Applied(r)
    BY DEF IInv, RequestOk, RemovedOk
  <2>2. ASSUME outcome[s] = "success" PROVE s = r
    <3>1. PICK n \in Decided : log[n].by = r
      BY <2>1 DEF Applied
    <3>2. PICK m \in Decided : log[m].by = s
      BY <2>2 DEF IInv, RequestOk, RemovedOk, Applied
    <3>3. /\ log[n].op = "delete" /\ log[n].id = target[r]
          /\ log[m].op = "delete" /\ log[m].id = target[r]
      BY <3>1, <3>2 DEF IInv, LogOk, WriteOk
    <3>4. ~ (n < m) /\ ~ (m < n)
      BY <3>3 DEF IInv, RemovalIsFinal
    <3>5. n \in Int /\ m \in Int
      BY LogType DEF IInv
    <3> QED BY <3>1, <3>2, <3>4, <3>5
  <2> QED BY <2>1, <2>2
<1> QED BY <1>1, Invariant, PTL

(* A creation or an update answered with the webhook, by a replica that has *)
(* the writes decided so far, has taken effect (webhooks.service.ts 43-71). *)
THEOREM SuccessIsReal == Spec => []SuccessIsApplied
<1>1. IInv => SuccessIsApplied
  BY DEF IInv
<1> QED BY <1>1, Invariant, PTL

(* Such an answer shows what its client wrote, or what a later write put    *)
(* there (webhooks.service.ts 48, 71).                                      *)
THEOREM AnswersAreCurrent == Spec => []AnswerIsCurrent
<1>1. IInv => AnswerIsCurrent
  BY DEF IInv
<1> QED BY <1>1, Invariant, PTL
-----------------------------------------------------------------------------
(* An entry that gives the column f of webhook i no value, and does not     *)
(* remove i, leaves that column of it as it is.                             *)
LEMMA ColumnStays ==
  ASSUME IInv, NEW r \in Request, Decide(r), Holds(r), NEW i \in Id, NEW f \in Column,
         target[r] # i \/ (kind[r] # "remove" /\ Mutation(r).fields[f] = Null)
  PROVE  Row(i, Decided)'[f] = Row(i, Decided)[f]
<1> DEFINE N == Len(log) + 1
           giving == {n \in Live(i, Decided) : log[n].fields[f] # Null}
<1>1. /\ \A n \in Decided : log'[n] = log[n] /\ n < N
      /\ log'[N] = Mutation(r) /\ Decided' = Decided \cup {N}
  BY Grown DEF IInv
<1>2. ~ (Mutation(r).id = i /\ Mutation(r).op = "delete")
      /\ ~ (Mutation(r).id = i /\ Mutation(r).fields[f] # Null)
  BY DEF Mutation
<1> HIDE DEF N
<1>3. Live(i, Decided)' \ {N} = Live(i, Decided) \ {N}
  BY <1>1, <1>2 DEF Live, IsRemoval
<1>4. N \notin Decided
  <2>1. N \in Int
    BY LogType DEF IInv, N
  <2> QED BY <1>1, <2>1
<1>5. N \notin Live(i, Decided)
  BY <1>4 DEF Live
<1>6. {n \in Live(i, Decided)' : log'[n].fields[f] # Null} = giving
  <2>1. \A n \in Live(i, Decided) : n \in Decided /\ log'[n] = log[n]
    BY <1>1 DEF Live
  <2>2. N \in Live(i, Decided)' => log'[N].fields[f] = Null
    BY <1>1, <1>2 DEF Live
  <2>3. ASSUME NEW n PROVE n \in Live(i, Decided)' /\ log'[n].fields[f] # Null <=> n \in giving
    BY <1>3, <1>5, <2>1, <2>2
  <2> QED BY <2>3
<1>7. giving # {} => Max(giving) \in Decided
  <2>1. giving \subseteq 1 .. Len(log) /\ Len(log) \in Nat /\ Decided = 1 .. Len(log)
    BY LogType DEF Live, IInv
  <2> HIDE DEF giving
  <2> QED BY <2>1, HasMax
<1>8. /\ Row(i, Decided)[f] = IF giving = {} THEN Null ELSE log[Max(giving)].fields[f]
      /\ Row(i, Decided)'[f] = IF giving = {} THEN Null ELSE log'[Max(giving)].fields[f]
  BY <1>6 DEF Row
<1> QED BY <1>1, <1>7, <1>8

(* Updates of different columns do not undo each other                      *)
(* (webhook.mapper.ts 50-60, webhooks.service.ts 84-92).                    *)
THEOREM UpdatesAreMerged == Spec => UpdatesMerge
<1>1. ASSUME IInv, IInv', [Next]_vars, NEW i \in Id, NEW f \in Optional,
             Exists(i, Decided), Exists(i, Decided)',
             Row(i, Decided)'[f] # Row(i, Decided)[f]
      PROVE  \E r \in inFlight \ inFlight' :
               kind[r] = "update" /\ target[r] = i /\ body[r][f] # Null
  <2>1. log' # log
    <3> SUFFICES ASSUME log' = log PROVE FALSE
      OBVIOUS
    <3>1. Live(i, Decided)' = Live(i, Decided)
      BY DEF Live, IsRemoval, Decided
    <3>2. Row(i, Decided)' = Row(i, Decided)
      BY <3>1 DEF Row
    <3> QED BY <1>1, <3>2
  <2>2. PICK r \in Request : Decide(r)
    BY <1>1, <2>1 DEF Next, Arrive, Lookup, Read, TimeOut, Lose, Learn, Subscribe, vars,
                      database
  <2>3. Holds(r) /\ r \in inFlight /\ r \notin inFlight'
    BY <2>1, <2>2 DEF Decide
  <2>4. f \in Column /\ f # "confirmations"
    BY OptionalAssumption DEF Column
  <2>5. target[r] = i /\ (kind[r] = "remove" \/ Mutation(r).fields[f] # Null)
    BY <1>1, <2>2, <2>3, <2>4, ColumnStays
  <2>6. kind[r] # "remove"
    <3> SUFFICES ASSUME kind[r] = "remove" PROVE FALSE
      OBVIOUS
    <3>1. Len(log) + 1 \in Decided' /\ log'[Len(log) + 1] = Mutation(r)
      BY <1>1, <2>2, <2>3, Grown DEF IInv
    <3>2. Gone(i)'
      BY <2>5, <3>1 DEF Gone, IsRemoval, Mutation
    <3>3. \A n \in Live(i, Decided)' : n \in Decided' /\ log'[n].id = i /\ Len(log) + 1 < n
      BY <2>5, <3>1 DEF Live, IsRemoval, Mutation
    <3>4. log'[Len(log) + 1].op = "delete" /\ log'[Len(log) + 1].id = i
      BY <2>5, <3>1 DEF Mutation
    <3> QED BY <1>1, <3>1, <3>3, <3>4 DEF IInv, RemovalIsFinal, Exists
  <2>7. kind[r] # "create"
    <3> SUFFICES ASSUME kind[r] = "create" PROVE FALSE
      OBVIOUS
    <3>1. i \notin Known
      BY <1>1, <2>3, <2>5, FreshId
    <3> QED BY <1>1, <3>1 DEF Known, Exists, Live
  <2>8. kind[r] = "update"
    BY <1>1, <2>3, <2>6, <2>7 DEF IInv, TypeOK, Kind, RequestOk, WaitOk
  <2>9. body[r][f] # Null
    <3>1. body[r] \in Fields
      BY <1>1 DEF IInv, TypeOK
    <3>2. Mutation(r).fields = Written(body[r])
      BY <2>6 DEF Mutation
    <3>3. Mutation(r).fields[f] = body[r][f]
      BY <2>4, <3>1, <3>2 DEF Written, Fields
    <3> QED BY <2>5, <2>6, <3>3
  <2> QED BY <2>3, <2>5, <2>8, <2>9
<1>2. IInv /\ IInv' /\ [Next]_vars =>
        [\A i \in Id, f \in Optional :
           /\ Exists(i, Decided) /\ Exists(i, Decided)'
           /\ Row(i, Decided)'[f] # Row(i, Decided)[f]
           => \E r \in inFlight \ inFlight' :
                kind[r] = "update" /\ target[r] = i /\ body[r][f] # Null]_vars
  BY <1>1
<1> QED BY <1>2, Invariant, PTL DEF Spec, UpdatesMerge
=============================================================================
