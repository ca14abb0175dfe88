------------------------------ MODULE Webhooks ------------------------------
(***************************************************************************)
(* The webhooks of one account: WebhooksService and WebhookProvider         *)
(* (src/webhooks/webhooks.service.ts, src/providers/webhooks) on their      *)
(* table in ScyllaDB.                                                       *)
(*                                                                          *)
(* Writes are conditional (IF EXISTS, IF NOT EXISTS), which the database    *)
(* puts in one order; they are the log.  All of an account's webhooks are   *)
(* in one partition, so one log has them all.  Reads are plain reads at the *)
(* driver's default consistency, LOCAL_ONE, which one replica answers from  *)
(* the writes it has: the schema asks for three replicas                    *)
(* (src/db/scylla/seeds), docker-compose.yml starts one node.  A replica    *)
(* may get the writes in any order, and keeps of each column the latest.    *)
(*                                                                          *)
(* A handler waits for the database up to three times, and others run in    *)
(* between.  When it gives up, its write may still take effect later.       *)
(***************************************************************************)
EXTENDS Integers, Sequences, FiniteSets, FiniteSetsExt

CONSTANTS
  Request,   \* requests of the account's clients
  Replica,   \* replicas of the account's partition
  Optional,  \* columns a client may leave out and so leave alone
  Val,       \* values of a column
  Zero,      \* the value 0 of confirmations
  Null,      \* no value
  Body,      \* the bodies considered of a creation or an update
  First      \* the webhook there is at the start

Column == Optional \cup {"confirmations"}
Fields == [Column -> Val \cup {Null}]

ASSUME ReplicaAssumption == Replica # {}
ASSUME OptionalAssumption == "confirmations" \notin Optional
ASSUME ValAssumption == Zero \in Val /\ Null \notin Val
ASSUME BodyAssumption == Body \subseteq Fields
ASSUME FirstAssumption == First \notin Request

(* The id a creation makes is a fresh uuid: that of request r is r.         *)
Id == Request \cup {First}

Kind == {"create", "update", "remove", "get"}
Write == [id : Id, op : {"write", "delete"}, fields : Fields, by : Id]

Nothing == [f \in Column |-> Null]

VARIABLES
  log,        \* database: the writes that took effect, in their order
  has,        \* database: the writes each replica has
  subscribed, \* database: the account has an active subscription
  inFlight,   \* requests whose write is neither in effect nor refused
  kind, target, body,  \* what each request asks for
  pc,         \* where its handler waits: "lookup", "write" or "read"
  outcome,    \* what the client is told
  answer,     \* the webhook it is given
  lagging     \* history: the replica it was read from lacked some write

database == <<log, has, subscribed>>
args == <<kind, target, body>>
result == <<outcome, answer, lagging>>
vars == <<log, has, subscribed, inFlight, kind, target, body, pc, outcome, answer, lagging>>

(* Every variable has its type.                                             *)
TypeOK ==
  /\ log \in Seq(Write)
  /\ has \in [Replica -> SUBSET DOMAIN log]
  /\ subscribed \in BOOLEAN
  /\ inFlight \subseteq Request
  /\ kind \in [Request -> Kind]
  /\ target \in [Request -> Id]
  /\ body \in [Request -> Fields]
  /\ pc \in [Request -> {"idle", "lookup", "write", "read", "done"}]
  /\ outcome \in [Request -> {"none", "success", "notFound", "error"}]
  /\ answer \in [Request -> Fields]
  /\ lagging \in [Request -> BOOLEAN]

-----------------------------------------------------------------------------
(* What a set M of writes, numbered as in the log, makes of the webhook i.  *)

Decided == DOMAIN log

IsRemoval(n, i) == log[n].id = i /\ log[n].op = "delete"

Live(i, M) ==
  {n \in M : /\ log[n].id = i /\ log[n].op = "write"
             /\ \A m \in M : IsRemoval(m, i) => m < n}

Exists(i, M) == Live(i, M) # {}

(* Each column has the value of the last write that gives it one.           *)
Row(i, M) ==
  [f \in Column |->
     LET giving == {n \in Live(i, M) : log[n].fields[f] # Null}
     IN  IF giving = {} THEN Null ELSE log[Max(giving)].fields[f]]

Applied(r) == \E n \in Decided : log[n].by = r

-----------------------------------------------------------------------------

(* Mutants: columns left out are written as empty; confirmations are always *)
(* written as 0.                                                            *)
WrittenInFull(b) == [f \in Column |-> IF b[f] = Null THEN Zero ELSE b[f]]
WrittenWithZero(b) == [b EXCEPT !["confirmations"] = Zero]

(* The mappers leave out what the body leaves out, but for confirmations,   *)
(* which fall back to 0.                                                    *)
Written(b) == [b EXCEPT !["confirmations"] = IF @ = Null THEN Zero ELSE @]

(* Mutant: an update is a plain UPDATE, which makes the row it does not     *)
(* find.                                                                    *)
HoldsForAnyUpdate(r) ==
  CASE kind[r] = "create" -> ~Exists(target[r], Decided)
    [] kind[r] = "remove" -> Exists(target[r], Decided)
    [] OTHER -> TRUE

(* The condition of r's write.                                              *)
Holds(r) == IF kind[r] = "create" THEN ~Exists(target[r], Decided)
                                  ELSE Exists(target[r], Decided)

Mutation(r) ==
  [id |-> target[r], by |-> r,
   op |-> IF kind[r] = "remove" THEN "delete" ELSE "write",
   fields |-> IF kind[r] = "remove" THEN Nothing ELSE Written(body[r])]

Init ==
  /\ log = <<[id |-> First, op |-> "write", by |-> First,
              fields |-> [f \in Column |-> Zero]]>>
  /\ has = [c \in Replica |-> {1}]
  /\ subscribed \in BOOLEAN
  /\ inFlight = {}
  /\ kind = [r \in Request |-> "get"]
  /\ target = [r \in Request |-> First]
  /\ body = [r \in Request |-> Nothing]
  /\ pc = [r \in Request |-> "idle"]
  /\ outcome = [r \in Request |-> "none"]
  /\ answer = [r \in Request |-> Nothing]
  /\ lagging = [r \in Request |-> FALSE]

Known == {log[n].id : n \in Decided}

(* The client calls; the handler runs up to its first query.  Nobody knows  *)
(* the id of a webhook that never was there.                                *)
Arrive(r, k, i, b) ==
  /\ pc[r] = "idle"
  /\ IF k = "create" THEN i = r ELSE i \in Known
  /\ k \in {"remove", "get"} => b = Nothing
  /\ kind' = [kind EXCEPT ![r] = k]
  /\ target' = [target EXCEPT ![r] = i]
  /\ body' = [body EXCEPT ![r] = b]
  /\ pc' = [pc EXCEPT ![r] = CASE k = "create" -> "lookup"
                               [] k \in {"update", "remove"} -> "write"
                               [] k = "get" -> "read"]
  /\ inFlight' = IF k \in {"update", "remove"} THEN inFlight \cup {r} ELSE inFlight
  /\ UNCHANGED <<database, result>>

Answer(r, o) ==
  /\ pc' = [pc EXCEPT ![r] = "done"]
  /\ outcome' = [outcome EXCEPT ![r] = o]

(* A creation first reads the account's subscription.                       *)
Lookup(r) ==
  /\ pc[r] = "lookup"
  /\ \/ /\ subscribed
        /\ pc' = [pc EXCEPT ![r] = "write"]
        /\ inFlight' = inFlight \cup {r}
        /\ UNCHANGED outcome
     \/ /\ ~subscribed
        /\ Answer(r, "notFound")
        /\ UNCHANGED inFlight
  /\ UNCHANGED <<database, args, answer, lagging>>

(* Mutant: the result of a removal is not looked at.                        *)
AcknowledgeAnyRemoval(r, applied) ==
  \/ /\ kind[r] # "remove"
     /\ pc' = [pc EXCEPT ![r] = "read"]
     /\ UNCHANGED outcome
  \/ /\ kind[r] = "remove"
     /\ Answer(r, "success")

(* What the handler makes of the database's answer to its write.  ScyllaDB  *)
(* answers a conditional write with a row in any case, so `!webhook` never  *)
(* holds and both creation and update go on; removal asks wasApplied().     *)
Acknowledge(r, applied) ==
  \/ /\ kind[r] # "remove"
     /\ pc' = [pc EXCEPT ![r] = "read"]
     /\ UNCHANGED outcome
  \/ /\ kind[r] = "remove"
     /\ Answer(r, IF applied THEN "success" ELSE "notFound")

(* The database decides r's write.  One replica has it when it answers.     *)
Decide(r) ==
  /\ r \in inFlight
  /\ inFlight' = inFlight \ {r}
  /\ IF Holds(r)
       THEN /\ log' = Append(log, Mutation(r))
            /\ \E c \in Replica : has' = [has EXCEPT ![c] = @ \cup {Len(log) + 1}]
       ELSE UNCHANGED <<log, has>>
  /\ IF pc[r] = "write"
       THEN Acknowledge(r, Holds(r))
       ELSE UNCHANGED <<pc, outcome>>
  /\ UNCHANGED <<subscribed, args, answer, lagging>>

(* Mutant: the row is not looked at.                                        *)
FoundAlways(r, M) == Answer(r, "success")

Found(r, M) == Answer(r, IF Exists(target[r], M) THEN "success" ELSE "notFound")

(* findOne, alone or at the end of create and update.                       *)
Read(r) ==
  /\ pc[r] = "read"
  /\ \E c \in Replica :
       /\ Found(r, has[c])
       /\ answer' = [answer EXCEPT ![r] = Row(target[r], has[c])]
       /\ lagging' = [lagging EXCEPT ![r] = has[c] # Decided]
  /\ UNCHANGED <<database, inFlight, args>>

(* The driver gives up, and the handler ends with its exception; a write    *)
(* stays in flight.                                                         *)
TimeOut(r) ==
  /\ pc[r] \in {"lookup", "write", "read"}
  /\ Answer(r, "error")
  /\ UNCHANGED <<database, inFlight, args, answer, lagging>>

(* A write nobody waits for never reaches the database.                     *)
Lose(r) ==
  /\ r \in inFlight /\ pc[r] = "done"
  /\ inFlight' = inFlight \ {r}
  /\ UNCHANGED <<database, args, pc, result>>

(* A replica gets a write.                                                  *)
Learn(c, n) ==
  /\ n \in Decided \ has[c]
  /\ has' = [has EXCEPT ![c] = @ \cup {n}]
  /\ UNCHANGED <<log, subscribed, inFlight, args, pc, result>>

(* Another service changes the subscription.                                *)
Subscribe ==
  /\ subscribed' = ~subscribed
  /\ UNCHANGED <<log, has, inFlight, args, pc, result>>

Next ==
  \/ \E r \in Request :
       \/ \E k \in Kind, i \in Id, b \in Body \cup {Nothing} : Arrive(r, k, i, b)
       \/ Lookup(r) \/ Decide(r) \/ Read(r) \/ TimeOut(r) \/ Lose(r)
  \/ \E c \in Replica, n \in Decided : Learn(c, n)
  \/ Subscribe

Spec == Init /\ [][Next]_vars

-----------------------------------------------------------------------------
(* No write to a webhook takes effect after its removal: an update that was *)
(* on its way, even one its client has given up on, does not bring a part   *)
(* of it back (ifExists, webhook.provider.ts 39, 53).                       *)
RemovalIsFinal ==
  \A n \in Decided, m \in Decided :
    n < m /\ log[n].op = "delete" => log[m].id # log[n].id

(* Of any number of clients that remove a webhook, at most one is told that *)
(* it did, and then it did (webhooks.service.ts 76-82).                     *)
OneRemoval ==
  \A r, s \in Request :
    /\ kind[r] = "remove" /\ outcome[r] = "success"
    /\ kind[s] = "remove" /\ target[s] = target[r]
    => Applied(r) /\ (outcome[s] = "success" => s = r)

(* A creation or an update answered with the webhook has taken effect,      *)
(* although update takes any result for applied: when it did not apply, the *)
(* webhook is gone for good and findOne says so.  Only a replica without    *)
(* the removal can deny it (webhooks.service.ts 43-48, 61-71).              *)
SuccessIsApplied ==
  \A r \in Request :
    kind[r] \in {"create", "update"} /\ outcome[r] = "success" /\ ~lagging[r] => Applied(r)

(* The webhook in such an answer shows what the client asked for, or what a *)
(* later write put in its place (webhooks.service.ts 48, 71).               *)
AnswerIsCurrent ==
  \A r \in Request, f \in Column :
    /\ kind[r] \in {"create", "update"} /\ outcome[r] = "success" /\ ~lagging[r]
    /\ body[r][f] # Null
    => \/ answer[r][f] = body[r][f]
       \/ \E m \in Decided, n \in Decided :
            /\ m < n /\ log[m].by = r
            /\ log[n].id = target[r] /\ log[n].fields[f] = answer[r][f]

(* Updates of different columns do not undo each other: a column a client   *)
(* may leave out changes only by an update that gives it                    *)
(* (webhook.mapper.ts 50-60, webhooks.service.ts 84-92).                    *)
UpdatesMerge ==
  [][\A i \in Id, f \in Optional :
       /\ Exists(i, Decided) /\ Exists(i, Decided)'
       /\ Row(i, Decided)'[f] # Row(i, Decided)[f]
       => \E r \in inFlight \ inFlight' :
            kind[r] = "update" /\ target[r] = i /\ body[r][f] # Null]_vars
=============================================================================
