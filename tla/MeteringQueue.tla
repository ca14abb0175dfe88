---------------------------- MODULE MeteringQueue ----------------------------
(***************************************************************************)
(* The queue of confirmations due at one slot, a list in Redis that is      *)
(* appended to and taken whole (src/providers/metering/metering.ts 297-319).*)
(*                                                                          *)
(* The order within a batch is not modelled: the batch is what a call takes.*)
(* When a connection breaks, the client library sends a command again that  *)
(* was not answered: whether it was executed before is not known.           *)
(***************************************************************************)
EXTENDS Naturals, FiniteSetsExt

CONSTANTS
  Event,    \* what is pushed
  Bad,      \* those of Event whose text is not JSON
  Taker,    \* calls of getConfirmationWebhooks
  MaxPushes \* bound: executions of RPUSH for one event

ASSUME BadAssumption == Bad \subseteq Event
ASSUME TakerAssumption == IsFiniteSet(Taker)
ASSUME PushesAssumption == MaxPushes \in Nat

VARIABLES
  waiting, \* [Event -> copies in the list]
  taker,   \* [Taker -> where the call is]
  batch,   \* [Taker -> [Event -> copies Redis answered with]]
  handed,  \* history: [Event -> copies callers got]
  gone,    \* history: [Event -> copies taken and got by nobody]
  pushed,  \* history: [Event -> times appended]
  lost     \* history: the answer to a take was lost

queue == <<waiting, taker, batch, handed, gone, pushed, lost>>

NoEvents == [e \in Event |-> 0]
Plus2(f, g) == [e \in Event |-> f[e] + g[e]]

(* Every variable has its type; only calls under way hold a batch.          *)
QueueTypeOK ==
  /\ waiting \in [Event -> 0 .. MaxPushes]
  /\ taker \in [Taker -> {"idle", "taken", "done", "failed"}]
  /\ batch \in [Taker -> [Event -> 0 .. MaxPushes]]
  /\ \A t \in Taker : taker[t] # "taken" => batch[t] = NoEvents
  /\ handed \in [Event -> 0 .. MaxPushes] /\ gone \in [Event -> 0 .. MaxPushes]
  /\ pushed \in [Event -> 0 .. MaxPushes]
  /\ lost \in BOOLEAN

QueueInit ==
  /\ waiting = NoEvents
  /\ taker = [t \in Taker |-> "idle"]
  /\ batch = [t \in Taker |-> NoEvents]
  /\ handed = NoEvents /\ gone = NoEvents /\ pushed = NoEvents
  /\ lost = FALSE

(* RPUSH is executed, for a call or for its repetition.                     *)
AddConfirmationWebhook(e) ==
  /\ pushed[e] < MaxPushes
  /\ waiting' = [waiting EXCEPT ![e] = @ + 1]
  /\ pushed' = [pushed EXCEPT ![e] = @ + 1]
  /\ UNCHANGED <<taker, batch, handed, gone, lost>>

(* Mutant: the list is read and stays.                                      *)
LrangeOnly(t) == batch' = [batch EXCEPT ![t] = waiting] /\ UNCHANGED waiting

LrangeDel(t) == batch' = [batch EXCEPT ![t] = waiting] /\ waiting' = NoEvents

(* MULTI LRANGE DEL EXEC.                                                   *)
Take(t) ==
  /\ taker[t] = "idle"
  /\ taker' = [taker EXCEPT ![t] = "taken"]
  /\ LrangeDel(t)
  /\ UNCHANGED <<handed, gone, pushed, lost>>

(* The answer is lost, and the call sent again or given up.                 *)
TakeAgain(t) ==
  /\ taker[t] = "taken"
  /\ gone' = Plus2(gone, batch[t])
  /\ lost' = TRUE
  /\ \/ LrangeDel(t) /\ UNCHANGED taker
     \/ /\ taker' = [taker EXCEPT ![t] = "failed"]
        /\ batch' = [batch EXCEPT ![t] = NoEvents]
        /\ UNCHANGED waiting
  /\ UNCHANGED <<handed, pushed>>

(* Every event is parsed; one that cannot be fails the call.                *)
Parse(t) ==
  /\ taker[t] = "taken"
  /\ batch' = [batch EXCEPT ![t] = NoEvents]
  /\ IF \E e \in Bad : batch[t][e] > 0
       THEN /\ taker' = [taker EXCEPT ![t] = "failed"]
            /\ gone' = Plus2(gone, batch[t])
            /\ UNCHANGED handed
       ELSE /\ taker' = [taker EXCEPT ![t] = "done"]
            /\ handed' = Plus2(handed, batch[t])
            /\ UNCHANGED gone
  /\ UNCHANGED <<waiting, pushed, lost>>

(* The next call.                                                           *)
Return(t) ==
  /\ taker[t] \in {"done", "failed"}
  /\ taker' = [taker EXCEPT ![t] = "idle"]
  /\ UNCHANGED <<waiting, batch, handed, gone, pushed, lost>>

QueueNext ==
  \/ \E e \in Event : AddConfirmationWebhook(e)
  \/ \E t \in Taker : Take(t) \/ TakeAgain(t) \/ Parse(t) \/ Return(t)

QueueSpec == QueueInit /\ [][QueueNext]_queue

-----------------------------------------------------------------------------
(* However many processes take, a confirmation goes to one of them; it is   *)
(* lost only with the answer that carries it, or with a batch that has an   *)
(* event that cannot be parsed (metering.ts 297-319).                       *)
EventsAccounted ==
  \A e \in Event :
    /\ pushed[e] = waiting[e] + handed[e] + gone[e]
                     + SumFunctionOnSet([t \in Taker |-> batch[t][e]], Taker)
    /\ gone[e] > 0 => lost \/ \E b \in Bad : pushed[b] > 0
=============================================================================
