------------------------- MODULE MeteringConnection -------------------------
(***************************************************************************)
(* The connection of Metering to Redis (src/providers/metering/metering.ts):*)
(* open and close with the single slots their callbacks go to, and the      *)
(* events of the client library that call them.                             *)
(*                                                                          *)
(* A caller that passes no callback gets a promise, settled by a callback   *)
(* made for it, which goes to the same slot: callers appear here without    *)
(* that difference.                                                         *)
(*                                                                          *)
(* The library, ioredis, is outside this repository.  As the configuration  *)
(* says, the client is a single one or a cluster's, and the steps below are *)
(* what either may do.  It connects when it is made, and again whenever the *)
(* connection breaks, until quit is called.  It sends quit on a connection  *)
(* that is ready, and the end follows.  Without one it promises nothing: it *)
(* may end; it may answer "OK" and only stop to reconnect, with no end to   *)
(* come; it may still connect.  connect() is refused while a connection is  *)
(* being made or open, and rejected when the attempt fails.                 *)
(***************************************************************************)
EXTENDS Naturals, FiniteSets

CONSTANTS
  Opener,   \* callers of open
  Closer,   \* callers of close
  Nobody,   \* an empty slot
  MaxDrops  \* bound: connections lost but not by quit

ASSUME CallerAssumption == Nobody \notin Opener \cup Closer
ASSUME DropsAssumption == MaxDrops \in Nat

VARIABLES
  status,       \* redis.status; "crashed" after an unhandled rejection
  onRedisReady, \* the opener whose callback is in the slot, or Nobody
  onRedisEnd,   \* the closer whose callback is in the slot, or Nobody
  opener,       \* [Opener -> where its call is]
  closer,       \* [Closer -> where its call is]
  quitting,     \* whether the library was asked to quit: "ready" when it
                \* could be sent, "early" when not, or else "no"
  unhandled,    \* the attempt to connect was made by open
  drops         \* connections lost so far

connection == <<status, onRedisReady, onRedisEnd, opener, closer, quitting,
                unhandled, drops>>

(* Every variable has its type; who is in a slot has called.                *)
ConnectionTypeOK ==
  /\ status \in {"connecting", "connect", "ready", "reconnecting",
                 "disconnecting", "end", "crashed"}
  /\ onRedisReady \in {Nobody} \cup {o \in Opener : opener[o] # "idle"}
  /\ onRedisEnd \in {Nobody} \cup {c \in Closer : closer[c] \in {"waiting", "answered"}}
  /\ opener \in [Opener -> {"idle", "waiting", "stranded", "answered"}]
  /\ closer \in [Closer -> {"idle", "quitting", "waiting", "answered", "failed"}]
  /\ quitting \in {"no", "ready", "early"}
  /\ unhandled \in BOOLEAN
  /\ drops \in 0 .. MaxDrops

(* The constructor connects.                                                *)
ConnectionInit ==
  /\ status = "connecting"
  /\ onRedisReady = Nobody /\ onRedisEnd = Nobody
  /\ opener = [o \in Opener |-> "idle"]
  /\ closer = [c \in Closer |-> "idle"]
  /\ quitting = "no"
  /\ unhandled = FALSE
  /\ drops = 0

IsReady == status = "ready"
IsConnecting == status = "connecting"

(* The statuses that may follow when an attempt to connect is given up: one *)
(* made by open rejects a promise nobody handles, which ends the process.   *)
GivenUp(next) == IF unhandled THEN {next, "crashed"} ELSE {next}

(* Mutant: open leaves it to the library to connect again.                  *)
ConnectNever == UNCHANGED <<status, quitting, unhandled>>

(* redis.connect(), whose promise nobody handles: between "connecting" and  *)
(* "ready" the library rejects it.  An end asked for may now not come.      *)
Connect ==
  /\ status' \in IF status = "connect" THEN {"crashed"} ELSE GivenUp("connecting")
  /\ quitting' = IF quitting = "no" THEN "no" ELSE "early"
  /\ unhandled' = TRUE

Open(o) ==
  /\ opener[o] = "idle" /\ status # "crashed"
  /\ \/ /\ IsReady
        /\ opener' = [opener EXCEPT ![o] = "answered"]
        /\ UNCHANGED <<status, onRedisReady, quitting, unhandled>>
     \/ /\ ~IsReady
        /\ opener' = [opener EXCEPT ![o] = "waiting"]
        /\ onRedisReady' = o
        /\ IF IsConnecting THEN UNCHANGED <<status, quitting, unhandled>> ELSE Connect
  /\ UNCHANGED <<onRedisEnd, closer, drops>>

(* A connection is made; the library may forget that it was to quit.        *)
Established ==
  /\ \/ status = "connecting"
     \/ status = "disconnecting" /\ quitting = "early"
  /\ status' = "connect"
  /\ quitting' \in {quitting, "no"}
  /\ UNCHANGED <<onRedisReady, onRedisEnd, opener, closer, unhandled, drops>>

(* onReady calls the slot's callback, and does not empty the slot.          *)
Ready ==
  /\ status = "connect"
  /\ status' = "ready"
  /\ opener' = [o \in Opener |-> IF o = onRedisReady THEN "answered" ELSE opener[o]]
  /\ unhandled' = FALSE
  /\ UNCHANGED <<onRedisReady, onRedisEnd, closer, quitting, drops>>

(* The connection breaks, or is not made.                                   *)
Drop ==
  /\ status \in {"connecting", "connect", "ready"} /\ quitting = "no"
  /\ drops < MaxDrops
  /\ status' \in GivenUp("reconnecting")
  /\ unhandled' = FALSE
  /\ drops' = drops + 1
  /\ UNCHANGED <<onRedisReady, onRedisEnd, opener, closer, quitting>>

Reconnect ==
  /\ status = "reconnecting" /\ quitting = "no"
  /\ status' = "connecting"
  /\ UNCHANGED <<onRedisReady, onRedisEnd, opener, closer, quitting, unhandled, drops>>

(* close calls quit.                                                        *)
Quit(c) ==
  /\ closer[c] = "idle" /\ status # "crashed"
  /\ closer' = [closer EXCEPT ![c] = "quitting"]
  /\ IF IsReady
       THEN quitting' = "ready" /\ status' \in {"ready", "disconnecting"}
       ELSE /\ quitting' = IF quitting = "ready" THEN "ready" ELSE "early"
            /\ status' \in {status} \cup GivenUp("disconnecting")
  /\ UNCHANGED <<onRedisReady, onRedisEnd, opener, unhandled, drops>>

Listen(c) == onRedisEnd' = c

(* quit answers "OK", and close listens for the end from then on.           *)
QuitAnswered(c) ==
  /\ closer[c] = "quitting" /\ status # "crashed"
  /\ closer' = [closer EXCEPT ![c] = "waiting"]
  /\ Listen(c)
  /\ UNCHANGED <<status, onRedisReady, opener, quitting, unhandled, drops>>

(* quit is not answered by "OK": close returns false or throws.             *)
QuitFails(c) ==
  /\ closer[c] = "quitting" /\ status # "crashed"
  /\ closer' = [closer EXCEPT ![c] = "failed"]
  /\ UNCHANGED <<status, onRedisReady, onRedisEnd, opener, quitting, unhandled, drops>>

(* The connection ends as asked; onEnd calls the slot's callback.  Who waits *)
(* for it to be ready waits on: no callback is told of an error.            *)
End ==
  /\ quitting # "no" /\ status # "crashed"
  /\ status' \in GivenUp("end")
  /\ quitting' = "no"
  /\ unhandled' = FALSE
  /\ closer' = [c \in Closer |-> IF c = onRedisEnd THEN "answered" ELSE closer[c]]
  /\ opener' = [o \in Opener |-> IF opener[o] = "waiting" THEN "stranded" ELSE opener[o]]
  /\ UNCHANGED <<onRedisReady, onRedisEnd, drops>>

ConnectionNext ==
  \/ \E o \in Opener : Open(o)
  \/ Established
  \/ Ready
  \/ Drop
  \/ Reconnect
  \/ \E c \in Closer : Quit(c) \/ QuitAnswered(c) \/ QuitFails(c)
  \/ End

(* The library goes on connecting while nobody has asked it to quit, and    *)
(* ends when quit was sent.                                                 *)
Connects == quitting = "no" /\ Established
BecomesReady == quitting = "no" /\ Ready
EndsAsAsked == quitting = "ready" /\ End

ConnectionFairness ==
  /\ WF_connection(Connects) /\ WF_connection(BecomesReady) /\ WF_connection(Reconnect)
  /\ WF_connection(EndsAsAsked)

ConnectionSpec == ConnectionInit /\ [][ConnectionNext]_connection /\ ConnectionFairness

-----------------------------------------------------------------------------
(* Whoever calls open or close is called back, but for the ways it can be   *)
(* forgotten in, which are these.  An opener: another takes its slot, the   *)
(* connection is closed meanwhile, or its own or another's connect() ends   *)
(* the process.  A closer that waits while the end is to come: another      *)
(* takes its slot, somebody opens before the end, or the process ends.  One *)
(* that waits with no end to come, because quit was called before the       *)
(* connection was ready or answered after the end, is promised nothing      *)
(* (metering.ts 48-100).                                                    *)
CallersAnswered ==
  /\ \A o \in Opener :
       opener[o] = "waiting" ~>
         \/ opener[o] = "answered"
         \/ onRedisReady \in Opener \ {o}
         \/ opener[o] = "stranded" \/ quitting = "early"
         \/ status = "crashed"
  /\ \A c \in Closer :
       closer[c] = "waiting" /\ quitting = "ready" ~>
         \/ closer[c] = "answered"
         \/ onRedisEnd \in Closer \ {c}
         \/ quitting = "early"
         \/ status = "crashed"
=============================================================================
