------------------------------ MODULE MCMetering ------------------------------
(***************************************************************************)
(* The parts of Metering for TLC, one at a time: the connection, the        *)
(* failure counters of an account, its quota, and the queue share no state. *)
(***************************************************************************)
EXTENDS MeteringConnection, MeteringAccount, MeteringQueue

CONSTANTS b1, b2, b3, b4

VARIABLE focus  \* the part that moves

MCTokens == [b \in Build |-> IF b = b4 THEN 2 ELSE 1]

mcvars == <<focus, connection, account, queue>>

MCInit ==
  /\ focus \in {"connection", "failures", "quota", "queue"}
  /\ ConnectionInit /\ AccountInit /\ QueueInit

MCNext ==
  /\ UNCHANGED focus
  /\ \/ focus = "connection" /\ ConnectionNext /\ UNCHANGED <<account, queue>>
     \/ focus = "failures" /\ FailureNext /\ UNCHANGED <<connection, queue>>
     \/ focus = "quota" /\ QuotaNext /\ UNCHANGED <<connection, queue>>
     \/ focus = "queue" /\ QueueNext /\ UNCHANGED <<connection, account>>

Runs(A) == focus = "connection" /\ A /\ UNCHANGED <<focus, account, queue>>

MCSpec ==
  /\ MCInit /\ [][MCNext]_mcvars
  /\ WF_mcvars(Runs(Connects)) /\ WF_mcvars(Runs(BecomesReady))
  /\ WF_mcvars(Runs(Reconnect)) /\ WF_mcvars(Runs(EndsAsAsked))

(* Every variable of Metering has its type.                                 *)
MeteringTypeOK == ConnectionTypeOK /\ AccountTypeOK /\ QueueTypeOK
=============================================================================
