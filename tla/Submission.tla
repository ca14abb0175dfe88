----------------------------- MODULE Submission -----------------------------
(***************************************************************************)
(* Calls of submit (src/transactions/transactions.service.ts 124-133,       *)
(* src/providers/ogmios/ogmios.service.ts 17-24) with one transaction: each *)
(* is sent to the node behind Ogmios and waits for its answer.  The node is *)
(* outside this repository; it takes the transaction at most once.  An      *)
(* answer may be lost, and the call be handled all the same, later.         *)
(*                                                                          *)
(* Minting decides what the node finds valid; here it may find anything.    *)
(***************************************************************************)

CONSTANT Call  \* calls of submit

VARIABLES
  accepted, \* the chain has the transaction
  call,     \* [Call -> where the call is]
  told,     \* [Call -> "nothing", "ok" or "error"]
  lost      \* history: an answer of the node was lost

calls == <<call, told, lost, accepted>>

SubmissionTypeOK ==
  /\ accepted \in BOOLEAN /\ lost \in BOOLEAN
  /\ call \in [Call -> {"idle", "sent", "taken", "refused"}]
  /\ told \in [Call -> {"nothing", "ok", "error"}]

SubmissionInit ==
  /\ accepted = FALSE
  /\ call = [c \in Call |-> "idle"]
  /\ told = [c \in Call |-> "nothing"]
  /\ lost = FALSE

SubmitTx(c) ==
  /\ call[c] = "idle"
  /\ call' = [call EXCEPT ![c] = "sent"]
  /\ UNCHANGED <<told, lost, accepted>>

(* The node comes to the call, with or without somebody waiting for it.     *)
JudgeTx(c, valid) ==
  /\ call[c] = "sent"
  /\ accepted' = (accepted \/ valid)
  /\ call' = [call EXCEPT ![c] = IF valid /\ ~accepted THEN "taken" ELSE "refused"]
  /\ UNCHANGED <<told, lost>>

(* Mutant: the identifier is returned without waiting for the node.         *)
IsAnswerAtOnce(c, a) == call[c] # "idle" /\ a = "ok"

IsAnswer(c, a) == <<call[c], a>> \in {<<"taken", "ok">>, <<"refused", "error">>}

(* The node's answer, or its reason in a bad request.                       *)
AnswerTx(c) ==
  /\ told[c] = "nothing"
  /\ \E a \in {"ok", "error"} : IsAnswer(c, a) /\ told' = [told EXCEPT ![c] = a]
  /\ UNCHANGED <<call, lost, accepted>>

(* The connection to the node breaks: a bad request all the same.           *)
LoseTx(c) ==
  /\ call[c] # "idle" /\ told[c] = "nothing"
  /\ told' = [told EXCEPT ![c] = "error"]
  /\ lost' = TRUE
  /\ UNCHANGED <<call, accepted>>

SubmissionNext ==
  \E c \in Call :
    SubmitTx(c) \/ (\E valid \in BOOLEAN : JudgeTx(c, valid)) \/ AnswerTx(c) \/ LoseTx(c)

SubmissionSpec == SubmissionInit /\ [][SubmissionNext]_calls

-----------------------------------------------------------------------------
(* Success is told only of a transaction the chain has; an error of one it  *)
(* has only if an answer was lost, or another call was told of success      *)
(* (transactions.service.ts 124-133).                                       *)
AnswerTrue ==
  \A c \in Call :
    /\ told[c] = "ok" => accepted
    /\ told[c] = "error" /\ accepted =>
         lost \/ \E d \in Call \ {c} : call[d] = "taken"
=============================================================================
