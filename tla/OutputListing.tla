---------------------------- MODULE OutputListing ----------------------------
(***************************************************************************)
(* What the callers of Utils.getAllUtxos (src/common/utils.ts) rely on: a   *)
(* listing of the unspent outputs of an address, seen as one operation that *)
(* starts, waits, and answers once, while outputs come and go.  UtxoWalk    *)
(* implements it page by page; the selections of WalletSelection are made   *)
(* from its answers.                                                        *)
(***************************************************************************)
EXTENDS FiniteSets

CONSTANT Output  \* outputs of one address

VARIABLES
  unspent,  \* the outputs unspent now
  order,    \* "desc" or "asc"
  state,    \* "idle", "listing", "done" or "error"
  snapshot, \* the outputs unspent when the listing started
  kept,     \* those of them that stayed unspent since
  rolled,   \* the ledger was rolled back since
  answer    \* the outputs listed, once it is done

listing == <<unspent, order, state, snapshot, kept, rolled, answer>>

(* What R owes when it is the answer: it has all that stayed, and in        *)
(* descending order nothing that was not there at the start.                *)
Promised(R) ==
  /\ kept \subseteq R
  /\ order = "desc" /\ ~rolled => R \subseteq snapshot

Init ==
  /\ unspent = {} /\ order \in {"desc", "asc"}
  /\ state = "idle"
  /\ snapshot = {} /\ kept = {} /\ rolled = FALSE /\ answer = {}

(* The ledger moves, forwards or back.                                      *)
Move ==
  /\ unspent' \in SUBSET Output
  /\ kept' = kept \cap unspent'
  /\ rolled' \in {rolled, state # "idle"}
  /\ UNCHANGED <<order, state, snapshot, answer>>

Begin ==
  /\ state = "idle"
  /\ state' = "listing"
  /\ snapshot' = unspent /\ kept' = unspent
  /\ UNCHANGED <<unspent, order, rolled, answer>>

Give ==
  /\ state = "listing"
  /\ state' = "done"
  /\ answer' \in SUBSET Output
  /\ Promised(answer')
  /\ UNCHANGED <<unspent, order, snapshot, kept, rolled>>

(* The listing takes one page.                                              *)
GiveAtOnce ==
  /\ state = "idle"
  /\ state' = "done"
  /\ snapshot' = unspent /\ kept' = unspent /\ answer' = unspent
  /\ UNCHANGED <<unspent, order, rolled>>

Fail ==
  /\ state \in {"idle", "listing"}
  /\ state' = "error"
  /\ UNCHANGED <<unspent, order, snapshot, kept, rolled, answer>>

Next == Move \/ Begin \/ Give \/ GiveAtOnce \/ Fail

Spec == Init /\ [][Next]_listing
=============================================================================
