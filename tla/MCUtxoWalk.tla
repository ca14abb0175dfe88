----------------------------- MODULE MCUtxoWalk -----------------------------
(***************************************************************************)
(* The lists for TLC, one at a time: UtxoWalk with three outputs of an      *)
(* address, of which o1 or o3 can come from one transaction with o2, so     *)
(* that a page may end between them; Listing with three rows; and the names *)
(* shown in lists.  They share no state.                                    *)
(***************************************************************************)
EXTENDS UtxoWalk, Listing, AssetNames

CONSTANTS o1, o2, o3, n1, n2, n3, n4

VARIABLE focus  \* the list that is read: "utxos", "rows" or "names"

MCIndex == [o \in Output |-> IF o = o2 THEN 1 ELSE 0]
MCSpan == <<3, 2>>

(* A name that can be printed, one with a run, one with a run further on,   *)
(* and one with both.                                                       *)
MCEnds ==
  [n \in Name |-> CASE n = n1 -> {} [] n = n2 -> {1} [] n = n3 -> {3} [] n = n4 -> {1, 3}]

mcvars == <<focus, vars, listing, names>>

NoList == ListInit /\ columns = AddressAssets /\ direction = "asc" /\ listSize = 1
NoWalk == Init /\ order = "asc" /\ size = 1

MCInit ==
  /\ NamesInit
  /\ \/ focus = "utxos" /\ Init /\ NoList
     \/ focus = "rows" /\ NoWalk /\ ListInit
     \/ focus = "names" /\ NoWalk /\ NoList

MCNext ==
  /\ UNCHANGED focus
  /\ \/ focus = "utxos" /\ Next /\ UNCHANGED <<listing, names>>
     \/ focus = "rows" /\ ListNext /\ UNCHANGED <<vars, names>>
     \/ focus = "names" /\ NamesNext /\ UNCHANGED <<vars, listing>>

MCSpec ==
  /\ MCInit /\ [][MCNext]_mcvars
  /\ WF_mcvars(focus = "utxos" /\ Fetch /\ UNCHANGED <<focus, listing, names>>)
=============================================================================
