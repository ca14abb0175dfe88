--------------------------- MODULE WalletSelection ---------------------------
(***************************************************************************)
(* Coin selection for an address and for a wallet:                          *)
(* AddressesService.coinSelection (src/addresses/addresses.service.ts) and  *)
(* StakesService.coinSelection (src/wallets/stakes.service.ts), which walks *)
(* the wallet's addresses page by page, lists the outputs of each, and      *)
(* tries a selection from all outputs so far after each, until one          *)
(* succeeds.  The ledger goes on meanwhile.                                 *)
(*                                                                          *)
(* Two parts have a module of their own and appear here by what that module *)
(* shows of them.  Listing an address takes from its first page to its last *)
(* and gives what OutputListing promises: outputs that were unspent at the  *)
(* first, all those that still are at the last among them; the ledger is    *)
(* not rolled back here.  Utils.coinSelection runs without interruption, as *)
(* PlainSelection says: outputs hold lovelace only here.                    *)
(***************************************************************************)
EXTENDS PlainSelection

CONSTANTS
  Address,   \* the addresses of a wallet
  Place,     \* [Address -> Nat]: the order the ledger lists them in
  Output,    \* outputs made at those addresses
  Owner,     \* [Output -> Address]
  Ask,       \* the amounts asked for, 0 for none
  Cap,       \* the limits on inputs considered
  PageSize   \* addresses in a page, 1000 in the code

ASSUME AddressAssumption ==
  /\ IsFiniteSet(Address)
  /\ Place \in [Address -> Nat]
  /\ \A x, y \in Address : Place[x] = Place[y] => x = y
ASSUME OutputAssumption ==
  IsFiniteSet(Output) /\ Owner \in [Output -> Address] /\ Coin \in [Output -> Nat \ {0}]
ASSUME AskAssumption == Ask \subseteq Nat /\ Cap \subseteq Nat
ASSUME PageAssumption == PageSize \in Nat \ {0} /\ MinUtxo \in Nat \ {0}

VARIABLES
  made,      \* ledger: the outputs made so far
  spent,     \* ledger: those spent since
  kind,      \* the request: "address" or "wallet"
  amount,    \* the request: value.lovelace
  cap,       \* the request: maxInputCount
  check,     \* the request: check_min_utxo
  cursor,    \* the walk: the place of the last address of its page, -1 at first
  page,      \* the walk: addresses of the page not begun
  more,      \* the walk: there is another page
  current,   \* the walk: the address whose outputs are listed
  snapshot,  \* the outputs unspent at its first page
  utxos,     \* the walk: the outputs collected
  twice,     \* history: outputs collected more than once
  selection, \* the outputs of the answer
  pc,        \* "list", "first" and "rest" wait for the ledger; "done"
  outcome,   \* "none", "selected", or why not
  kept       \* history: outputs unspent since the request came in

ledger == <<made, spent>>
request == <<kind, amount, cap, check>>
walk == <<cursor, page, more, current, snapshot>>
vars == <<made, spent, kind, amount, cap, check, cursor, page, more, current, snapshot,
          utxos, twice, selection, pc, outcome, kept>>

Refusal == {"notEnough", "exhausted", "tooMany", "typeError", "belowMinimum"}

Unspent == made \ spent
At(x) == {o \in Unspent : Owner[o] = x}

(* Every variable has its type, and what is selected was collected.         *)
TypeOK ==
  /\ made \subseteq Output /\ spent \subseteq made /\ kept \subseteq Unspent
  /\ kind \in {"address", "wallet"} /\ amount \in Ask /\ cap \in Cap /\ check \in BOOLEAN
  /\ cursor \in {-1} \cup {Place[x] : x \in Address}
  /\ page \subseteq Address /\ more \in BOOLEAN /\ current \in Address
  /\ snapshot \subseteq {o \in made : Owner[o] = current}
  /\ utxos \subseteq made /\ twice \subseteq utxos /\ selection \subseteq utxos
  /\ pc \in {"list", "first", "rest", "done"}
  /\ outcome \in {"none", "selected", "error"} \cup Refusal

-----------------------------------------------------------------------------

Init ==
  /\ made \in SUBSET Output /\ spent \in SUBSET made
  /\ kind \in {"address", "wallet"} /\ amount \in Ask /\ cap \in Cap /\ check \in BOOLEAN
  /\ cursor = -1 /\ more = FALSE
  /\ current \in Address
  /\ page = IF kind = "address" THEN {current} ELSE {}
  /\ pc = IF kind = "address" THEN "first" ELSE "list"
  /\ snapshot = {} /\ utxos = {} /\ twice = {} /\ selection = {}
  /\ outcome = "none"
  /\ kept = Unspent

(* A transaction spends outputs of the wallet, and makes others in it.      *)
Commit(ins, outs) ==
  /\ ins \subseteq Unspent /\ outs \subseteq Output \ made /\ ins \cup outs # {}
  /\ made' = made \cup outs
  /\ spent' = spent \cup ins
  /\ kept' = kept \ ins
  /\ UNCHANGED <<request, walk, utxos, twice, selection, pc, outcome>>

End(o) == pc' = "done" /\ outcome' = o

(* The ledger knows an address of the wallet from its first output on.      *)
Ahead == {x \in {Owner[o] : o \in made} : Place[x] > cursor}

(* Mutants: the cursor stays where it was; it is that of the address read   *)
(* beyond the page.                                                         *)
CursorStays(P) == {cursor}
CursorBeyond(P) ==
  IF P = Ahead THEN {-1}
  ELSE {Place[x] : x \in {y \in Ahead \ P : \A z \in Ahead \ P : Place[y] <= Place[z]}}

Cursor(P) == {Place[x] : x \in {y \in P : \A z \in P : Place[z] <= Place[y]}}

(* getAddresses: a page, and the place of its last address if there is more.*)
List ==
  /\ pc = "list"
  /\ \E P \in SUBSET Ahead :
       /\ P = Ahead \/ Cardinality(P) = PageSize
       /\ Cardinality(P) <= PageSize
       /\ \A x \in P, y \in Ahead \ P : Place[x] < Place[y]
       /\ page' = P
       /\ more' = (P # Ahead)
       /\ IF P # Ahead THEN cursor' \in Cursor(P) ELSE UNCHANGED cursor
       /\ IF P = {} THEN End("notEnough") ELSE pc' = "first" /\ UNCHANGED outcome
  /\ UNCHANGED <<ledger, request, current, snapshot, utxos, twice, selection, kept>>

(* getAllUtxos on the page's next address: its first page is read.          *)
Begin ==
  /\ pc = "first"
  /\ \E x \in page :
       /\ \A y \in page : Place[x] <= Place[y]
       /\ current' = x
       /\ page' = page \ {x}
       /\ snapshot' = At(x)
  /\ pc' = "rest"
  /\ UNCHANGED <<ledger, request, cursor, more, utxos, twice, selection, outcome, kept>>

(* What a listing of the address promises (OutputListing, which UtxoWalk    *)
(* implements): the ledger is not rolled back, so what is unspent now and   *)
(* was when it began has stayed unspent.                                    *)
Listing == INSTANCE OutputListing WITH
  unspent <- At(current), kept <- At(current) \cap snapshot,
  order <- "desc", rolled <- FALSE, state <- pc, answer <- utxos

(* Mutant: in ascending order the walk also meets outputs made meanwhile.   *)
MayListAscending(R) == At(current) \cap snapshot \subseteq R /\ R \subseteq snapshot \cup At(current)

(* R is a list getAllUtxos may have when it has read its last page.         *)
MayList(R) == Listing!Promised(R)

(* Mutant: the call empties the walk's own list, not a copy of it.          *)
LeftByCallNone(S) == {}

(* A call that fails has popped its copy of the list, [...utxos].           *)
LeftByCall(S) == S

(* On to the next address, the next page, or the last refusal.              *)
GoOn(why) ==
  IF page # {} THEN pc' = "first" /\ UNCHANGED outcome
  ELSE IF more THEN pc' = "list" /\ UNCHANGED outcome
  ELSE End(why)

Tried(R) == utxos \cup R

(* After each address of a wallet that has outputs, a selection is tried;   *)
(* a failure gives the message, and the walk goes on.                       *)
TryWallet(R) ==
  \/ /\ R = {}
     /\ GoOn(IF utxos = {} THEN "notEnough" ELSE Thrown(utxos, amount, cap))
     /\ UNCHANGED <<utxos, twice, selection>>
  \/ /\ R # {}
     /\ twice' = twice \cup (utxos \cap R)
     /\ LET S == Tried(R)
            answers == IF amount = 0 THEN {} ELSE Selected(S, amount, cap, check)
        IN  \/ /\ answers # {}
               /\ utxos' = utxos \cup R
               /\ selection' \in answers
               /\ End("selected")
            \/ /\ answers = {}
               /\ utxos' = LeftByCall(utxos \cup R)
               /\ GoOn(Thrown(S, amount, cap))
               /\ UNCHANGED selection

(* No amount is the minimum for an address, and nothing for a wallet.       *)
Need == IF kind = "address" /\ amount = 0 THEN MinUtxo ELSE amount

(* For an address there is one try, and less than the minimum is refused.   *)
TryAddress(R) ==
  LET answers == Selected(R, Need, cap, check)
  IN  /\ utxos' = R
      /\ UNCHANGED twice
      /\ \/ Need < MinUtxo /\ End("belowMinimum") /\ UNCHANGED selection
         \/ Need >= MinUtxo /\ answers # {} /\ selection' \in answers /\ End("selected")
         \/ Need >= MinUtxo /\ answers = {} /\ End(Thrown(R, Need, cap)) /\ UNCHANGED selection

(* getAllUtxos has read its last page.                                      *)
Collect ==
  /\ pc = "rest"
  /\ \E R \in SUBSET (snapshot \cup At(current)) :
       MayList(R) /\ IF kind = "wallet" THEN TryWallet(R) ELSE TryAddress(R)
  /\ UNCHANGED <<ledger, request, walk, kept>>

(* A query fails, and the request with it.                                  *)
Break ==
  /\ pc # "done"
  /\ End("error")
  /\ UNCHANGED <<ledger, request, walk, utxos, twice, selection, kept>>

Next ==
  \/ \E ins \in SUBSET Unspent, outs \in SUBSET (Output \ made) : Commit(ins, outs)
  \/ List
  \/ Begin
  \/ Collect
  \/ Break

Spec == Init /\ [][Next]_vars

-----------------------------------------------------------------------------
(* No output is collected twice, whatever addresses appear while the pages  *)
(* are read: its lovelace would be counted twice (stakes.service.ts 63-70). *)
NoDuplicates == twice = {}

(* A refusal for want of funds is genuine: of the outputs that were there   *)
(* unspent all the time, no choice within the limit is worth the amount,    *)
(* although no single call of Utils.coinSelection saw them all at one       *)
(* moment (stakes.service.ts 62-80, addresses.service.ts 116-135).          *)
RefusalGenuine ==
  outcome \in {"notEnough", "exhausted", "tooMany"} /\ Need > 0 =>
    LET mine == IF kind = "wallet" THEN kept ELSE {o \in kept : Owner[o] = current}
    IN  \A T \in SUBSET mine : Cardinality(T) <= cap => Worth(T) < Need

(* A selection pays what was asked for within the limit.  For an address    *)
(* its outputs were all unspent at one moment, so none was made by spending *)
(* another (addresses.service.ts 117).                                      *)
SelectionPays ==
  outcome = "selected" =>
    /\ Worth(selection) >= Need /\ Cardinality(selection) <= cap
    /\ kind = "address" => selection \subseteq snapshot
=============================================================================
