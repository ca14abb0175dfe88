------------------------------- MODULE Listing -------------------------------
(***************************************************************************)
(* The other lists of the API, which a client reads page by page over a     *)
(* table that changes between its calls: assets, transactions and outputs   *)
(* of an address, owners of an asset, transactions of a block, delegations  *)
(* of a pool, assets of a policy, redeemers of a script, mints and metadata *)
(* of a transaction, addresses of a wallet.                                 *)
(*                                                                          *)
(* Each handler decrypts the cursor into the values of some columns, or     *)
(* starts from the beginning when it cannot; asks the ledger database for   *)
(* size + 1 rows that follow them; and makes the next cursor of the same    *)
(* columns of the last row of the page.  The handlers differ in the columns,*)
(* and in the test of the address some begin with, which is left out here.  *)
(* The database is outside this repository: it is taken to order each list  *)
(* by the columns its cursor holds, which is what the handlers need.        *)
(***************************************************************************)
EXTENDS Integers, FiniteSets, Sequences

CONSTANTS
  Row,      \* rows of the table
  ListSize, \* the page sizes asked for
  Span      \* bound: [number of columns -> the values 1, 2, ... of a column]

ASSUME ListSizeAssumption == ListSize \subseteq Nat
ASSUME SpanAssumption == Span \in [1 .. 2 -> Nat]

-----------------------------------------------------------------------------
(* The columns in the cursor of each list.                                  *)

AddressAssets == <<"fingerprint">>
AddressAssetUtxos == <<"tx_id", "index">>
AddressTransactions == <<"tx_id">>
AssetOwners == <<"quantity", "address">>
FingerprintOwners == <<"quantity", "address">>
BlockTransactions == <<"tx_id">>
PoolDelegations == <<"tx_id">>
PolicyAssets == <<"fingerprint">>
ScriptRedeemers == <<"tx_id", "index">>
TransactionMints == <<"fingerprint">>
TransactionMetadata == <<"label">>
StakeAddresses == <<"address">>

Lists == {AddressAssets, AddressAssetUtxos, AddressTransactions, AssetOwners,
          FingerprintOwners, BlockTransactions, PoolDelegations, PolicyAssets,
          ScriptRedeemers, TransactionMints, TransactionMetadata, StakeAddresses}

-----------------------------------------------------------------------------
VARIABLES
  columns,   \* the list that is read
  direction, \* its order
  listSize,  \* the size of its pages
  table,     \* the values of the columns, for every row that exists
  position,  \* what the cursor holds, <<>> for the start
  listed,    \* the rows on the pages so far
  reading,   \* "open", "done" or "error"
  begun,     \* the first page was read
  again,     \* history: rows that were on two pages
  stayed     \* history: rows that did not change since the first page, and
             \* shared their values with no other row

listing == <<columns, direction, listSize, table, position, listed, reading, begun,
             again, stayed>>

Values == [DOMAIN columns -> 1 .. Span[Len(columns)]]

(* Every variable has its type; what was on two pages was listed.           *)
ListTypeOK ==
  /\ columns \in Lists /\ direction \in {"desc", "asc"} /\ listSize \in ListSize
  /\ DOMAIN table \subseteq Row /\ \A r \in DOMAIN table : table[r] \in Values
  /\ position \in Values \cup {<<>>}
  /\ listed \subseteq Row /\ again \subseteq listed
  /\ reading \in {"open", "done", "error"} /\ begun \in BOOLEAN
  /\ stayed \subseteq DOMAIN table

Lesser(k, l) ==
  \E i \in DOMAIN k : k[i] < l[i] /\ \A j \in 1 .. i - 1 : k[j] = l[j]

(* k comes before l in the list.                                            *)
Precedes(k, l) == IF direction = "desc" THEN Lesser(l, k) ELSE Lesser(k, l)

Following == {r \in DOMAIN table : position = <<>> \/ Precedes(position, table[r])}

(* The first n rows of those that follow, or all; rows with the same values *)
(* come in any order.                                                       *)
IsFirst(R, n) ==
  /\ R \subseteq Following /\ Cardinality(R) <= n
  /\ R = Following \/ Cardinality(R) = n
  /\ \A r \in R, s \in Following \ R : ~Precedes(table[s], table[r])

Lasts(R) == {r \in R : \A s \in R : ~Precedes(table[r], table[s])}

Untied(t) == {r \in DOMAIN t : \A s \in DOMAIN t \ {r} : t[s] # t[r]}

ListInit ==
  /\ columns \in Lists /\ direction \in {"desc", "asc"} /\ listSize \in ListSize
  /\ table = [r \in {} |-> <<>>]
  /\ position = <<>> /\ listed = {} /\ reading = "open" /\ begun = FALSE
  /\ again = {} /\ stayed = {}

(* The table changes: a row comes, goes, or, in the owners of an asset, has *)
(* another quantity.                                                        *)
Become(t) ==
  /\ table' = t
  /\ stayed' = {r \in stayed \cap Untied(t) : t[r] = table[r]}
  /\ UNCHANGED <<columns, direction, listSize, position, listed, reading, begun, again>>

Insert(r, k) ==
  /\ r \notin DOMAIN table
  /\ Become([s \in DOMAIN table \cup {r} |-> IF s = r THEN k ELSE table[s]])

Delete(r) ==
  /\ r \in DOMAIN table
  /\ Become([s \in DOMAIN table \ {r} |-> table[s]])

Requantify(r, q) ==
  /\ r \in DOMAIN table /\ columns[1] = "quantity"
  /\ q # table[r][1]
  /\ Become([table EXCEPT ![r] = [@ EXCEPT ![1] = q]])

(* Mutant: the last column is not in the cursor, and the rows that follow   *)
(* are those that differ from it in the others.                             *)
PositionCutShort(r) ==
  [i \in DOMAIN columns |->
     IF i < Len(columns) THEN table[r][i]
     ELSE IF direction = "desc" THEN 1 ELSE Span[Len(columns)]]

Position(r) == table[r]

(* One call.  With size 0 there is no row to take the cursor from, unless   *)
(* nothing was read.                                                        *)
Page ==
  /\ reading = "open"
  /\ begun' = TRUE
  /\ stayed' = IF begun THEN stayed ELSE Untied(table)
  /\ \E R \in SUBSET Following :
       /\ IsFirst(R, listSize + 1)
       /\ \/ /\ Cardinality(R) <= listSize
             /\ listed' = listed \cup R /\ again' = again \cup (listed \cap R)
             /\ reading' = "done" /\ UNCHANGED position
          \/ /\ Cardinality(R) > listSize /\ listSize > 0
             /\ \E beyond \in Lasts(R) : LET I == R \ {beyond} IN
                  /\ listed' = listed \cup I /\ again' = again \cup (listed \cap I)
                  /\ position' \in {Position(r) : r \in Lasts(I)}
             /\ UNCHANGED reading
          \/ /\ Cardinality(R) > listSize /\ listSize = 0
             /\ reading' = "error" /\ UNCHANGED <<listed, again, position>>
  /\ UNCHANGED <<columns, direction, listSize, table>>

(* The query fails.                                                         *)
PageFails ==
  /\ reading = "open" /\ reading' = "error"
  /\ UNCHANGED <<columns, direction, listSize, table, position, listed, begun, again, stayed>>

ListNext ==
  \/ \E r \in Row, k \in Values : Insert(r, k)
  \/ \E r \in Row : Delete(r)
  \/ \E r \in Row, q \in 1 .. Span[2] : Requantify(r, q)
  \/ Page
  \/ PageFails

ListSpec == ListInit /\ [][ListNext]_listing

-----------------------------------------------------------------------------
(* A row that stays as it is while a client pages, and has the columns of   *)
(* the cursor for itself, is on exactly one page, whatever comes, goes and  *)
(* changes around it, at the page boundaries too.  Owners whose quantity    *)
(* changes are not among these rows, nor delegations made in one            *)
(* transaction: the cursor cannot tell where they are (the handlers that    *)
(* take a pageToken).                                                       *)
StayingRowsListedOnce ==
  /\ stayed \cap again = {}
  /\ reading = "done" => stayed \subseteq listed
=============================================================================
