------------------------------ MODULE UtxoWalk ------------------------------
(***************************************************************************)
(* Listing the unspent outputs of an address page by page: Utils.getUtxos   *)
(* and Utils.getAllUtxos (src/common/utils.ts), on a ledger that goes on    *)
(* while the walk is between two pages.                                     *)
(*                                                                          *)
(* The walk keeps nothing but a cursor, the key <<tx_id, index>> of the     *)
(* last output it was given, and asks the ledger for the outputs that come  *)
(* after it, one more than a page holds.  The ledger database is outside    *)
(* this repository: a transaction gets the next row id, and a rollback      *)
(* takes the latest transactions back, whose ids are not given out again.   *)
(* A transaction taken back may be included again, under another row id.    *)
(*                                                                          *)
(* A page is a set here: within a page the order is the ledger's, and no    *)
(* caller relies on it but for the last output, which gives the cursor.     *)
(***************************************************************************)
EXTENDS Integers, FiniteSets

CONSTANTS
  Output,  \* outputs of one address, by transaction hash and index
  Index,   \* [Output -> Nat]: the index in its transaction
  Order,   \* the orders asked for, a subset of {"desc", "asc"}
  Size,    \* the page sizes asked for
  MaxTx    \* bound: the ledger of the model commits this many transactions

ASSUME OutputAssumption == IsFiniteSet(Output) /\ Index \in [Output -> Nat]
ASSUME OrderAssumption == Order \subseteq {"desc", "asc"}
ASSUME SizeAssumption == Size \subseteq Nat

VARIABLES
  row,     \* ledger: the key of each output it knows
  spentBy, \* ledger: the row id of the transaction that spends it, or 0
  tip,     \* ledger: the latest row id given out
  order,   \* the walk: its order
  size,    \* the walk: the size of its next page
  token,   \* the walk: its cursor, Start before the first page
  result,  \* the walk: the outputs collected
  pc,      \* the walk: "walking", "done", or "error"
  twice,   \* history: outputs the walk was given more than once
  start,   \* history: the outputs unspent when the first page was read
  kept,    \* history: those of start that have stayed unspent, in their rows
  base,    \* history: the tip when the first page was read
  rolled   \* history: the ledger rolled back after its first page

ledger == <<row, spentBy, tip>>
walk == <<order, size, token, result, pc, twice, start, base>>
vars == <<row, spentBy, tip, order, size, token, result, pc, twice, start, kept, base, rolled>>

Key == [tx : Nat, index : Nat]

(* What a missing or unreadable cursor is taken for; no transaction has     *)
(* row id 0.                                                                *)
Start == [tx |-> 0, index |-> 0]

Known == DOMAIN row

(* Every variable has its type; keys are unique and of the ids given out.   *)
TypeOK ==
  /\ Known \subseteq Output
  /\ row \in [Known -> Key]
  /\ \A o \in Known : row[o].tx \in 1 .. tip
  /\ \A o \in Known : row[o].index = Index[o]
  /\ \A o, p \in Known : row[o] = row[p] => o = p
  /\ spentBy \in [Known -> 0 .. tip]
  /\ tip \in Nat
  /\ order \in Order /\ size \in Size
  /\ token \in Key
  /\ result \subseteq Output /\ twice \subseteq result
  /\ pc \in {"walking", "done", "error"}
  /\ start \subseteq Output
  /\ kept \subseteq start
  /\ base \in Nat
  /\ rolled \in BOOLEAN

-----------------------------------------------------------------------------

KeyLess(k, l) == k.tx < l.tx \/ (k.tx = l.tx /\ k.index < l.index)

(* Mutant: the order is forgotten after the first page.                     *)
FollowsAscending(k, pos) == pos = Start \/ KeyLess(pos, k)

(* The key k comes after the position pos in the walk's order.              *)
Follows(k, pos) ==
  \/ pos = Start
  \/ IF order = "desc" THEN KeyLess(k, pos) ELSE KeyLess(pos, k)

Before(o, p) == IF order = "desc" THEN KeyLess(row[p], row[o]) ELSE KeyLess(row[o], row[p])

Unspent == {o \in Known : spentBy[o] = 0}

Rest == {o \in Unspent : Follows(row[o], token)}

(* R is what a query for at most n of the rest gets: the first n of them,   *)
(* or all when they are fewer.                                              *)
IsAnswer(R, n) ==
  /\ R \subseteq Rest
  /\ R = Rest \/ Cardinality(R) = n
  /\ Cardinality(R) <= n
  /\ \A o \in R, p \in Rest \ R : Before(o, p)

LastOf(R, o) == o \in R /\ \A p \in R \ {o} : Before(p, o)

Init ==
  /\ row = [o \in {} |-> Start]
  /\ spentBy = [o \in {} |-> 0]
  /\ tip = 0
  /\ order \in Order /\ size \in Size
  /\ token = Start
  /\ result = {} /\ twice = {}
  /\ pc = "walking"
  /\ start = {} /\ kept = {}
  /\ base = 0
  /\ rolled = FALSE

(* A transaction spends some outputs of the address and makes others.       *)
Commit(spent, made) ==
  /\ tip < MaxTx
  /\ spent \subseteq Unspent /\ made \cap Known = {}
  /\ spent \cup made # {}
  /\ \A o, p \in made : Index[o] = Index[p] => o = p
  /\ tip' = tip + 1
  /\ row' = [o \in Known \cup made |->
               IF o \in made THEN [tx |-> tip + 1, index |-> Index[o]] ELSE row[o]]
  /\ spentBy' = [o \in Known \cup made |->
                   IF o \in made THEN 0 ELSE IF o \in spent THEN tip + 1 ELSE spentBy[o]]
  /\ kept' = kept \ spent
  /\ UNCHANGED <<walk, rolled>>

(* The latest transaction goes: its outputs with it, and what it spent is   *)
(* unspent again.                                                           *)
IsLatest(t) ==
  /\ \E o \in Known : row[o].tx = t \/ spentBy[o] = t
  /\ \A o \in Known : row[o].tx <= t /\ spentBy[o] <= t

Rollback(t) ==
  /\ IsLatest(t)
  /\ row' = [o \in {p \in Known : row[p].tx # t} |-> row[o]]
  /\ spentBy' = [o \in {p \in Known : row[p].tx # t} |->
                   IF spentBy[o] = t THEN 0 ELSE spentBy[o]]
  /\ kept' = {o \in kept : row[o].tx # t}
  /\ rolled' = (token # Start)
  /\ UNCHANGED <<tip, walk>>

(* The page: everything read, or all of it but the last output.             *)
Items(R) ==
  IF Cardinality(R) <= size THEN {R} ELSE {R \ {o} : o \in {p \in R : LastOf(R, p)}}

(* Mutants: the cursor is that of the output read beyond the page, or that  *)
(* of its first output; the cursor is not understood.                       *)
CursorBeyond(R, I) == {row[o] : o \in R \ I}
CursorOfFirst(R, I) == {row[o] : o \in {p \in I : \A q \in I \ {p} : Before(p, q)}}
CursorLost(R, I) == {Start}

(* The cursor after a page that is not the last: the key of its last output.*)
Cursor(R, I) == {row[o] : o \in {p \in I : LastOf(I, p)}}

(* Mutant: the page takes the place of the pages before it.                 *)
CollectLast(I) ==
  /\ result' = I
  /\ twice' = twice \cup (result \cap I)
  /\ IF token = Start
       THEN start' = Unspent /\ kept' = Unspent /\ base' = tip
       ELSE UNCHANGED <<start, kept, base>>

(* The outputs I join the result; the first page starts the history.        *)
Collect(I) ==
  /\ result' = result \cup I
  /\ twice' = twice \cup (result \cap I)
  /\ IF token = Start
       THEN start' = Unspent /\ kept' = Unspent /\ base' = tip
       ELSE UNCHANGED <<start, kept, base>>

(* One page, size + 1 outputs read.  With size 0 there is no last output to *)
(* take the cursor from, unless nothing was read at all.                    *)
Fetch ==
  /\ pc = "walking"
  /\ \E R \in SUBSET Rest :
       /\ IsAnswer(R, size + 1)
       /\ \/ /\ size = 0 /\ R # {}
             /\ pc' = "error"
             /\ UNCHANGED <<token, result, twice, start, kept, base>>
          \/ /\ size > 0 \/ R = {}
             /\ \E I \in Items(R) :
                  /\ Collect(I)
                  /\ \/ Cardinality(R) <= size /\ pc' = "done" /\ UNCHANGED token
                     \/ Cardinality(R) > size /\ token' \in Cursor(R, I) /\ UNCHANGED pc
  /\ UNCHANGED <<ledger, order, size, rolled>>

(* The query fails, and the walk with it.                                   *)
Break ==
  /\ pc = "walking"
  /\ pc' = "error"
  /\ UNCHANGED <<ledger, order, size, token, result, twice, start, kept, base, rolled>>

(* A client of the API asks for its next page in another size.              *)
Resize(s) ==
  /\ pc = "walking" /\ token # Start
  /\ size' = s
  /\ UNCHANGED <<ledger, order, token, result, pc, twice, start, kept, base, rolled>>

Next ==
  \/ \E spent \in SUBSET Unspent, made \in SUBSET Output : Commit(spent, made)
  \/ \E t \in 1 .. tip : Rollback(t)
  \/ Fetch
  \/ Break
  \/ \E s \in Size : Resize(s)

(* The database answers in the end.                                         *)
Spec == Init /\ [][Next]_vars /\ WF_vars(Fetch)

-----------------------------------------------------------------------------
(* No output is collected twice, whatever is spent, made or taken back      *)
(* while the walk runs: coin selection never counts the same lovelace       *)
(* twice.  In ascending order this needs a ledger without rollbacks, as a   *)
(* transaction included again moves ahead of the cursor (utils.ts 88-114).  *)
NoDuplicates == order = "desc" \/ ~rolled => twice = {}

(* A finished walk has every output that was unspent throughout: a page     *)
(* that ends in the middle of a transaction loses none of the others, and   *)
(* neither do spends or rollbacks around the cursor (utils.ts 103-114).     *)
Complete == pc = "done" => kept \subseteq result

(* In descending order, without a rollback, all outputs collected were      *)
(* unspent at one moment, when the first page was read: the walk never      *)
(* mixes an output with another that was made by spending it (the default   *)
(* order of utils.ts 88, 112).                                              *)
Simultaneous == order = "desc" /\ ~rolled => result \subseteq start

(* The walk is a listing of the address's outputs as its callers see one:   *)
(* whatever happens between its pages, a finished walk has every output     *)
(* that stayed unspent, and in descending order only outputs that were      *)
(* unspent when it began (getAllUtxos as used by the coin selections).      *)
Contract == INSTANCE OutputListing WITH
  unspent <- Unspent, snapshot <- start,
  answer <- IF pc = "done" THEN result ELSE {},
  state <- IF pc # "walking" THEN pc ELSE IF token = Start THEN "idle" ELSE "listing"

ImplementsListing == Contract!Spec

(* A walk in descending order ends, however many transactions come in.      *)
WalkEnds == order = "desc" => <>(pc # "walking")
=============================================================================
