--------------------------- MODULE CoinSelection ---------------------------
(***************************************************************************)
(* Utils.coinSelection (src/common/utils.ts): the choice of the unspent     *)
(* outputs that pay for a requested value, largest first, with one nested   *)
(* call that tops the change up to the ledger's minimum.                    *)
(*                                                                          *)
(* The function calls itself at most once, so its two activations are two   *)
(* frames, "main" and "topUp"; the frames share the list of outputs not yet *)
(* popped (`inputs`), as they share the array in the code.  One action is   *)
(* one turn of the while loop, one exception, or the code after the loop.   *)
(*                                                                          *)
(* The list is sorted by value and popped from its end.  Outputs of equal   *)
(* value come off in an order that depends on the caller's list, which the  *)
(* model leaves open: any largest output may be next.                       *)
(***************************************************************************)
EXTENDS Integers, FiniteSets, Functions

CONSTANTS
  Utxo,       \* identities of the outputs a caller may pass
  Asset,      \* units: policy id and asset name
  Output,     \* the outputs considered, see OutputType
  Request,    \* the requested values considered, see IsRequest
  Cap,        \* the values of maxInputCount considered
  MinUtxo     \* [SUBSET Asset -> Nat]: minimum lovelace of an output holding them

Frame == {"main", "topUp"}

(* `Value`: lovelace, and a quantity of each unit, 0 standing for no entry  *)
(* in the map.                                                              *)
Value == [coin : Nat, assets : [Asset -> Nat]]

(* An output of the ledger: `extra` is what a datum hash or a reference     *)
(* script adds to the minimum the output must hold.                         *)
OutputType == [coin : Nat, assets : [Asset -> Nat], extra : Nat]

(* A request lists some units only, and may list one with quantity 0.       *)
IsRequest(r) ==
  /\ r = [coin |-> r.coin, assets |-> r.assets]
  /\ r.coin \in Nat
  /\ DOMAIN r.assets \subseteq Asset
  /\ r.assets \in [DOMAIN r.assets -> Nat]

ASSUME UtxoAssumption == IsFiniteSet(Utxo)
ASSUME OutputAssumption == Output \subseteq OutputType
ASSUME RequestAssumption == \A r \in Request : IsRequest(r)
ASSUME CapAssumption == Cap \subseteq Int

(* The minimum is a price per byte of the serialised output: never zero,    *)
(* and cheaper for two bundles in one output than for one output each.      *)
ASSUME MinUtxoAssumption ==
  /\ MinUtxo \in [SUBSET Asset -> Nat \ {0}]
  /\ \A S, T \in SUBSET Asset : MinUtxo[S \cup T] <= MinUtxo[S] + MinUtxo[T]

NoAssets == [a \in Asset |-> 0]
Zero == [coin |-> 0, assets |-> NoAssets]
NoRequest == [coin |-> 0, assets |-> [a \in {} |-> 0]]

VARIABLES
  utxos,      \* the caller's list: what each output passed holds
  inputs,     \* the outputs not popped yet
  discarded,  \* history: the outputs the main loop popped and did not select
  request,    \* per frame: requestedValue
  cap,        \* [Frame -> Int]: maxInputCount
  check,      \* checkChangeMinUtxo of the main frame
  selection,  \* [Frame -> SUBSET Utxo]
  sum,        \* [Frame -> Value]: selectedValue
  change,     \* the main frame's change
  pc,         \* the frame whose loop runs, "tail" after them, then "done"
  outcome     \* "selected", or the exception the call ends with

vars == <<utxos, inputs, discarded, request, cap, check, selection, sum,
          change, pc, outcome>>

Exception == {"exhausted", "tooMany", "assetsLeftOver", "typeError"}

Given == DOMAIN utxos

(* Every variable has its type, and the working sets hold only outputs the  *)
(* caller passed.                                                           *)
TypeOK ==
  /\ Given \subseteq Utxo
  /\ utxos \in [Given -> Output]
  /\ inputs \subseteq Given
  /\ discarded \subseteq Given
  /\ DOMAIN request = Frame /\ \A f \in Frame : IsRequest(request[f])
  /\ cap \in [Frame -> Int]
  /\ check \in BOOLEAN
  /\ selection \in [Frame -> SUBSET Given]
  /\ sum \in [Frame -> Value]
  /\ change \in Value
  /\ pc \in {"main", "topUp", "tail", "done"}
  /\ outcome \in {"none", "selected"} \cup Exception

-----------------------------------------------------------------------------
(* The class Value.                                                         *)

AssetsIn(v) == {a \in Asset : v.assets[a] > 0}

Plus(v, w) == [coin   |-> v.coin + w.coin,
               assets |-> [a \in Asset |-> v.assets[a] + w.assets[a]]]

(* sub: the lovelace stops at 0, an entry that falls to 0 is deleted.       *)
Less(v, r) ==
  [coin   |-> IF v.coin >= r.coin THEN v.coin - r.coin ELSE 0,
   assets |-> [a \in Asset |->
                 IF a \notin DOMAIN r.assets THEN v.assets[a]
                 ELSE IF v.assets[a] > r.assets[a] THEN v.assets[a] - r.assets[a]
                 ELSE 0]]

CoinFulfilled(v, r) == v.coin >= r.coin

(* A unit that is not in the map compares as undefined, which is never at   *)
(* least a quantity, 0 included.                                            *)
AssetFulfilled(v, r) ==
  \A a \in DOMAIN r.assets : v.assets[a] > 0 /\ v.assets[a] >= r.assets[a]

Fulfilled(v, r) == CoinFulfilled(v, r) /\ AssetFulfilled(v, r)

ContainsAsset(v, r) == \E a \in DOMAIN r.assets : v.assets[a] > 0

-----------------------------------------------------------------------------

(* Mutant: only what is spendable is counted, the rest is not added back.    *)
TotalWithoutLocked(u) ==
  LET held == AssetsIn(utxos[u])
      locked == IF held = {} THEN 0 ELSE MinUtxo[held]
  IN  [coin |-> IF utxos[u].coin > locked THEN utxos[u].coin - locked ELSE 0,
       assets |-> utxos[u].assets]

Total(u) == [coin |-> utxos[u].coin, assets |-> utxos[u].assets]

(* getSpendable: what the output's own assets do not lock up.  It may be    *)
(* negative: an output made under older parameters can hold less than       *)
(* today's minimum.                                                         *)
Spendable(u) ==
  LET held == AssetsIn(utxos[u])
  IN  IF held = {} THEN utxos[u].coin
      ELSE utxos[u].coin - (MinUtxo[held] + utxos[u].extra)

IsAssetOnly(u) == Spendable(u) = 0 /\ AssetsIn(utxos[u]) # {}

(* Mutant: an output is dropped for its assets alone.                        *)
UselessByAssets(f, u) ==
  AssetFulfilled(sum[f], request[f]) \/ ~ContainsAsset(utxos[u], request[f])

(* The test that drops an output: it brings no asset and no lovelace that   *)
(* the frame still misses.                                                  *)
Useless(f, u) ==
  /\ AssetFulfilled(sum[f], request[f]) \/ ~ContainsAsset(utxos[u], request[f])
  /\ IsAssetOnly(u) \/ CoinFulfilled(sum[f], request[f])

MinChange(v) == MinUtxo[AssetsIn(v)]

IsDust(v) == 0 < v.coin /\ v.coin < MinChange(v)

(* Mutant: the change keeps its dust.                                       *)
KeepDust(v) == v

(* Change below the minimum is given up.                                    *)
DropDust(v) == IF IsDust(v) THEN [v EXCEPT !.coin = 0] ELSE v

AssetsLeftOver(v) == v.coin = 0 /\ AssetsIn(v) # {}

-----------------------------------------------------------------------------

Start(us, r, c, chk) ==
  /\ utxos \in [us -> Output]
  /\ inputs = us
  /\ discarded = {}
  /\ request = [f \in Frame |-> IF f = "main" THEN r ELSE NoRequest]
  /\ cap = [f \in Frame |-> IF f = "main" THEN c ELSE 0]
  /\ check = chk
  /\ selection = [f \in Frame |-> {}]
  /\ sum = [f \in Frame |-> Zero]
  /\ change = Zero
  /\ pc = "main"
  /\ outcome = "none"

Init == \E us \in SUBSET Utxo, r \in Request, c \in Cap, chk \in BOOLEAN :
          Start(us, r, c, chk)

(* The main frame's exception ends the call; the nested frame's is caught   *)
(* and the main frame goes on with the change it has.                       *)
Throw(f, e) ==
  IF f = "main" THEN pc' = "done" /\ outcome' = e
                ELSE pc' = "tail" /\ UNCHANGED outcome

InLoop(f) == pc = f /\ ~Fulfilled(sum[f], request[f])

(* The loop needs more and there is nothing left to pop.                    *)
Exhaust(f) ==
  /\ InLoop(f)
  /\ inputs = {}
  /\ Throw(f, "exhausted")
  /\ UNCHANGED <<utxos, inputs, discarded, request, cap, check, selection, sum, change>>

(* Mutant: the list is not sorted.                                          *)
Unsorted(u) == u \in inputs

Largest(u) == u \in inputs /\ \A w \in inputs : utxos[w].coin <= utxos[u].coin

(* Mutant: the loop goes on without popping the output it drops.            *)
SkipWithoutPop(f, u) ==
  InLoop(f) /\ Largest(u) /\ Useless(f, u) /\ UNCHANGED vars

(* The output popped is dropped, and is lost to the nested call too.        *)
Skip(f, u) ==
  /\ InLoop(f)
  /\ Largest(u)
  /\ Useless(f, u)
  /\ inputs' = inputs \ {u}
  /\ discarded' = IF f = "main" THEN discarded \cup {u} ELSE discarded
  /\ UNCHANGED <<utxos, request, cap, check, selection, sum, change, pc, outcome>>

(* The output popped is selected with all it holds.                         *)
Take(f, u) ==
  /\ InLoop(f)
  /\ Largest(u)
  /\ ~Useless(f, u)
  /\ inputs' = inputs \ {u}
  /\ selection' = [selection EXCEPT ![f] = @ \cup {u}]
  /\ sum' = [sum EXCEPT ![f] = Plus(@, Total(u))]
  /\ IF Cardinality(selection[f] \cup {u}) > cap[f]
       THEN Throw(f, "tooMany")
       ELSE UNCHANGED <<pc, outcome>>
  /\ UNCHANGED <<utxos, discarded, request, cap, check, change>>

(* Mutant: the goal forgets the assets the change already carries.          *)
TopUpRequestAdaOnly(rest) == [NoRequest EXCEPT !.coin =
  IF MinUtxo[{}] > rest.coin THEN MinUtxo[{}] - rest.coin ELSE 0]

(* What the nested call is asked for, and how many inputs it may add.       *)
TopUpRequest(rest) == [NoRequest EXCEPT !.coin = MinChange(rest) - rest.coin]

(* Mutant: the nested call gets the whole limit again.                      *)
TopUpCapWhole == cap["main"]

TopUpCap == cap["main"] - Cardinality(selection["main"])

(* After the main loop.  Nothing selected means selection[0] is undefined.  *)
Settle ==
  LET rest == Less(sum["main"], request["main"]) IN
  /\ pc = "main"
  /\ Fulfilled(sum["main"], request["main"])
  /\ change' = rest
  /\ \/ /\ selection["main"] = {}
        /\ Throw("main", "typeError")
        /\ UNCHANGED <<request, cap>>
     \/ /\ selection["main"] # {}
        /\ check /\ IsDust(rest)
        /\ request' = [request EXCEPT !["topUp"] = TopUpRequest(rest)]
        /\ cap' = [cap EXCEPT !["topUp"] = TopUpCap]
        /\ pc' = "topUp"
        /\ UNCHANGED outcome
     \/ /\ selection["main"] # {}
        /\ ~(check /\ IsDust(rest))
        /\ pc' = "tail"
        /\ UNCHANGED <<request, cap, outcome>>
  /\ UNCHANGED <<utxos, inputs, discarded, check, selection, sum>>

(* After the nested loop: its own change must be a valid output, or the     *)
(* call throws; otherwise what it selected joins the selection and change.  *)
SettleTopUp ==
  /\ pc = "topUp"
  /\ Fulfilled(sum["topUp"], request["topUp"])
  /\ IF AssetsLeftOver(DropDust(Less(sum["topUp"], request["topUp"])))
       THEN UNCHANGED <<selection, change>>
       ELSE /\ selection' = [selection EXCEPT !["main"] = @ \cup selection["topUp"]]
            /\ change' = Plus(change, sum["topUp"])
  /\ pc' = "tail"
  /\ UNCHANGED <<utxos, inputs, discarded, request, cap, check, sum, outcome>>

(* The end of the main frame: dust goes to the fee, leftover assets with no *)
(* lovelace to carry them are an error.                                     *)
Finish ==
  /\ pc = "tail"
  /\ change' = DropDust(change)
  /\ outcome' = IF AssetsLeftOver(DropDust(change)) THEN "assetsLeftOver" ELSE "selected"
  /\ pc' = "done"
  /\ UNCHANGED <<utxos, inputs, discarded, request, cap, check, selection, sum>>

Next ==
  \/ \E f \in Frame : Exhaust(f)
  \/ \E f \in Frame, u \in inputs : Skip(f, u) \/ Take(f, u)
  \/ Settle
  \/ SettleTopUp
  \/ Finish

(* The function is synchronous: once called it runs until it returns.       *)
Spec == Init /\ [][Next]_vars /\ WF_vars(Next)

-----------------------------------------------------------------------------
(* The sum of what a set of outputs holds, as the ledger will count it.     *)
Coins == [u \in Given |-> utxos[u].coin]
Units(a) == [u \in Given |-> utxos[u].assets[a]]

Worth(S) == [coin   |-> SumFunctionOnSet(Coins, S),
             assets |-> [a \in Asset |-> SumFunctionOnSet(Units(a), S)]]

Returned == selection["main"]

(* The change a call returns is either nothing or an output the ledger      *)
(* accepts: the min-UTxO rule holds for the assets it ends up with, those   *)
(* brought in by the top-up included (utils.ts 54-83).                      *)
ChangeAdmissible ==
  outcome = "selected" => change = Zero \/ change.coin >= MinChange(change)

(* What is selected is worth exactly the request plus the change.  Lovelace *)
(* may be missing only as dust below the minimum of an output without       *)
(* assets, with no change output at all; an asset is never lost (the        *)
(* accumulators of utils.ts 40-51 against the outputs themselves).          *)
ValueConserved ==
  outcome = "selected" =>
    LET burnt == Worth(Returned).coin - request["main"].coin - change.coin IN
    /\ burnt = 0 \/ (burnt \in 1 .. MinUtxo[{}] - 1 /\ change = Zero)
    /\ \A a \in Asset : Worth(Returned).assets[a] - change.assets[a] =
         IF a \in DOMAIN request["main"].assets THEN request["main"].assets[a] ELSE 0

(* A selection never has more inputs than the caller's limit, those of the  *)
(* top-up included (utils.ts 48-50, 64).                                    *)
WithinCap == outcome = "selected" => Cardinality(Returned) <= cap["main"]

(* A top-up that is accepted always reaches its goal: the change is a valid *)
(* output even when the top-up brought assets that raise its minimum, so    *)
(* adding outputs never turns a selection into a failure (utils.ts 59-75).  *)
TopUpPays ==
  pc = "tail" /\ selection["topUp"] # {} /\ selection["topUp"] \subseteq Returned
    => change.coin >= MinChange(change)

(* When the loop reports an insufficient balance, every output it did not   *)
(* select is of no help with something still missing: it holds none of a    *)
(* missing asset, or no lovelace beyond what its own assets lock up, when   *)
(* lovelace is missing (utils.ts 33-43).                                    *)
ExhaustionGenuine ==
  outcome = "exhausted" =>
    \/ \E a \in DOMAIN request["main"].assets :
         /\ sum["main"].assets[a] <= request["main"].assets[a]
         /\ \A u \in Given \ Returned : utxos[u].assets[a] = 0
    \/ /\ ~CoinFulfilled(sum["main"], request["main"])
       /\ \A u \in Given \ Returned : IsAssetOnly(u)

(* Every call returns or throws: each turn of either loop pops an output,   *)
(* and the nested call makes no call of its own.                            *)
Terminates == <>(pc = "done")

(* Nothing in the call holds or asks for assets.                            *)
Bare ==
  /\ \A u \in Given : AssetsIn(utxos[u]) = {}
  /\ DOMAIN request["main"].assets = {}

Plain == INSTANCE PlainSelection WITH Coin <- Coins, MinUtxo <- MinUtxo[{}]

(* A call without assets returns or throws what PlainSelection says, and    *)
(* throws only where that has no selection, top-up or not: whatever order   *)
(* equal outputs come in, and although a top-up that fails has emptied the  *)
(* list (utils.ts 31-86).                                                   *)
PlainSelects ==
  pc = "done" /\ Bare /\ cap["main"] >= 0 =>
    LET n == request["main"].coin
        answers == Plain!Selected(Given, n, cap["main"], check)
    IN  IF outcome = "selected"
          THEN Returned \in answers
          ELSE answers = {} /\ outcome = Plain!Thrown(Given, n, cap["main"])

(* The balance really is insufficient when a call that may top up its       *)
(* change says so: no choice of at most cap outputs covers the request and  *)
(* leaves change that is either without assets or a valid output (the       *)
(* message of utils.ts 35 and 83).                                          *)
Serves(S) ==
  /\ Fulfilled(Worth(S), request["main"])
  /\ LET rest == Less(Worth(S), request["main"])
     IN  AssetsIn(rest) = {} \/ rest.coin >= MinChange(rest)

InsufficientIsTrue ==
  check /\ outcome \in {"exhausted", "assetsLeftOver"} =>
    \A S \in SUBSET Given : Cardinality(S) <= cap["main"] => ~Serves(S)
=============================================================================
