------------------------ MODULE CoinSelectionProofs ------------------------
(***************************************************************************)
(* Proofs about CoinSelection, for any set of outputs, requests and limits. *)
(* Typing comes first; the inductive invariant then relates the working     *)
(* sets, the discarded outputs and the goal of the top-up.                  *)
(***************************************************************************)
EXTENDS CoinSelection, Sums, TLAPS

(* Adding two values gives a value.                                         *)
LEMMA PlusType == \A v, w \in Value : Plus(v, w) \in Value
BY DEF Plus, Value

(* Subtracting a request from a value gives a value.                        *)
LEMMA LessType ==
  ASSUME NEW v \in Value, NEW r, IsRequest(r)
  PROVE  Less(v, r) \in Value
<1>1. r.coin \in Nat /\ DOMAIN r.assets \subseteq Asset /\ r.assets \in [DOMAIN r.assets -> Nat]
  BY DEF IsRequest
<1>2. \A a \in Asset : (IF a \notin DOMAIN r.assets THEN v.assets[a]
                 ELSE IF v.assets[a] > r.assets[a] THEN v.assets[a] - r.assets[a]
                 ELSE 0) \in Nat
  BY <1>1 DEF Value
<1>3. (IF v.coin >= r.coin THEN v.coin - r.coin ELSE 0) \in Nat
  BY <1>1 DEF Value
<1> QED BY <1>2, <1>3 DEF Less, Value

(* The minimum of a change output is a positive number.                     *)
LEMMA MinChangeType == \A v : MinChange(v) \in Nat \ {0}
<1>1. \A v : AssetsIn(v) \in SUBSET Asset
  BY DEF AssetsIn
<1> QED BY <1>1, MinUtxoAssumption DEF MinChange

(* Giving up dust leaves a value.                                           *)
LEMMA DropDustType == \A v \in Value : DropDust(v) \in Value
BY DEF DropDust, Value

(* The request that asks for nothing is a request.                          *)
LEMMA NoRequestType == IsRequest(NoRequest)
BY DEF IsRequest, NoRequest

(* What the nested call is asked for is a request for lovelace alone.       *)
LEMMA TopUpRequestType ==
  ASSUME NEW v \in Value, IsDust(v)
  PROVE  /\ IsRequest(TopUpRequest(v))
         /\ TopUpRequest(v).coin + v.coin = MinChange(v)
         /\ DOMAIN TopUpRequest(v).assets = {}
<1>1. MinChange(v) - v.coin \in Nat
  BY MinChangeType DEF IsDust, Value
<1>2. TopUpRequest(v) = [coin |-> MinChange(v) - v.coin, assets |-> [a \in {} |-> 0]]
  BY DEF TopUpRequest, NoRequest
<1> QED BY <1>1, <1>2, MinChangeType DEF IsRequest, Value

(* The total of any outputs is a value.                                    *)
LEMMA TotalType ==
  ASSUME TypeOK, NEW u \in inputs
  PROVE  Total(u) \in Value
BY OutputAssumption DEF TypeOK, Total, Value, OutputType

(* Every call starts well typed.                                           *)
LEMMA InitType == Init => TypeOK
<1> SUFFICES ASSUME NEW us \in SUBSET Utxo, NEW r \in Request, NEW c \in Cap,
                    NEW chk \in BOOLEAN, Start(us, r, c, chk)
             PROVE  TypeOK
  BY DEF Init
<1>1. IsRequest(r) /\ IsRequest(NoRequest) /\ c \in Int
  BY RequestAssumption, CapAssumption, NoRequestType
<1>2. Zero \in Value
  BY DEF Zero, NoAssets, Value
<1> QED BY <1>1, <1>2 DEF Start, TypeOK, Given, Frame

(* Every step keeps the types.                                             *)
LEMMA NextType == TypeOK /\ [Next]_vars => TypeOK'
<1> SUFFICES ASSUME TypeOK, [Next]_vars PROVE TypeOK'
  OBVIOUS
<1> USE DEF TypeOK, Given
<1>1. ASSUME NEW f \in Frame, Exhaust(f) PROVE TypeOK'
  BY <1>1 DEF Exhaust, Throw, Exception, Frame
<1>2. ASSUME NEW f \in Frame, NEW u \in inputs, Skip(f, u) PROVE TypeOK'
  BY <1>2 DEF Skip
<1>3. ASSUME NEW f \in Frame, NEW u \in inputs, Take(f, u) PROVE TypeOK'
  <2>1. sum' \in [Frame -> Value]
    BY <1>3, TotalType, PlusType DEF Take
  <2>2. selection' \in [Frame -> SUBSET Given]
    BY <1>3 DEF Take
  <2> QED BY <1>3, <2>1, <2>2 DEF Take, Throw, Exception
<1>4. CASE Settle
  <2> DEFINE rest == Less(sum["main"], request["main"])
  <2>1. rest \in Value
    BY LessType DEF Frame
  <2>2. IsDust(rest) => IsRequest(TopUpRequest(rest))
    BY <2>1, TopUpRequestType
  <2>3. TopUpCap \in Int
    <3>1. IsFiniteSet(selection["main"])
      BY UtxoAssumption, FS_Subset DEF Frame
    <3> QED BY <3>1, FS_CardinalityType DEF TopUpCap, Frame
  <2>4. DOMAIN request' = Frame /\ \A f \in Frame : IsRequest(request'[f])
    BY <1>4, <2>2 DEF Settle, Frame
  <2>5. cap' \in [Frame -> Int]
    BY <1>4, <2>3 DEF Settle, Frame
  <2> HIDE DEF rest
  <2>6. change' \in Value
    BY <1>4, <2>1 DEF Settle, rest
  <2> QED BY <1>4, <2>4, <2>5, <2>6 DEF Settle, Throw, Exception
<1>5. CASE SettleTopUp
  <2>1. Plus(change, sum["topUp"]) \in Value
    BY PlusType DEF Frame
  <2>2. change' \in Value /\ selection' \in [Frame -> SUBSET Given]
    BY <1>5, <2>1 DEF SettleTopUp, Frame
  <2> QED BY <1>5, <2>2 DEF SettleTopUp
<1>6. CASE Finish
  BY <1>6, DropDustType DEF Finish, Exception
<1>7. CASE UNCHANGED vars
  BY <1>7 DEF vars
<1> QED BY <1>1, <1>2, <1>3, <1>4, <1>5, <1>6, <1>7 DEF Next

(* Every variable keeps its type in every call.                             *)
THEOREM TypeCorrect == Spec => []TypeOK
<1> QED BY InitType, NextType, PTL DEF Spec

-----------------------------------------------------------------------------
(* The inductive invariant.                                                 *)

(* The outputs a call works on are split between the list, the two          *)
(* selections and the outputs dropped; nothing else is lost in the main     *)
(* loop.                                                                    *)
Partition ==
  /\ inputs \cap selection["main"] = {}
  /\ inputs \cap selection["topUp"] = {}
  /\ pc = "main" => /\ selection["topUp"] = {}
                    /\ Given = inputs \cup discarded \cup selection["main"]
  /\ pc = "topUp" => selection["main"] \cap selection["topUp"] = {}

(* An output dropped by the main loop still brings nothing that is missing. *)
DroppedUseless ==
  pc = "main" => \A u \in discarded : Useless("main", u)

(* The nested call is asked for exactly what the change lacks.              *)
Goal ==
  pc = "topUp" =>
    /\ request["topUp"].coin + change.coin = MinChange(change)
    /\ DOMAIN request["topUp"].assets = {}

(* A frame that goes on has not passed its limit, and the two limits add up *)
(* to the caller's.                                                         *)
Limits ==
  /\ pc = "main" =>
       selection["main"] = {} \/ Cardinality(selection["main"]) <= cap["main"]
  /\ pc \in {"topUp", "tail"} => Cardinality(selection["main"]) <= cap["main"]
  /\ pc = "topUp" =>
       /\ cap["topUp"] = cap["main"] - Cardinality(selection["main"])
       /\ selection["topUp"] = {} \/ Cardinality(selection["topUp"]) <= cap["topUp"]

Outcome ==
  /\ outcome = "none" <=> pc # "done"
  /\ ChangeAdmissible
  /\ WithinCap
  /\ TopUpPays
  /\ ExhaustionGenuine

IInv == TypeOK /\ Partition /\ DroppedUseless /\ Goal /\ Limits /\ Outcome

(* What a call has selected is a finite set.                               *)
LEMMA SelectionFinite ==
  ASSUME TypeOK, NEW f \in Frame
  PROVE  /\ IsFiniteSet(selection[f])
         /\ Cardinality(selection[f]) \in Nat
<1>1. selection[f] \in SUBSET Utxo
  BY DEF TypeOK
<1> QED BY <1>1, UtxoAssumption, FS_Subset, FS_CardinalityType

(* A call starts with no input.                                            *)
LEMMA NothingSelected == Cardinality({}) = 0
BY FS_EmptySet

(* What fulfils a request still does when a value is added, so an output    *)
(* that was useless stays useless.                                          *)
LEMMA FulfilledMonotone ==
  ASSUME NEW v \in Value, NEW w \in Value, NEW r, IsRequest(r)
  PROVE  /\ CoinFulfilled(v, r) => CoinFulfilled(Plus(v, w), r)
         /\ AssetFulfilled(v, r) => AssetFulfilled(Plus(v, w), r)
<1> USE DEF IsRequest, Value, Plus
<1>1. CoinFulfilled(v, r) => CoinFulfilled(Plus(v, w), r)
  BY DEF CoinFulfilled
<1>2. AssetFulfilled(v, r) => AssetFulfilled(Plus(v, w), r)
  <2> SUFFICES ASSUME NEW a \in DOMAIN r.assets, v.assets[a] > 0,
                      v.assets[a] >= r.assets[a]
               PROVE  /\ Plus(v, w).assets[a] > 0
                      /\ Plus(v, w).assets[a] >= r.assets[a]
    BY DEF AssetFulfilled
  <2>1. a \in Asset /\ v.assets[a] \in Nat /\ w.assets[a] \in Nat /\ r.assets[a] \in Nat
    OBVIOUS
  <2>2. Plus(v, w).assets[a] = v.assets[a] + w.assets[a]
    BY <2>1
  <2> QED BY <2>1, <2>2
<1> QED BY <1>1, <1>2

(* Change that is given a valid output's worth on top of its own minimum is *)
(* a valid output, whatever assets come with it.                            *)
LEMMA ToppedUpChangeIsValid ==
  ASSUME NEW v \in Value, NEW w \in Value, NEW r, IsRequest(r),
         DOMAIN r.assets = {}, r.coin + v.coin = MinChange(v), Fulfilled(w, r),
         ~AssetsLeftOver(DropDust(Less(w, r)))
  PROVE  Plus(v, w).coin >= MinChange(Plus(v, w))
<1> DEFINE rest == Less(w, r)
<1>1. rest.coin = w.coin - r.coin /\ w.coin >= r.coin /\ r.coin \in Nat
  BY DEF Less, Fulfilled, CoinFulfilled, IsRequest, Value
<1>2. AssetsIn(rest) = AssetsIn(w)
  <2>1. rest.assets = [a \in Asset |-> w.assets[a]]
    BY DEF Less
  <2> QED BY <2>1 DEF AssetsIn
<1>3. AssetsIn(Plus(v, w)) = AssetsIn(v) \cup AssetsIn(w)
  BY DEF AssetsIn, Plus, Value
<1>4. MinChange(Plus(v, w)) <= MinChange(v) + MinChange(w)
  <2>1. AssetsIn(v) \in SUBSET Asset /\ AssetsIn(w) \in SUBSET Asset
    BY DEF AssetsIn
  <2> QED BY <1>3, <2>1, MinUtxoAssumption DEF MinChange
<1>5. Plus(v, w).coin = MinChange(v) + rest.coin
  BY <1>1, MinChangeType DEF Plus, Value
<1>6. CASE AssetsIn(w) = {}
  <2>1. MinChange(Plus(v, w)) = MinChange(v)
    BY <1>3, <1>6 DEF MinChange
  <2> QED BY <1>1, <1>5, <2>1, MinChangeType DEF Value
<1>7. CASE AssetsIn(w) # {}
  <2>1. AssetsIn(DropDust(rest)) = AssetsIn(w)
    BY <1>2 DEF DropDust, AssetsIn, Less
  <2>2. DropDust(rest).coin # 0
    BY <1>7, <2>1 DEF AssetsLeftOver
  <2>3. MinChange(rest) = MinChange(w)
    BY <1>2 DEF MinChange
  <2>4. rest.coin >= MinChange(w)
    <3> rest.coin \in Nat /\ MinChange(rest) \in Nat
      BY <1>1, MinChangeType DEF Value
    <3>1. CASE IsDust(rest)
      <4>1. rest \in Value
        BY LessType
      <4>2. DropDust(rest).coin = 0
        BY <3>1, <4>1 DEF DropDust, Value
      <4> QED BY <4>2, <2>2
    <3>2. CASE ~IsDust(rest)
      <4>1. DropDust(rest) = rest
        BY <3>2 DEF DropDust
      <4> HIDE DEF rest
      <4> QED BY <3>2, <4>1, <2>2, <2>3 DEF IsDust
    <3> QED BY <3>1, <3>2
  <2> HIDE DEF rest
  <2> QED BY <1>4, <1>5, <2>4, <1>1, MinChangeType DEF Value
<1> QED BY <1>6, <1>7

(* What Finish leaves, when it is not an error, is nothing or an output     *)
(* that meets its minimum.                                                  *)
LEMMA DroppedDustIsValid ==
  ASSUME NEW v \in Value, ~AssetsLeftOver(DropDust(v))
  PROVE  DropDust(v) = Zero \/ DropDust(v).coin >= MinChange(DropDust(v))
<1> DEFINE d == DropDust(v)
<1>1. d \in Value
  BY DropDustType
<1>2. CASE d.coin = 0
  <2>1. AssetsIn(d) = {}
    BY <1>2 DEF AssetsLeftOver
  <2>2. \A a \in Asset : d.assets[a] = 0
    BY <1>1, <2>1 DEF AssetsIn, Value
  <2>3. d.assets = NoAssets
    <3> HIDE DEF d
    <3> QED BY <1>1, <2>2 DEF NoAssets, Value
  <2>4. d = Zero
    <3> HIDE DEF d
    <3> QED BY <1>1, <1>2, <2>3 DEF Zero, Value
  <2> QED BY <2>4
<1>3. CASE d.coin # 0
  <2>1. ~IsDust(v)
    BY <1>3 DEF DropDust, Value
  <2>2. d = v
    BY <2>1 DEF DropDust
  <2> QED BY <1>3, <2>1, <2>2, MinChangeType DEF IsDust, Value
<1> QED BY <1>2, <1>3

(* The invariant holds when a call starts.                                 *)
LEMMA InitInv == Init => IInv
<1> SUFFICES ASSUME Init PROVE IInv
  OBVIOUS
<1>1. TypeOK
  BY InitType
<1>2. pc = "main" /\ outcome = "none" /\ discarded = {} /\ inputs = Given
      /\ selection = [f \in Frame |-> {}]
  BY DEF Init, Start, Given
<1> QED BY <1>1, <1>2 DEF IInv, Partition, DroppedUseless, Goal, Limits, Outcome,
     ChangeAdmissible, WithinCap, TopUpPays, ExhaustionGenuine, Frame

(* The main loop gives up: nothing outside the selection would have helped. *)
LEMMA ExhaustMainGenuine ==
  ASSUME IInv, Exhaust("main")
  PROVE  ExhaustionGenuine'
<1> USE DEF IInv, TypeOK, Frame
<1>1. pc = "main" /\ inputs = {} /\ ~Fulfilled(sum["main"], request["main"])
  BY DEF Exhaust, InLoop
<1>2. Given \ selection["main"] \subseteq discarded
  BY <1>1 DEF Partition
<1>3. \A u \in discarded : Useless("main", u)
  BY <1>1 DEF DroppedUseless
<1>4. UNCHANGED <<utxos, request, selection, sum>>
  BY DEF Exhaust
<1>5. CASE ~AssetFulfilled(sum["main"], request["main"])
  <2>1. PICK a \in DOMAIN request["main"].assets :
          ~(sum["main"].assets[a] > 0 /\ sum["main"].assets[a] >= request["main"].assets[a])
    BY <1>5 DEF AssetFulfilled
  <2>2. a \in Asset /\ sum["main"].assets[a] \in Nat /\ request["main"].assets[a] \in Nat
    BY DEF IsRequest, Value
  <2>3. sum["main"].assets[a] <= request["main"].assets[a]
    BY <2>1, <2>2
  <2>4. \A u \in Given \ selection["main"] : utxos[u].assets[a] = 0
    <3> SUFFICES ASSUME NEW u \in Given \ selection["main"] PROVE utxos[u].assets[a] = 0
      OBVIOUS
    <3>1. ~ContainsAsset(utxos[u], request["main"])
      BY <1>2, <1>3, <1>5 DEF Useless
    <3>2. ~(utxos[u].assets[a] > 0)
      BY <3>1 DEF ContainsAsset
    <3>3. utxos[u].assets[a] \in Nat
      BY <2>2, OutputAssumption DEF OutputType
    <3> QED BY <3>2, <3>3
  <2> QED BY <2>3, <2>4, <1>4 DEF ExhaustionGenuine, Returned, Given
<1>6. CASE ~CoinFulfilled(sum["main"], request["main"])
  <2>1. \A u \in Given \ selection["main"] : IsAssetOnly(u)
    BY <1>2, <1>3, <1>6 DEF Useless
  <2>2. \A u \in Given \ selection["main"] : IsAssetOnly(u)'
    BY <2>1, <1>4 DEF IsAssetOnly, Spendable, AssetsIn
  <2> QED BY <2>2, <1>6, <1>4 DEF ExhaustionGenuine, Returned, Given, CoinFulfilled
<1> QED BY <1>1, <1>5, <1>6 DEF Fulfilled

(* Every step keeps the invariant.                                         *)
LEMMA NextInv == IInv /\ [Next]_vars => IInv'
<1> SUFFICES ASSUME IInv, [Next]_vars PROVE IInv'
  OBVIOUS
<1>0. TypeOK /\ TypeOK'
  BY NextType DEF IInv
<1>1. CASE Exhaust("main")
  <2>1. ExhaustionGenuine'
    BY <1>1, ExhaustMainGenuine
  <2>2. pc' = "done" /\ outcome' = "exhausted"
    BY <1>1 DEF Exhaust, Throw
  <2> QED BY <1>0, <1>1, <2>1, <2>2 DEF IInv, Exhaust, Partition, DroppedUseless, Goal,
       Limits, Outcome, ChangeAdmissible, WithinCap, TopUpPays, Given
<1>2. CASE Exhaust("topUp")
  <2>1. pc = "topUp" /\ pc' = "tail"
    BY <1>2 DEF Exhaust, Throw, InLoop
  <2> QED BY <1>0, <1>2, <2>1 DEF IInv, Exhaust, Throw, Partition, DroppedUseless, Goal,
       Limits, Outcome, ChangeAdmissible, WithinCap, TopUpPays, ExhaustionGenuine, Returned
<1>3. ASSUME NEW f \in Frame, NEW u \in inputs, Skip(f, u) PROVE IInv'
  <2>1. pc = f /\ pc' = f /\ outcome' = outcome /\ outcome = "none"
    BY <1>3 DEF Skip, InLoop, IInv, Outcome, Frame
  <2>2. DroppedUseless'
    BY <1>3, <2>1 DEF IInv, Skip, DroppedUseless, Useless, AssetFulfilled, CoinFulfilled,
       ContainsAsset, IsAssetOnly, Spendable, AssetsIn
  <2>3. Partition'
    BY <1>0, <1>3, <2>1 DEF IInv, Skip, Partition, Given, TypeOK, Frame
  <2>4. Goal' /\ Limits'
    BY <1>3, <2>1 DEF IInv, Skip, Goal, Limits, MinChange, AssetsIn, Frame
  <2>5. Outcome'
    BY <1>3, <2>1 DEF Outcome, ChangeAdmissible, WithinCap, TopUpPays, ExhaustionGenuine, Frame
  <2> QED BY <1>0, <2>2, <2>3, <2>4, <2>5 DEF IInv
<1>4. ASSUME NEW u \in inputs, Take("main", u) PROVE IInv'
  <2>1. pc = "main" /\ outcome = "none"
    BY <1>4 DEF Take, InLoop, IInv, Outcome
  <2>2. \/ pc' = "done" /\ outcome' = "tooMany"
        \/ /\ pc' = "main" /\ outcome' = "none"
           /\ Cardinality(selection'["main"]) <= cap["main"]
    <3>1. Cardinality(selection["main"] \cup {u}) \in Nat /\ cap["main"] \in Int
      <4>1. IsFiniteSet(selection["main"] \cup {u})
        BY <1>0, SelectionFinite, FS_AddElement DEF Frame
      <4> QED BY <1>0, <4>1, FS_CardinalityType DEF TypeOK, Frame
    <3>2. selection'["main"] = selection["main"] \cup {u}
      BY <1>0, <1>4 DEF Take, TypeOK, Frame
    <3> QED BY <1>4, <2>1, <3>1, <3>2 DEF Take, Throw
  <2>3. DroppedUseless'
    <3> SUFFICES ASSUME pc' = "main", NEW w \in discarded PROVE Useless("main", w)'
      BY <1>4 DEF DroppedUseless, Take
    <3>1. Useless("main", w)
      BY <2>1 DEF IInv, DroppedUseless
    <3>2. sum'["main"] = Plus(sum["main"], Total(u)) /\ request' = request /\ utxos' = utxos
      BY <1>0, <1>4 DEF Take, TypeOK, Frame
    <3>3. Total(u) \in Value /\ sum["main"] \in Value /\ IsRequest(request["main"])
      BY <1>0, TotalType DEF TypeOK, Frame
    <3>4. /\ AssetFulfilled(sum["main"], request["main"])
               => AssetFulfilled(sum'["main"], request["main"])
          /\ CoinFulfilled(sum["main"], request["main"])
               => CoinFulfilled(sum'["main"], request["main"])
      BY <3>2, <3>3, FulfilledMonotone
    <3>5. IsAssetOnly(w) => IsAssetOnly(w)'
      BY <3>2 DEF IsAssetOnly, Spendable, AssetsIn
    <3>6. /\ ContainsAsset(utxos[w], request["main"])' = ContainsAsset(utxos[w], request["main"])
          /\ AssetFulfilled(sum["main"], request["main"])' = AssetFulfilled(sum'["main"], request["main"])
          /\ CoinFulfilled(sum["main"], request["main"])' = CoinFulfilled(sum'["main"], request["main"])
      BY <3>2 DEF ContainsAsset, AssetFulfilled, CoinFulfilled
    <3> QED BY <3>1, <3>4, <3>5, <3>6 DEF Useless
  <2>4. Partition'
    BY <1>0, <1>4, <2>1, <2>2 DEF IInv, Take, Partition, Given, TypeOK, Frame
  <2>5. Goal' /\ Limits'
    BY <1>4, <2>1, <2>2 DEF IInv, Take, Goal, Limits
  <2>6. Outcome'
    BY <1>4, <2>1, <2>2 DEF Outcome, ChangeAdmissible, WithinCap, TopUpPays, ExhaustionGenuine
  <2> QED BY <1>0, <2>3, <2>4, <2>5, <2>6 DEF IInv
<1>5. ASSUME NEW u \in inputs, Take("topUp", u) PROVE IInv'
  <2>1. pc = "topUp" /\ outcome = "none" /\ outcome' = "none"
    BY <1>5 DEF Take, InLoop, Throw, IInv, Outcome
  <2>2. \/ pc' = "tail"
        \/ pc' = "topUp" /\ Cardinality(selection'["topUp"]) <= cap["topUp"]
    <3> DEFINE card == Cardinality(selection["topUp"] \cup {u})
    <3>1. Cardinality(selection["topUp"] \cup {u}) \in Nat /\ cap["topUp"] \in Int
      <4>1. IsFiniteSet(selection["topUp"] \cup {u})
        BY <1>0, SelectionFinite, FS_AddElement DEF Frame
      <4> QED BY <1>0, <4>1, FS_CardinalityType DEF TypeOK, Frame
    <3>2. selection'["topUp"] = selection["topUp"] \cup {u}
      BY <1>0, <1>5 DEF Take, TypeOK, Frame
    <3>3. CASE card > cap["topUp"]
      BY <1>5, <3>3 DEF Take, Throw
    <3>4. CASE ~(card > cap["topUp"])
      <4>1. pc' = pc
        BY <1>5, <3>4 DEF Take
      <4>2. card <= cap["topUp"]
        BY <3>1, <3>4
      <4> QED BY <2>1, <3>2, <4>1, <4>2
    <3> QED BY <3>3, <3>4
  <2>3. /\ selection'["main"] = selection["main"] /\ u \notin selection["main"]
        /\ selection'["topUp"] = selection["topUp"] \cup {u}
        /\ inputs' = inputs \ {u}
    BY <1>0, <1>5 DEF Take, TypeOK, Frame, IInv, Partition
  <2>4. Partition' /\ DroppedUseless'
    BY <2>1, <2>2, <2>3 DEF IInv, Partition, DroppedUseless
  <2>5. Goal' /\ Limits'
    BY <1>5, <2>1, <2>2, <2>3 DEF IInv, Take, Goal, Limits, MinChange, AssetsIn
  <2>6. Outcome'
    BY <2>1, <2>2, <2>3 DEF IInv, Partition, Outcome, ChangeAdmissible, WithinCap, TopUpPays,
       ExhaustionGenuine, Returned
  <2> QED BY <1>0, <2>4, <2>5, <2>6 DEF IInv
<1>6. CASE Settle
  <2> DEFINE rest == Less(sum["main"], request["main"])
  <2>1. pc = "main" /\ outcome = "none" /\ selection["topUp"] = {}
    BY <1>6 DEF Settle, IInv, Outcome, Partition
  <2>2. rest \in Value
    BY <1>0, LessType DEF TypeOK, Frame
  <2>3. /\ UNCHANGED <<utxos, inputs, discarded, check, selection, sum>>
        /\ change' = rest
    BY <1>6 DEF Settle
  <2>4. CASE selection["main"] = {}
    <3>1. pc' = "done" /\ outcome' = "typeError"
      BY <1>6, <2>4 DEF Settle, Throw
    <3> QED BY <1>0, <2>1, <2>3, <3>1 DEF IInv, Partition, DroppedUseless, Goal, Limits,
         Outcome, ChangeAdmissible, WithinCap, TopUpPays, ExhaustionGenuine
  <2>5. CASE selection["main"] # {} /\ check /\ IsDust(rest)
    <3>1. /\ pc' = "topUp" /\ outcome' = "none"
          /\ request'["topUp"] = TopUpRequest(rest)
          /\ cap'["topUp"] = TopUpCap /\ cap'["main"] = cap["main"]
      BY <1>0, <1>6, <2>1, <2>5 DEF Settle, TypeOK, Frame
    <3>2. Goal'
      <4>1. MinChange(change)' = MinChange(rest)
        BY <2>3 DEF MinChange, AssetsIn
      <4> HIDE DEF rest
      <4> QED BY <2>2, <2>3, <2>5, <3>1, <4>1, TopUpRequestType DEF Goal
    <3> HIDE DEF rest
    <3>3. Limits'
      BY <2>1, <2>3, <2>5, <3>1 DEF IInv, Limits, TopUpCap
    <3> QED BY <1>0, <2>1, <2>3, <3>1, <3>2, <3>3 DEF IInv, Partition, DroppedUseless,
         Outcome, ChangeAdmissible, WithinCap, TopUpPays, ExhaustionGenuine
  <2>6. CASE selection["main"] # {} /\ ~(check /\ IsDust(rest))
    <3>1. pc' = "tail" /\ outcome' = "none" /\ cap' = cap
      BY <1>6, <2>1, <2>6 DEF Settle
    <3> HIDE DEF rest
    <3> QED BY <1>0, <2>1, <2>3, <2>6, <3>1 DEF IInv, Partition, DroppedUseless, Goal, Limits,
         Outcome, ChangeAdmissible, WithinCap, TopUpPays, ExhaustionGenuine
  <2> QED BY <2>4, <2>5, <2>6
<1>7. CASE SettleTopUp
  <2>1. /\ pc = "topUp" /\ pc' = "tail" /\ outcome = "none" /\ outcome' = "none"
        /\ UNCHANGED <<utxos, inputs, cap>>
        /\ selection["main"] \cap selection["topUp"] = {}
    BY <1>7 DEF SettleTopUp, IInv, Outcome, Partition
  <2>2. CASE AssetsLeftOver(DropDust(Less(sum["topUp"], request["topUp"])))
    <3>1. selection' = selection
      BY <1>7, <2>2 DEF SettleTopUp
    <3> QED BY <1>0, <2>1, <3>1 DEF IInv, Partition, DroppedUseless, Goal, Limits, Outcome,
         ChangeAdmissible, WithinCap, TopUpPays, ExhaustionGenuine, Returned
  <2>3. CASE ~AssetsLeftOver(DropDust(Less(sum["topUp"], request["topUp"])))
    <3>1. /\ selection'["main"] = selection["main"] \cup selection["topUp"]
          /\ selection'["topUp"] = selection["topUp"]
          /\ change' = Plus(change, sum["topUp"])
      BY <1>0, <1>7, <2>3 DEF SettleTopUp, TypeOK, Frame
    <3>2. change'.coin >= MinChange(change')
      <4>1. Fulfilled(sum["topUp"], request["topUp"])
        BY <1>7 DEF SettleTopUp
      <4>2. /\ change \in Value /\ sum["topUp"] \in Value /\ IsRequest(request["topUp"])
        BY <1>0 DEF TypeOK, Frame
      <4>3. /\ request["topUp"].coin + change.coin = MinChange(change)
            /\ DOMAIN request["topUp"].assets = {}
        BY <2>1 DEF IInv, Goal
      <4> QED BY <2>3, <3>1, <4>1, <4>2, <4>3, ToppedUpChangeIsValid
    <3>3. TopUpPays'
      BY <3>2 DEF TopUpPays, MinChange, AssetsIn
    <3>4. Cardinality(selection["main"] \cup selection["topUp"]) <= cap["main"]
      <4>1. /\ IsFiniteSet(selection["main"]) /\ IsFiniteSet(selection["topUp"])
            /\ Cardinality(selection["main"]) \in Nat
        BY <1>0, SelectionFinite DEF Frame
      <4>2. Cardinality(selection["main"] \cup selection["topUp"]) =
              Cardinality(selection["main"]) + Cardinality(selection["topUp"]) - Cardinality({})
        BY <2>1, <4>1, FS_Union
      <4>3. Cardinality({}) = 0
        BY NothingSelected
      <4>4. /\ cap["topUp"] = cap["main"] - Cardinality(selection["main"])
            /\ cap["main"] \in Int
            /\ Cardinality(selection["main"]) <= cap["main"]
            /\ selection["topUp"] = {} \/ Cardinality(selection["topUp"]) <= cap["topUp"]
        BY <1>0, <2>1 DEF IInv, Limits, TypeOK, Frame
      <4>5. Cardinality(selection["topUp"]) \in Nat
        BY <1>0, SelectionFinite DEF Frame
      <4>6. Cardinality(selection["topUp"]) <= cap["main"] - Cardinality(selection["main"])
        <5>1. CASE selection["topUp"] = {}
          <6>1. Cardinality(selection["topUp"]) = 0
            BY <4>3, <5>1
          <6> QED BY <4>1, <4>4, <6>1
        <5>2. CASE selection["topUp"] # {}
          BY <4>4, <5>2
        <5> QED BY <5>1, <5>2
      <4> DEFINE n == Cardinality(selection["main"])
                 m == Cardinality(selection["topUp"])
      <4>7. Cardinality(selection["main"] \cup selection["topUp"]) = n + m
        BY <4>1, <4>2, <4>3, <4>5
      <4> QED BY <4>1, <4>4, <4>5, <4>6, <4>7
    <3> QED BY <1>0, <2>1, <3>1, <3>3, <3>4 DEF IInv, Partition, DroppedUseless, Goal, Limits,
         Outcome, ChangeAdmissible, WithinCap, ExhaustionGenuine
  <2> QED BY <2>2, <2>3
<1>8. CASE Finish
  <2>1. /\ pc = "tail" /\ pc' = "done" /\ change' = DropDust(change)
        /\ outcome' \in {"assetsLeftOver", "selected"}
        /\ UNCHANGED <<selection, cap, inputs>>
    BY <1>8 DEF Finish
  <2>2. outcome' = "selected" => ~AssetsLeftOver(DropDust(change))
    BY <1>8 DEF Finish
  <2>3. ChangeAdmissible'
    <3>1. change \in Value
      BY <1>0 DEF TypeOK
    <3> QED BY <2>1, <2>2, <3>1, DroppedDustIsValid DEF ChangeAdmissible, MinChange, AssetsIn
  <2> QED BY <1>0, <2>1, <2>3 DEF IInv, Partition, DroppedUseless, Goal, Limits, Outcome,
       WithinCap, TopUpPays, ExhaustionGenuine, Returned
<1>9. CASE UNCHANGED vars
  <2>1. Partition' /\ Limits'
    BY <1>9 DEF vars, IInv, Partition, Limits, Given
  <2>2. DroppedUseless'
    BY <1>9 DEF vars, IInv, DroppedUseless, Useless, AssetFulfilled, CoinFulfilled,
       ContainsAsset, IsAssetOnly, Spendable, AssetsIn
  <2>3. Goal'
    BY <1>9 DEF vars, IInv, Goal, MinChange, AssetsIn
  <2>4. ChangeAdmissible' /\ TopUpPays' /\ WithinCap'
    BY <1>9 DEF vars, IInv, Outcome, ChangeAdmissible, TopUpPays, WithinCap, MinChange,
       AssetsIn, Returned
  <2>5. ExhaustionGenuine'
    BY <1>9 DEF vars, IInv, Outcome, ExhaustionGenuine, Returned, Given, CoinFulfilled,
       IsAssetOnly, Spendable, AssetsIn
  <2>6. outcome' = "none" <=> pc' # "done"
    BY <1>9 DEF vars, IInv, Outcome
  <2> QED BY <1>0, <2>1, <2>2, <2>3, <2>4, <2>5, <2>6 DEF IInv, Outcome
<1> QED BY <1>1, <1>2, <1>3, <1>4, <1>5, <1>6, <1>7, <1>8, <1>9 DEF Next, Frame

(* The invariant holds throughout every call.                              *)
THEOREM Invariant == Spec => []IInv
<1> QED BY InitInv, NextInv, PTL DEF Spec

(* The change a successful call returns is nothing or a valid output, for   *)
(* every list of outputs, request and price model (utils.ts 54-85).         *)
THEOREM ReturnedChangeIsAdmissible == Spec => []ChangeAdmissible
<1>1. IInv => ChangeAdmissible
  BY DEF IInv, Outcome
<1> QED BY <1>1, Invariant, PTL

(* The limit on inputs binds the selection and its top-up together.         *)
THEOREM SelectionWithinCap == Spec => []WithinCap
<1>1. IInv => WithinCap
  BY DEF IInv, Outcome
<1> QED BY <1>1, Invariant, PTL

(* An accepted top-up leaves a valid change output: this is where the price *)
(* model's subadditivity and the nested call's own check are needed.        *)
THEOREM TopUpReachesItsGoal == Spec => []TopUpPays
<1>1. IInv => TopUpPays
  BY DEF IInv, Outcome
<1> QED BY <1>1, Invariant, PTL

(* An output left out of an exhausted selection had nothing to bring.       *)
THEOREM ExhaustionIsGenuine == Spec => []ExhaustionGenuine
<1>1. IInv => ExhaustionGenuine
  BY DEF IInv, Outcome
<1> QED BY <1>1, Invariant, PTL

-----------------------------------------------------------------------------
(* The value selected.                                                      *)

(* While the loops run, each frame's accumulator is what its selection is   *)
(* worth.                                                                   *)
Accumulated ==
  pc \in {"main", "topUp"} => \A f \in Frame : sum[f] = Worth(selection[f])

(* From the end of the main loop, the selection is worth the request and    *)
(* the change.                                                              *)
Asked(a) == IF a \in DOMAIN request["main"].assets THEN request["main"].assets[a] ELSE 0

Balanced ==
  /\ Worth(Returned).coin = request["main"].coin + change.coin
  /\ \A a \in Asset : Worth(Returned).assets[a] = Asked(a) + change.assets[a]

Ledger == pc \in {"topUp", "tail"} => Balanced

ValueInv == Accumulated /\ Ledger /\ ValueConserved

(* What outputs of the list are worth together is a value.                  *)
LEMMA WorthType ==
  ASSUME TypeOK, NEW S \in SUBSET Given
  PROVE  Worth(S) \in Value
<1>1. IsFiniteSet(S)
  BY UtxoAssumption, FS_Subset DEF TypeOK
<1>2. \A u \in S : Coins[u] \in Nat
  BY OutputAssumption DEF Coins, TypeOK, OutputType
<1>3. ASSUME NEW a \in Asset PROVE SumFunctionOnSet(Units(a), S) \in Nat
  <2>1. \A u \in S : Units(a)[u] \in Nat
    BY OutputAssumption DEF Units, TypeOK, OutputType
  <2> QED BY <1>1, <2>1, SumNat
<1>4. SumFunctionOnSet(Coins, S) \in Nat
  BY <1>1, <1>2, SumNat
<1> QED BY <1>3, <1>4 DEF Worth, Value

(* Selections with nothing in common are worth their values together.       *)
LEMMA WorthUnion ==
  ASSUME TypeOK, NEW S \in SUBSET Given, NEW T \in SUBSET Given, S \cap T = {}
  PROVE  Worth(S \cup T) = Plus(Worth(S), Worth(T))
<1>1. IsFiniteSet(S) /\ IsFiniteSet(T)
  BY UtxoAssumption, FS_Subset DEF TypeOK
<1>2. SumFunctionOnSet(Coins, S \cup T) = SumFunctionOnSet(Coins, S) + SumFunctionOnSet(Coins, T)
  <2>1. \A u \in S \cup T : Coins[u] \in Int
    BY OutputAssumption DEF Coins, TypeOK, OutputType
  <2> QED BY <1>1, <2>1, SumDisjoint
<1>3. ASSUME NEW a \in Asset
      PROVE  SumFunctionOnSet(Units(a), S \cup T) =
               SumFunctionOnSet(Units(a), S) + SumFunctionOnSet(Units(a), T)
  <2>1. \A u \in S \cup T : Units(a)[u] \in Int
    BY OutputAssumption DEF Units, TypeOK, OutputType
  <2> QED BY <1>1, <2>1, SumDisjoint
<1> QED BY <1>2, <1>3 DEF Worth, Plus

(* One output is worth what it holds, and no output nothing.                *)
LEMMA WorthOne ==
  ASSUME TypeOK, NEW u \in Given
  PROVE  Worth({u}) = Total(u)
<1>1. ASSUME NEW f, f[u] \in Int PROVE SumFunctionOnSet(f, {u}) = f[u]
  <2>1. SumFunctionOnSet(f, {} \cup {u}) = f[u] + SumFunctionOnSet(f, {})
    <3>1. IsFiniteSet({})
      BY FS_EmptySet
    <3> QED BY <3>1, <1>1, SumAdd
  <2>2. SumFunctionOnSet(f, {}) = 0 /\ {} \cup {u} = {u}
    BY SumEmpty
  <2> QED BY <1>1, <2>1, <2>2
<1>2. SumFunctionOnSet(Coins, {u}) = utxos[u].coin
  <2>1. Coins[u] = utxos[u].coin /\ utxos[u].coin \in Nat
    BY OutputAssumption DEF Coins, TypeOK, OutputType
  <2> QED BY <1>1, <2>1
<1>3. ASSUME NEW a \in Asset PROVE SumFunctionOnSet(Units(a), {u}) = utxos[u].assets[a]
  <2>1. Units(a)[u] = utxos[u].assets[a] /\ utxos[u].assets[a] \in Nat
    BY OutputAssumption DEF Units, TypeOK, OutputType
  <2> QED BY <1>1, <2>1
<1>4. utxos[u].assets = [a \in Asset |-> utxos[u].assets[a]]
  BY OutputAssumption DEF TypeOK, OutputType
<1> QED BY <1>2, <1>3, <1>4 DEF Worth, Total

(* No output is worth nothing.                                              *)
LEMMA WorthNothing == Worth({}) = Zero
BY SumEmpty DEF Worth, Zero, NoAssets

(* What a fulfilled request leaves over adds up with it to the whole.       *)
LEMMA LessBalances ==
  ASSUME NEW v \in Value, NEW r, IsRequest(r), Fulfilled(v, r)
  PROVE  /\ v.coin = r.coin + Less(v, r).coin
         /\ \A a \in Asset : v.assets[a] =
              (IF a \in DOMAIN r.assets THEN r.assets[a] ELSE 0) + Less(v, r).assets[a]
<1> USE DEF IsRequest, Value, Fulfilled
<1>1. v.coin = r.coin + Less(v, r).coin
  BY DEF Less, CoinFulfilled
<1>2. ASSUME NEW a \in Asset
      PROVE  v.assets[a] = (IF a \in DOMAIN r.assets THEN r.assets[a] ELSE 0)
                             + Less(v, r).assets[a]
  <2>1. v.assets[a] \in Nat
    OBVIOUS
  <2>2. CASE a \notin DOMAIN r.assets
    <3>1. Less(v, r).assets[a] = v.assets[a]
      BY <2>2 DEF Less
    <3> QED BY <2>1, <2>2, <3>1
  <2>3. CASE a \in DOMAIN r.assets
    <3>1. r.assets[a] \in Nat /\ v.assets[a] >= r.assets[a]
      BY <2>3 DEF AssetFulfilled
    <3>2. Less(v, r).assets[a] = IF v.assets[a] > r.assets[a] THEN v.assets[a] - r.assets[a] ELSE 0
      BY <2>3 DEF Less
    <3> QED BY <2>1, <2>3, <3>1, <3>2
  <2> QED BY <2>2, <2>3
<1> QED BY <1>1, <1>2

(* A call starts with nothing selected and nothing counted.                 *)
LEMMA InitValue == Init => ValueInv
<1> SUFFICES ASSUME NEW us \in SUBSET Utxo, NEW r \in Request, NEW c \in Cap,
                    NEW chk \in BOOLEAN, Start(us, r, c, chk)
             PROVE  ValueInv
  BY DEF Init
<1> QED BY WorthNothing DEF Start, ValueInv, Accumulated, Ledger, ValueConserved

(* An output is selected: its frame's accumulator grows by what it holds.   *)
LEMMA TakeAccumulates ==
  ASSUME IInv, ValueInv, NEW f \in Frame, NEW u \in inputs, Take(f, u)
  PROVE  ValueInv'
<1> USE DEF IInv, ValueInv, Frame
<1>1. /\ pc = f /\ u \in Given /\ u \notin selection[f]
      /\ selection[f] \in SUBSET Given /\ {u} \in SUBSET Given
      /\ UNCHANGED <<utxos, request, change>>
  BY DEF Take, InLoop, Partition, TypeOK
<1>2. /\ selection' = [selection EXCEPT ![f] = @ \cup {u}]
      /\ sum' = [sum EXCEPT ![f] = Plus(@, Total(u))]
  BY DEF Take
<1>3. \A S : Worth(S)' = Worth(S)
  BY <1>1 DEF Worth, Coins, Units, Given
<1>4. Worth(selection[f] \cup {u}) = Plus(Worth(selection[f]), Total(u))
  <2>1. Worth(selection[f] \cup {u}) = Plus(Worth(selection[f]), Worth({u}))
    BY <1>1, WorthUnion
  <2> QED BY <1>1, <2>1, WorthOne
<1>5. Accumulated'
  <2> SUFFICES ASSUME NEW g \in Frame PROVE sum'[g] = Worth(selection[g])'
    BY DEF Accumulated
  <2>1. sum[g] = Worth(selection[g]) /\ sum[f] = Worth(selection[f])
    BY <1>1 DEF Accumulated
  <2>2. CASE g = f
    <3>1. sum'[g] = Plus(sum[f], Total(u)) /\ selection'[g] = selection[f] \cup {u}
      BY <1>2, <2>2 DEF TypeOK
    <3> QED BY <1>3, <1>4, <2>1, <3>1
  <2>3. CASE g # f
    <3>1. sum'[g] = sum[g] /\ selection'[g] = selection[g]
      BY <1>2, <2>3 DEF TypeOK
    <3> QED BY <1>3, <2>1, <3>1
  <2> QED BY <2>2, <2>3
<1>6. Ledger'
  <2>1. CASE f = "main"
    <3>1. pc' \notin {"topUp", "tail"}
      BY <1>1, <2>1 DEF Take, Throw
    <3> QED BY <3>1 DEF Ledger
  <2>2. CASE f = "topUp"
    <3>1. Balanced /\ selection'["main"] = selection["main"]
      BY <1>1, <1>2, <2>2 DEF Ledger, TypeOK
    <3> QED BY <1>1, <1>3, <3>1 DEF Ledger, Balanced, Returned, Asked
  <2> QED BY <2>1, <2>2
<1>7. outcome' # "selected"
  BY <1>1 DEF Take, Throw, Outcome
<1> QED BY <1>5, <1>6, <1>7 DEF ValueConserved

(* The main loop is done: what it selected is the request and the change.   *)
LEMMA SettleBalances ==
  ASSUME IInv, ValueInv, Settle
  PROVE  ValueInv'
<1> USE DEF IInv, ValueInv, Frame
<1> DEFINE rest == Less(sum["main"], request["main"])
<1>1. /\ pc = "main" /\ Fulfilled(sum["main"], request["main"]) /\ change' = rest
      /\ UNCHANGED <<utxos, selection, sum>>
  BY DEF Settle
<1>2. request'["main"] = request["main"]
  BY DEF Settle, TypeOK
<1>3. \A S : Worth(S)' = Worth(S)
  BY <1>1 DEF Worth, Coins, Units, Given
<1>4. sum["main"] = Worth(selection["main"])
  BY <1>1 DEF Accumulated
<1>5. Balanced'
  <2>1. /\ sum["main"].coin = request["main"].coin + rest.coin
        /\ \A a \in Asset : sum["main"].assets[a] = Asked(a) + rest.assets[a]
    <3>1. sum["main"] \in Value /\ IsRequest(request["main"])
      BY DEF TypeOK
    <3> QED BY <1>1, <3>1, LessBalances DEF Asked
  <2>2. \A a : Asked(a)' = Asked(a)
    BY <1>2 DEF Asked
  <2>3. Worth(Returned)' = sum["main"]
    BY <1>1, <1>3, <1>4 DEF Returned
  <2> HIDE DEF rest
  <2> QED BY <1>1, <1>2, <2>1, <2>2, <2>3 DEF Balanced
<1>6. Accumulated'
  BY <1>1, <1>3 DEF Accumulated
<1>7. outcome' # "selected"
  BY <1>1 DEF Settle, Throw, Outcome
<1> QED BY <1>5, <1>6, <1>7 DEF Ledger, ValueConserved

(* The top-up joins selection and change by the same value, or neither.     *)
LEMMA SettleTopUpBalances ==
  ASSUME IInv, ValueInv, SettleTopUp
  PROVE  ValueInv'
<1> USE DEF IInv, ValueInv, Frame
<1>1. /\ pc = "topUp" /\ pc' = "tail" /\ UNCHANGED <<utxos, request, outcome>>
  BY DEF SettleTopUp
<1>2. \A S : Worth(S)' = Worth(S)
  BY <1>1 DEF Worth, Coins, Units, Given
<1>3. Balanced /\ outcome # "selected"
  BY <1>1 DEF Ledger, Outcome
<1>4. Balanced'
  <2>1. CASE UNCHANGED <<selection, change>>
    BY <1>1, <1>2, <1>3, <2>1 DEF Balanced, Returned, Asked
  <2>2. CASE /\ selection' = [selection EXCEPT !["main"] = @ \cup selection["topUp"]]
             /\ change' = Plus(change, sum["topUp"])
    <3> DEFINE all == Worth(selection["main"] \cup selection["topUp"])
    <3>1. all = Plus(Worth(selection["main"]), sum["topUp"])
      <4>1. /\ selection["main"] \in SUBSET Given /\ selection["topUp"] \in SUBSET Given
            /\ selection["main"] \cap selection["topUp"] = {}
            /\ sum["topUp"] = Worth(selection["topUp"])
        BY <1>1 DEF TypeOK, Partition, Accumulated
      <4> QED BY <4>1, WorthUnion
    <3>2. Worth(Returned)' = all
      BY <1>2, <2>2 DEF Returned, TypeOK
    <3>3. /\ Worth(selection["main"]) \in Value /\ sum["topUp"] \in Value /\ change \in Value
          /\ IsRequest(request["main"])
      BY WorthType DEF TypeOK
    <3>4. all.coin = request["main"].coin + change'.coin
      <4>1. Worth(selection["main"]).coin = request["main"].coin + change.coin
        BY <1>3 DEF Balanced, Returned
      <4>2. all.coin = Worth(selection["main"]).coin + sum["topUp"].coin
        BY <3>1 DEF Plus
      <4>3. change'.coin = change.coin + sum["topUp"].coin
        BY <2>2 DEF Plus
      <4>4. /\ request["main"].coin \in Nat /\ change.coin \in Nat /\ sum["topUp"].coin \in Nat
        BY <3>3 DEF Value, IsRequest
      <4> QED BY <4>1, <4>2, <4>3, <4>4
    <3>5. ASSUME NEW a \in Asset PROVE all.assets[a] = Asked(a) + change'.assets[a]
      <4>1. Worth(selection["main"]).assets[a] = Asked(a) + change.assets[a]
        BY <1>3 DEF Balanced, Returned
      <4>2. all.assets[a] = Worth(selection["main"]).assets[a] + sum["topUp"].assets[a]
        BY <3>1 DEF Plus
      <4>3. change'.assets[a] = change.assets[a] + sum["topUp"].assets[a]
        BY <2>2 DEF Plus
      <4>4. Asked(a) \in Nat /\ change.assets[a] \in Nat /\ sum["topUp"].assets[a] \in Nat
        BY <3>3 DEF Value, IsRequest, Asked
      <4> QED BY <4>1, <4>2, <4>3, <4>4
    <3> HIDE DEF all
    <3> QED BY <1>1, <3>2, <3>4, <3>5 DEF Balanced, Asked
  <2> QED BY <2>1, <2>2 DEF SettleTopUp
<1> QED BY <1>1, <1>3, <1>4 DEF Accumulated, Ledger, ValueConserved

(* The end of the call: what is missing is dust the change gave up.         *)
LEMMA FinishConserves ==
  ASSUME IInv, ValueInv, Finish
  PROVE  ValueInv'
<1> USE DEF IInv, ValueInv, Frame
<1>1. /\ pc = "tail" /\ pc' = "done" /\ change' = DropDust(change)
      /\ UNCHANGED <<utxos, request, selection>>
  BY DEF Finish
<1>2. Worth(Returned)' = Worth(Returned) /\ Balanced
  BY <1>1 DEF Worth, Coins, Units, Given, Returned, Ledger
<1>3. change \in Value /\ IsRequest(request["main"]) /\ Worth(Returned) \in Value
  BY WorthType DEF TypeOK, Returned
<1>4. ASSUME outcome' = "selected"
      PROVE  LET burnt == Worth(Returned).coin - request["main"].coin - change'.coin IN
               /\ burnt = 0 \/ (burnt \in 1 .. MinUtxo[{}] - 1 /\ change' = Zero)
               /\ \A a \in Asset : Worth(Returned).assets[a] - change'.assets[a] = Asked(a)
  <2>1. ~AssetsLeftOver(DropDust(change))
    BY <1>4 DEF Finish
  <2>2. /\ Worth(Returned).coin = request["main"].coin + change.coin
        /\ request["main"].coin \in Nat /\ change.coin \in Nat
    BY <1>2, <1>3 DEF Balanced, Value, IsRequest
  <2>3. change'.assets = change.assets
    BY <1>1, <1>3 DEF DropDust, Value
  <2>4. ASSUME NEW a \in Asset PROVE Worth(Returned).assets[a] - change'.assets[a] = Asked(a)
    <3>1. Worth(Returned).assets[a] = Asked(a) + change.assets[a]
      BY <1>2 DEF Balanced
    <3>2. Asked(a) \in Nat /\ change.assets[a] \in Nat
      BY <1>3 DEF Asked, Value, IsRequest
    <3> QED BY <2>3, <3>1, <3>2
  <2>5. CASE ~IsDust(change)
    <3>1. change' = change
      BY <1>1, <2>5 DEF DropDust
    <3> QED BY <2>2, <2>4, <3>1
  <2>6. CASE IsDust(change)
    <3>1. change' = [change EXCEPT !.coin = 0]
      BY <1>1, <2>6 DEF DropDust
    <3>2. change'.coin = 0
      BY <1>3, <3>1 DEF Value
    <3>3. AssetsIn(change) = {}
      BY <1>1, <2>1, <2>3, <3>2 DEF AssetsLeftOver, AssetsIn
    <3>4. change' = Zero
      <4>1. \A a \in Asset : change.assets[a] = 0
        BY <1>3, <3>3 DEF AssetsIn, Value
      <4>2. change.assets = NoAssets
        BY <1>3, <4>1 DEF NoAssets, Value
      <4> QED BY <1>3, <3>1, <4>2 DEF Zero, Value
    <3>5. change.coin \in 1 .. MinUtxo[{}] - 1
      <4>1. MinUtxo[{}] \in Nat
        BY MinUtxoAssumption
      <4> QED BY <2>2, <2>6, <3>3, <4>1 DEF IsDust, MinChange
    <3> QED BY <2>2, <2>4, <3>2, <3>4, <3>5
  <2> QED BY <2>5, <2>6
<1>5. ValueConserved'
  BY <1>1, <1>2, <1>4 DEF ValueConserved, Asked
<1> QED BY <1>1, <1>5 DEF Accumulated, Ledger

(* Every step keeps the value selected accounted for.                       *)
LEMMA NextValue == IInv /\ ValueInv /\ [Next]_vars => ValueInv'
<1> SUFFICES ASSUME IInv, ValueInv, [Next]_vars PROVE ValueInv'
  OBVIOUS
<1> USE DEF IInv, ValueInv, Frame
<1>1. ASSUME UNCHANGED <<utxos, change, selection, sum>>,
             UNCHANGED request,
             (pc' = pc) \/ (pc = "topUp" /\ pc' = "tail") \/ (pc' = "done"),
             outcome' = outcome \/ outcome' # "selected"
      PROVE  ValueInv'
  <2>1. \A S : Worth(S)' = Worth(S)
    BY <1>1 DEF Worth, Coins, Units, Given
  <2>2. Accumulated' /\ Ledger'
    BY <1>1, <2>1 DEF Accumulated, Ledger, Balanced, Returned, Asked
  <2>3. ValueConserved'
    BY <1>1, <2>1 DEF ValueConserved, Returned
  <2> QED BY <2>2, <2>3
<1>2. ASSUME NEW f \in Frame, Exhaust(f) PROVE ValueInv'
  BY <1>1, <1>2 DEF Exhaust, Throw, InLoop
<1>3. ASSUME NEW f \in Frame, NEW u \in inputs, Skip(f, u) PROVE ValueInv'
  BY <1>1, <1>3 DEF Skip
<1>4. CASE UNCHANGED vars
  BY <1>1, <1>4 DEF vars
<1> QED BY <1>2, <1>3, <1>4, TakeAccumulates, SettleBalances, SettleTopUpBalances,
     FinishConserves DEF Next

(* No lovelace and no asset is lost or made up between the outputs a call   *)
(* selects, the request and the change, but for dust below the minimum of   *)
(* an output without assets (utils.ts 28-85).                               *)
THEOREM SelectionConservesValue == Spec => []ValueConserved
<1>1. Init => IInv /\ ValueInv
  BY InitInv, InitValue
<1>2. (IInv /\ ValueInv) /\ [Next]_vars => (IInv /\ ValueInv)'
  BY NextInv, NextValue
<1>3. IInv /\ ValueInv => ValueConserved
  BY DEF ValueInv
<1> QED BY <1>1, <1>2, <1>3, PTL DEF Spec

-----------------------------------------------------------------------------
(* Calls without assets: what the loops pop is what PlainSelection covers.  *)

Lovelace(S) == SumFunctionOnSet(Coins, S)

(* T are the largest outputs of S, and without the smallest of them there   *)
(* are less than n lovelace: what a loop that needs n has popped.           *)
Popped(T, S, n) ==
  /\ T \subseteq S
  /\ \A o \in T, p \in S \ T : Coins[o] >= Coins[p]
  /\ T = {} \/ \E o \in T : (\A p \in T : Coins[o] <= Coins[p]) /\ Lovelace(T \ {o}) < n

Wanted == request["main"].coin

(* What the nested call is asked for.                                       *)
Missing == MinUtxo[{}] - (Lovelace(selection["main"]) - Wanted)

Answers == Plain!Selected(Given, Wanted, cap["main"], check)

BareCall == Bare /\ cap["main"] >= 0

BareMain ==
  pc = "main" =>
    /\ Popped(selection["main"], Given, Wanted)
    /\ inputs = Given \ selection["main"]

BareTopUp ==
  pc = "topUp" =>
    /\ check /\ Plain!IsDust(Lovelace(selection["main"]) - Wanted)
    /\ selection["main"] \in Plain!Covers(Given, Wanted)
    /\ Popped(selection["topUp"], Given \ selection["main"], Missing)
    /\ inputs = (Given \ selection["main"]) \ selection["topUp"]

BareTail == pc = "tail" => Returned \in Answers

BareInv == (BareCall => BareMain /\ BareTopUp /\ BareTail) /\ PlainSelects

(* The instance counts lovelace as this module does, now and after a step.  *)
LEMMA PlainWorth ==
  /\ \A S : Plain!Worth(S) = Lovelace(S)
  /\ \A S : Plain!Worth(S)' = Lovelace(S)'
BY DEF Lovelace, Plain!Worth, Plain!SumFunctionOnSet, SumFunctionOnSet,
   Plain!FoldFunctionOnSet, FoldFunctionOnSet, Plain!MapThenFoldSet, MapThenFoldSet

(* The instance counts outputs as this module does.                         *)
LEMMA PlainCardinality == \A S : Plain!Cardinality(S) = Cardinality(S)
BY DEF Plain!Cardinality, Cardinality

(* What a call may answer depends only on the outputs and the request.      *)
LEMMA PlainUnchanged ==
  ASSUME UNCHANGED utxos
  PROVE  /\ \A S : Lovelace(S)' = Lovelace(S)
         /\ \A S, n : Plain!Covers(S, n)' = Plain!Covers(S, n)
         /\ \A S, n, c, k : Plain!Selected(S, n, c, k)' = Plain!Selected(S, n, c, k)
         /\ \A S, n, c : Plain!Thrown(S, n, c)' = Plain!Thrown(S, n, c)
         /\ \A T, S, n : Popped(T, S, n)' = Popped(T, S, n)
<1>1. Coins' = Coins
  BY DEF Coins, Given
<1>2. \A S : Lovelace(S)' = Lovelace(S)
  BY <1>1 DEF Lovelace
<1>3. \A S : Plain!Worth(S)' = Plain!Worth(S)
  BY <1>2, PlainWorth
<1>4. \A T, S, n : Plain!IsCover(T, S, n)' = Plain!IsCover(T, S, n)
  BY <1>1, <1>3 DEF Plain!IsCover
<1>5. \A S, n : Plain!Covers(S, n)' = Plain!Covers(S, n)
  BY <1>4 DEF Plain!Covers
<1>6. \A T, S, n, c : Plain!Topped(T, S, n, c)' = Plain!Topped(T, S, n, c)
  BY <1>3, <1>5 DEF Plain!Topped
<1>7. \A n : Plain!IsDust(n)' = Plain!IsDust(n)
  BY DEF Plain!IsDust
<1>8. \A S, n, c, k : Plain!Selected(S, n, c, k)' = Plain!Selected(S, n, c, k)
  BY <1>3, <1>5, <1>6, <1>7 DEF Plain!Selected
<1>9. \A S, n, c : Plain!Thrown(S, n, c)' = Plain!Thrown(S, n, c)
  BY <1>3 DEF Plain!Thrown
<1>10. \A T, S, n : Popped(T, S, n)' = Popped(T, S, n)
  BY <1>1, <1>2 DEF Popped
<1> QED BY <1>2, <1>5, <1>8, <1>9, <1>10

(* Outputs of the list are finitely many and hold lovelace.                 *)
LEMMA LovelaceType ==
  ASSUME TypeOK, NEW S \in SUBSET Given
  PROVE  /\ IsFiniteSet(S) /\ Cardinality(S) \in Nat
         /\ \A u \in S : Coins[u] \in Nat
         /\ Lovelace(S) \in Nat
<1>1. IsFiniteSet(S) /\ Cardinality(S) \in Nat
  BY UtxoAssumption, FS_Subset, FS_CardinalityType DEF TypeOK
<1>2. \A u \in S : Coins[u] \in Nat
  BY OutputAssumption DEF Coins, TypeOK, OutputType
<1> QED BY <1>1, <1>2, SumNat DEF Lovelace

(* The membership of a cover, in this module's terms.                       *)
LEMMA CoversMeans ==
  ASSUME NEW T, NEW S, NEW n
  PROVE  T \in Plain!Covers(S, n) <=>
           /\ T \subseteq S
           /\ \A o \in T, p \in S \ T : Coins[o] >= Coins[p]
           /\ Lovelace(T) >= n
           /\ \E o \in T : (\A p \in T : Coins[o] <= Coins[p]) /\ Lovelace(T \ {o}) < n
BY PlainWorth DEF Plain!Covers, Plain!IsCover

(* Taking the largest output that is left keeps to that order.              *)
LEMMA PopLargest ==
  ASSUME TypeOK, NEW S \in SUBSET Given, NEW T, NEW n, Popped(T, S, n),
         NEW u \in S \ T, \A w \in S \ T : Coins[w] <= Coins[u], Lovelace(T) < n
  PROVE  Popped(T \cup {u}, S, n)
<1>1. \A o \in S : Coins[o] \in Nat
  BY LovelaceType
<1>2. \A o \in T, p \in S \ T : o \in S /\ Coins[o] >= Coins[p]
  BY DEF Popped
<1>3. ASSUME NEW o \in T \cup {u}, NEW p \in S \ (T \cup {u}) PROVE Coins[o] >= Coins[p]
  BY <1>1, <1>2, <1>3
<1>4. \A p \in T \cup {u} : Coins[u] <= Coins[p]
  BY <1>1, <1>2
<1>5. (T \cup {u}) \ {u} = T
  OBVIOUS
<1>6. Lovelace((T \cup {u}) \ {u}) < n
  BY <1>5
<1> QED BY <1>2, <1>3, <1>4, <1>6 DEF Popped

(* No cover has fewer outputs than what the loop has popped.                *)
LEMMA CoversAreLarge ==
  ASSUME TypeOK, NEW S \in SUBSET Given, NEW T, NEW n \in Int, Popped(T, S, n), T # {},
         NEW U \in Plain!Covers(S, n)
  PROVE  Cardinality(T) <= Cardinality(U)
<1> SUFFICES ASSUME ~(Cardinality(T) <= Cardinality(U)) PROVE FALSE
  OBVIOUS
<1>1. PICK o \in T : (\A p \in T : Coins[o] <= Coins[p]) /\ Lovelace(T \ {o}) < n
  BY DEF Popped
<1>2. T \in SUBSET S /\ U \in SUBSET S /\ T \ {o} \in SUBSET S /\ Lovelace(U) >= n
  BY CoversMeans DEF Popped
<1>3. /\ IsFiniteSet(S) /\ \A x \in S : Coins[x] \in Nat
      /\ IsFiniteSet(T) /\ Cardinality(T) \in Nat /\ Cardinality(U) \in Nat
      /\ Lovelace(U) \in Nat /\ Lovelace(T \ {o}) \in Nat
  BY <1>2, LovelaceType
<1>4. Cardinality(T \ {o}) = Cardinality(T) - 1
  BY <1>3, FS_RemoveElement
<1>5. ASSUME NEW x \in T \ {o}, NEW y \in S \ (T \ {o}) PROVE Coins[x] >= Coins[y]
  <2>1. \A p \in S \ T : Coins[x] >= Coins[p]
    BY DEF Popped
  <2>2. Coins[o] <= Coins[x] /\ Coins[o] \in Nat /\ Coins[x] \in Nat
    BY <1>1, <1>2, <1>3
  <2> QED BY <2>1, <2>2
<1>6. Cardinality(U) <= Cardinality(T \ {o})
  BY <1>3, <1>4
<1>7. Lovelace(U) <= Lovelace(T \ {o})
  BY <1>2, <1>3, <1>5, <1>6, SumTop DEF Lovelace
<1> QED BY <1>1, <1>2, <1>3, <1>7

(* Outputs that are together worth too little have no cover.                *)
LEMMA NoCover ==
  ASSUME TypeOK, NEW S \in SUBSET Given, NEW n \in Int, Lovelace(S) < n
  PROVE  Plain!Covers(S, n) = {}
<1> SUFFICES ASSUME NEW U \in Plain!Covers(S, n) PROVE FALSE
  OBVIOUS
<1>1. U \in SUBSET S /\ Lovelace(U) >= n
  BY CoversMeans
<1>2. Lovelace(U) <= Lovelace(S)
  BY <1>1, LovelaceType, SumMonotone DEF Lovelace
<1>3. Lovelace(U) \in Nat /\ Lovelace(S) \in Nat
  BY <1>1, LovelaceType
<1> QED BY <1>1, <1>2, <1>3

(* What may be answered: a cover within the limit, topped up when it leaves *)
(* dust and another cover fits, and as it is when none fits.                *)
LEMMA SelectedPlain ==
  ASSUME NEW S, NEW n, NEW c, NEW k,
         NEW T \in Plain!Covers(S, n), Cardinality(T) <= c,
         ~(k /\ Plain!IsDust(Lovelace(T) - n))
  PROVE  T \in Plain!Selected(S, n, c, k)
BY PlainWorth, PlainCardinality DEF Plain!Selected

(* A cover that leaves dust, with a cover of what is missing.               *)
LEMMA SelectedTopped ==
  ASSUME NEW S, NEW n, NEW c, NEW k,
         NEW T \in Plain!Covers(S, n), Cardinality(T) <= c,
         k, Plain!IsDust(Lovelace(T) - n),
         NEW U \in Plain!Covers(S \ T, MinUtxo[{}] - (Lovelace(T) - n)),
         Cardinality(T \cup U) <= c
  PROVE  T \cup U \in Plain!Selected(S, n, c, k)
<1>1. T \cup U \in Plain!Topped(T, S, n, c)
  BY PlainWorth, PlainCardinality DEF Plain!Topped
<1> QED BY <1>1, PlainWorth, PlainCardinality DEF Plain!Selected

(* A cover that leaves dust, when no cover of what is missing fits.         *)
LEMMA SelectedUntopped ==
  ASSUME NEW S, NEW n, NEW c, NEW k,
         NEW T \in Plain!Covers(S, n), Cardinality(T) <= c,
         k, Plain!IsDust(Lovelace(T) - n),
         \A U \in Plain!Covers(S \ T, MinUtxo[{}] - (Lovelace(T) - n)) :
           ~(Cardinality(T \cup U) <= c)
  PROVE  T \in Plain!Selected(S, n, c, k)
<1>1. T \in Plain!Topped(T, S, n, c)
  BY PlainWorth, PlainCardinality DEF Plain!Topped
<1> QED BY <1>1, PlainWorth, PlainCardinality DEF Plain!Selected

(* There is no answer when no cover is within the limit.                    *)
LEMMA SelectedNone ==
  ASSUME NEW S, NEW n, NEW c, NEW k,
         \A T \in Plain!Covers(S, n) : ~(Cardinality(T) <= c)
  PROVE  Plain!Selected(S, n, c, k) = {}
BY PlainCardinality DEF Plain!Selected

(* In such a call no step brings assets in or drops an output, and the loop *)
(* runs as long as lovelace is missing.                                     *)
LEMMA BareLoop ==
  ASSUME IInv, ValueInv, BareCall, NEW f \in Frame, pc = f
  PROVE  /\ sum[f].coin = Lovelace(selection[f])
         /\ Fulfilled(sum[f], request[f]) <=> Lovelace(selection[f]) >= request[f].coin
         /\ \A u \in inputs : ~(InLoop(f) /\ Useless(f, u))
         /\ request["main"].coin = Wanted
         /\ Wanted \in Nat /\ request[f].coin \in Nat
<1> USE DEF IInv, Frame
<1>1. DOMAIN request[f].assets = {}
  BY DEF BareCall, Bare, Goal
<1>2. AssetFulfilled(sum[f], request[f])
  BY <1>1 DEF AssetFulfilled
<1>3. sum[f] = Worth(selection[f])
  BY DEF ValueInv, Accumulated
<1>4. sum[f].coin = Lovelace(selection[f])
  BY <1>3 DEF Worth, Lovelace
<1>5. Fulfilled(sum[f], request[f]) <=> Lovelace(selection[f]) >= request[f].coin
  BY <1>2, <1>4 DEF Fulfilled, CoinFulfilled
<1>6. ASSUME NEW u \in inputs, InLoop(f), Useless(f, u) PROVE FALSE
  <2>1. ~IsAssetOnly(u)
    BY DEF BareCall, Bare, IsAssetOnly, TypeOK
  <2> QED BY <1>2, <1>6, <2>1 DEF InLoop, Fulfilled, Useless
<1>7. \A g \in Frame : request[g].coin \in Nat
  BY DEF TypeOK, IsRequest
<1> QED BY <1>4, <1>5, <1>6, <1>7 DEF Wanted

(* The outputs of such a call hold no unit, together or alone.              *)
LEMMA BareUnits ==
  ASSUME IInv, BareCall, NEW S \in SUBSET Given, NEW a \in Asset
  PROVE  SumFunctionOnSet(Units(a), S) = 0
<1>1. TypeOK
  BY DEF IInv
<1>2. ASSUME NEW u \in S PROVE Units(a)[u] = 0
  <2>1. u \in Given /\ utxos[u].assets[a] \in Nat
    BY <1>1, OutputAssumption DEF TypeOK, OutputType
  <2>2. ~(utxos[u].assets[a] > 0)
    BY <2>1 DEF BareCall, Bare, AssetsIn
  <2> QED BY <2>1, <2>2 DEF Units
<1>3. IsFiniteSet(S) /\ Cardinality(S) \in Nat
  BY <1>1, LovelaceType
<1>4. SumFunctionOnSet(Units(a), S) <= 0 * Cardinality(S)
  <2>1. \A u \in S : Units(a)[u] \in Int /\ Units(a)[u] <= 0
    BY <1>2
  <2> QED BY <1>3, <2>1, SumAtMost
<1>5. SumFunctionOnSet(Units(a), S) \in Nat
  BY <1>2, <1>3, SumNat
<1> QED BY <1>3, <1>4, <1>5

(* The change of such a call holds no assets, and the nested call is asked  *)
(* for what it lacks.                                                       *)
LEMMA BareChange ==
  ASSUME IInv, ValueInv, BareCall, pc \in {"topUp", "tail"}
  PROVE  /\ AssetsIn(change) = {}
         /\ Lovelace(Returned) = Wanted + change.coin
         /\ pc = "topUp" => request["topUp"].coin = Missing
<1> USE DEF IInv, Frame
<1>1. Balanced
  BY DEF ValueInv, Ledger
<1>2. selection["main"] \in SUBSET Given /\ change \in Value /\ IsRequest(request["main"])
  BY DEF TypeOK
<1>3. ASSUME NEW a \in Asset PROVE change.assets[a] = 0
  <2>1. Worth(Returned).assets[a] = SumFunctionOnSet(Units(a), selection["main"])
    BY DEF Worth, Returned
  <2>3. SumFunctionOnSet(Units(a), selection["main"]) = 0
    BY <1>2, BareUnits
  <2>4. Worth(Returned).assets[a] = Asked(a) + change.assets[a]
    BY <1>1 DEF Balanced
  <2>5. Asked(a) = 0 /\ change.assets[a] \in Nat
    BY <1>2 DEF Asked, BareCall, Bare, Value
  <2> QED BY <2>1, <2>3, <2>4, <2>5
<1>4. AssetsIn(change) = {}
  BY <1>3 DEF AssetsIn
<1>5. Lovelace(Returned) = Wanted + change.coin
  BY <1>1 DEF Balanced, Worth, Lovelace, Wanted
<1>6. ASSUME pc = "topUp" PROVE request["topUp"].coin = Missing
  <2>1. request["topUp"].coin + change.coin = MinUtxo[{}]
    BY <1>4, <1>6 DEF Goal, MinChange
  <2>2. request["topUp"].coin \in Nat /\ change.coin \in Nat /\ Wanted \in Nat
    BY <1>2 DEF TypeOK, IsRequest, Value, Wanted
  <2> QED BY <1>5, <2>1, <2>2 DEF Missing, Returned
<1> QED BY <1>4, <1>5, <1>6

(* The calls that end in the main loop.                                     *)
LEMMA MainThrows ==
  ASSUME IInv, ValueInv, BareInv, BareCall, pc = "main",
         NEW e, outcome' = e, pc' = "done", UNCHANGED <<utxos, check>>,
         request'["main"] = request["main"], cap'["main"] = cap["main"],
         e # "selected", Answers = {}, e = Plain!Thrown(Given, Wanted, cap["main"])
  PROVE  BareInv'
<1>1. Given' = Given /\ Wanted' = Wanted
  BY DEF Given, Wanted
<1>2. Plain!Selected(Given, Wanted, cap["main"], check)' = Answers
  BY <1>1, PlainUnchanged DEF Answers
<1>3. Plain!Thrown(Given, Wanted, cap["main"])' = Plain!Thrown(Given, Wanted, cap["main"])
  BY <1>1, PlainUnchanged
<1>4. PlainSelects'
  BY <1>1, <1>2, <1>3 DEF PlainSelects, Wanted
<1> QED BY <1>4 DEF BareInv, BareMain, BareTopUp, BareTail

(* The main loop runs out of outputs: they are worth less than the request. *)
LEMMA ExhaustMainPlain ==
  ASSUME IInv, ValueInv, BareInv, BareCall, Exhaust("main")
  PROVE  BareInv'
<1>1. /\ pc = "main" /\ pc' = "done" /\ outcome' = "exhausted" /\ inputs = {}
      /\ ~Fulfilled(sum["main"], request["main"])
      /\ UNCHANGED <<utxos, check, request, cap>>
  BY DEF Exhaust, InLoop, Throw
<1>2. selection["main"] = Given
  BY <1>1 DEF BareInv, BareMain, Popped
<1>3. TypeOK /\ Given \in SUBSET Given /\ cap["main"] \in Int
  BY DEF IInv, TypeOK, Frame
<1>4. /\ Lovelace(Given) < Wanted /\ Lovelace(Given) \in Nat /\ Wanted \in Nat
      /\ Cardinality(Given) \in Nat
  BY <1>1, <1>2, <1>3, BareLoop, LovelaceType DEF Frame
<1>5. Plain!Covers(Given, Wanted) = {}
  BY <1>3, <1>4, NoCover
<1>6. Answers = {}
  BY <1>5, SelectedNone DEF Answers
<1>7. Cardinality(Given) <= cap["main"]
  BY <1>1, <1>2, <1>3, <1>4, NothingSelected DEF IInv, Limits, BareCall
<1>8. Plain!Thrown(Given, Wanted, cap["main"]) = "exhausted"
  BY <1>3, <1>4, <1>7, PlainWorth, PlainCardinality DEF Plain!Thrown
<1> QED BY <1>1, <1>6, <1>8, MainThrows

(* An output is popped, and the frame goes on or passes its limit: then no  *)
(* cover is within it.                                                      *)
LEMMA TakeMainPlain ==
  ASSUME IInv, ValueInv, BareInv, BareCall, NEW u \in inputs, Take("main", u)
  PROVE  BareInv'
<1> DEFINE T == selection["main"] \cup {u}
<1>1. /\ pc = "main" /\ Largest(u)
      /\ ~Fulfilled(sum["main"], request["main"])
      /\ UNCHANGED <<utxos, check, request, cap>>
      /\ inputs' = inputs \ {u} /\ selection'["main"] = T
  BY DEF Take, InLoop, IInv, TypeOK, Frame
<1>2. Popped(selection["main"], Given, Wanted) /\ inputs = Given \ selection["main"]
  BY <1>1 DEF BareInv, BareMain
<1>3. TypeOK /\ Given \in SUBSET Given /\ cap["main"] \in Int /\ T \in SUBSET Given
  BY <1>2 DEF IInv, TypeOK, Frame
<1>4. Lovelace(selection["main"]) < Wanted /\ Wanted \in Nat
  <2>1. selection["main"] \in SUBSET Given
    BY <1>3
  <2> QED BY <1>1, <1>3, <2>1, BareLoop, LovelaceType DEF Frame
<1>5. \A w \in Given \ selection["main"] : Coins[w] <= Coins[u]
  BY <1>1, <1>2 DEF Largest, Coins
<1>6. Popped(T, Given, Wanted)
  BY <1>2, <1>3, <1>4, <1>5, PopLargest
<1>7. CASE Cardinality(T) > cap["main"]
  <2>1. pc' = "done" /\ outcome' = "tooMany"
    BY <1>7 DEF Take, Throw
  <2>2. Cardinality(T) \in Nat /\ Cardinality(Given) \in Nat
        /\ Cardinality(T) <= Cardinality(Given)
    BY <1>3, LovelaceType, FS_Subset
  <2>3. ASSUME NEW U \in Plain!Covers(Given, Wanted) PROVE ~(Cardinality(U) <= cap["main"])
    <3>1. Cardinality(T) <= Cardinality(U)
      BY <1>3, <1>4, <1>6, CoversAreLarge
    <3>2. Cardinality(U) \in Nat
      BY <1>3, CoversMeans, LovelaceType
    <3> QED BY <1>3, <1>7, <2>2, <3>1, <3>2
  <2>4. Answers = {}
    BY <2>3, SelectedNone DEF Answers
  <2>5. Wanted # 0
    BY <1>3, <1>4, LovelaceType
  <2>6. Plain!Thrown(Given, Wanted, cap["main"]) = "tooMany"
    <3>1. Cardinality(Given) > cap["main"]
      BY <1>3, <1>7, <2>2
    <3> QED BY <2>5, <3>1, PlainWorth, PlainCardinality DEF Plain!Thrown
  <2> QED BY <1>1, <2>1, <2>4, <2>6, MainThrows
<1>8. CASE ~(Cardinality(T) > cap["main"])
  <2>1. pc' = pc
    BY <1>8 DEF Take
  <2>2. Given' = Given /\ Wanted' = Wanted
    BY <1>1 DEF Given, Wanted
  <2>3. Popped(T, Given, Wanted)'
    <3>1. Popped(T, Given, Wanted)' <=> Popped(T, Given, Wanted)
      BY <1>1, <2>2, PlainUnchanged
    <3> QED BY <1>6, <3>1
  <2> QED BY <1>1, <1>2, <2>1, <2>2, <2>3
       DEF BareInv, BareMain, BareTopUp, BareTail, PlainSelects
<1> QED BY <1>7, <1>8

(* The main loop is done: nothing was asked for, or its cover is topped up, *)
(* or it is the answer.                                                     *)
LEMMA SettlePlain ==
  ASSUME IInv, ValueInv, BareInv, BareCall, Settle
  PROVE  BareInv'
<1> DEFINE T == selection["main"]
           rest == Less(sum["main"], request["main"])
<1>1. /\ pc = "main" /\ Fulfilled(sum["main"], request["main"]) /\ change' = rest
      /\ UNCHANGED <<utxos, inputs, check, selection>>
      /\ request'["main"] = request["main"] /\ cap'["main"] = cap["main"]
  BY DEF Settle, IInv, TypeOK, Frame
<1>2. Popped(T, Given, Wanted) /\ inputs = Given \ T
  BY <1>1 DEF BareInv, BareMain
<1>3. TypeOK /\ Given \in SUBSET Given /\ cap["main"] \in Int /\ T \in SUBSET Given
  BY DEF IInv, TypeOK, Frame
<1>4. /\ Lovelace(T) >= Wanted /\ Wanted \in Nat /\ Lovelace(T) \in Nat
      /\ sum["main"].coin = Lovelace(T) /\ request["main"].coin = Wanted
  BY <1>1, <1>3, BareLoop, LovelaceType DEF Frame
<1>5. Given' = Given /\ Wanted' = Wanted
  BY <1>1 DEF Given, Wanted
<1>6. CASE T = {}
  <2>1. pc' = "done" /\ outcome' = "typeError"
    BY <1>6 DEF Settle, Throw
  <2>2. Wanted = 0
    BY <1>4, <1>6, SumEmpty DEF Lovelace
  <2>3. Plain!Covers(Given, Wanted) = {}
    <3> SUFFICES ASSUME NEW U \in Plain!Covers(Given, Wanted) PROVE FALSE
      OBVIOUS
    <3>1. PICK o \in U : U \subseteq Given /\ Lovelace(U \ {o}) < Wanted
      BY CoversMeans
    <3>2. Lovelace(U \ {o}) \in Nat
      BY <1>3, <3>1, LovelaceType
    <3> QED BY <2>2, <3>1, <3>2
  <2>4. Answers = {}
    BY <2>3, SelectedNone DEF Answers
  <2>5. Plain!Thrown(Given, Wanted, cap["main"]) = "typeError"
    BY <2>2 DEF Plain!Thrown
  <2> QED BY <1>1, <2>1, <2>4, <2>5, MainThrows
<1>7. CASE T # {}
  <2>1. T \in Plain!Covers(Given, Wanted)
    BY <1>2, <1>4, <1>7, CoversMeans DEF Popped
  <2>2. Cardinality(T) <= cap["main"]
    BY <1>1, <1>7 DEF IInv, Limits
  <2>3. rest.coin = Lovelace(T) - Wanted
    BY <1>4 DEF Less
  <2>4. AssetsIn(rest) = {}
    <3>1. AssetsIn(change') = {}
      <4>1. IInv' /\ ValueInv' /\ BareCall' /\ pc' \in {"topUp", "tail"}
        <5>1. IInv' /\ ValueInv'
          BY NextInv, NextValue DEF Next
        <5>2. BareCall'
          BY <1>1, <1>5 DEF BareCall, Bare, AssetsIn
        <5>3. pc' \in {"topUp", "tail"}
          BY <1>7 DEF Settle
        <5> QED BY <5>1, <5>2, <5>3
      <4>2. (IInv /\ ValueInv /\ BareCall /\ pc \in {"topUp", "tail"} => AssetsIn(change) = {})'
        BY BareChange, PTL
      <4> QED BY <4>1, <4>2 DEF AssetsIn
    <3> QED BY <1>1, <3>1
  <2>5. IsDust(rest) <=> Plain!IsDust(Lovelace(T) - Wanted)
    BY <2>3, <2>4 DEF IsDust, MinChange, Plain!IsDust
  <2>6. Lovelace(T)' = Lovelace(T)
        /\ Plain!Covers(Given, Wanted)' = Plain!Covers(Given, Wanted)
        /\ Plain!Selected(Given, Wanted, cap["main"], check)' = Answers
    BY <1>1, <1>5, PlainUnchanged DEF Answers
  <2>7. CASE check /\ IsDust(rest)
    <3>1. pc' = "topUp"
      BY <1>7, <2>7 DEF Settle
    <3>2. selection["topUp"] = {}
      BY <1>1 DEF IInv, Partition
    <3>3. BareTopUp'
      <4>1. Popped(selection["topUp"], Given \ T, Missing)'
        BY <1>1, <3>2 DEF Popped
      <4>2. T \in Plain!Covers(Given, Wanted)'
        BY <2>1, <2>6
      <4>3. check' /\ Plain!IsDust(Lovelace(T) - Wanted)'
        BY <1>1, <1>5, <2>5, <2>6, <2>7 DEF Plain!IsDust
      <4>4. inputs' = (Given' \ T') \ selection'["topUp"]
        BY <1>1, <1>2, <1>5, <3>2
      <4> QED BY <1>1, <4>1, <4>2, <4>3, <4>4 DEF BareTopUp
    <3> QED BY <3>1, <3>3 DEF BareInv, BareMain, BareTail, PlainSelects
  <2>8. CASE ~(check /\ IsDust(rest))
    <3>1. pc' = "tail"
      BY <1>7, <2>8 DEF Settle
    <3>2. T \in Answers
      BY <2>1, <2>2, <2>5, <2>8, SelectedPlain DEF Answers
    <3>3. BareTail'
      BY <1>1, <2>6, <3>2 DEF BareTail, Returned, Answers
    <3> QED BY <3>1, <3>3 DEF BareInv, BareMain, BareTopUp, PlainSelects
  <2> QED BY <2>7, <2>8
<1> QED BY <1>6, <1>7

(* The nested call comes to its end, and what the call answers is one of    *)
(* the answers.                                                             *)
LEMMA TopUpEnds ==
  ASSUME BareInv, BareCall, pc = "topUp", pc' = "tail",
         UNCHANGED <<utxos, check, request, cap>>,
         selection'["main"] \in Answers
  PROVE  BareInv'
<1>1. Given' = Given /\ Wanted' = Wanted
  BY DEF Given, Wanted
<1>2. Plain!Selected(Given, Wanted, cap["main"], check)' = Answers
  BY <1>1, PlainUnchanged DEF Answers
<1>3. BareTail'
  BY <1>2 DEF BareTail, Returned, Answers
<1> QED BY <1>3 DEF BareInv, BareMain, BareTopUp, PlainSelects

(* Sets with nothing in common count separately.                            *)
LEMMA CardinalityDisjoint ==
  ASSUME NEW T, NEW U, IsFiniteSet(T), IsFiniteSet(U), T \cap U = {}
  PROVE  Cardinality(T \cup U) = Cardinality(T) + Cardinality(U)
<1>1. Cardinality(T) \in Nat /\ Cardinality(U) \in Nat /\ Cardinality(T \cap U) = 0
  BY FS_CardinalityType, FS_EmptySet
<1>2. Cardinality(T \cup U) = Cardinality(T) + Cardinality(U) - Cardinality(T \cap U)
  BY FS_Union
<1> QED BY <1>1, <1>2

(* What the invariant says of a call in its top-up.                         *)
LEMMA InTopUp ==
  ASSUME IInv, ValueInv, BareInv, BareCall, pc = "topUp"
  PROVE  /\ TypeOK /\ cap["main"] \in Int /\ selection["main"] \in SUBSET Given
         /\ Given \ selection["main"] \in SUBSET Given
         /\ check /\ Plain!IsDust(Lovelace(selection["main"]) - Wanted)
         /\ selection["main"] \in Plain!Covers(Given, Wanted)
         /\ Cardinality(selection["main"]) <= cap["main"]
         /\ Popped(selection["topUp"], Given \ selection["main"], Missing)
         /\ inputs = (Given \ selection["main"]) \ selection["topUp"]
         /\ Missing \in Nat \ {0} /\ request["topUp"].coin = Missing
<1>1. TypeOK /\ cap["main"] \in Int /\ selection["main"] \in SUBSET Given
  BY DEF IInv, TypeOK, Frame
<1>2. /\ check /\ Plain!IsDust(Lovelace(selection["main"]) - Wanted)
      /\ selection["main"] \in Plain!Covers(Given, Wanted)
      /\ Popped(selection["topUp"], Given \ selection["main"], Missing)
      /\ inputs = (Given \ selection["main"]) \ selection["topUp"]
  BY DEF BareInv, BareTopUp
<1>3. Cardinality(selection["main"]) <= cap["main"]
  BY DEF IInv, Limits
<1>4. Missing \in Nat \ {0}
  <2>1. Lovelace(selection["main"]) \in Nat /\ Wanted \in Nat /\ MinUtxo[{}] \in Nat
    BY <1>1, LovelaceType, BareLoop, MinUtxoAssumption DEF Frame
  <2> QED BY <1>2, <2>1 DEF Missing, Plain!IsDust
<1> QED BY <1>1, <1>2, <1>3, <1>4, BareChange

(* When no cover of what is missing fits, the main selection is the answer. *)
LEMMA TopUpInVain ==
  ASSUME IInv, ValueInv, BareInv, BareCall, pc = "topUp",
         \A U \in Plain!Covers(Given \ selection["main"], Missing) :
           Cardinality(U) > cap["main"] - Cardinality(selection["main"])
  PROVE  selection["main"] \in Answers
<1> DEFINE T == selection["main"]
<1>1. ASSUME NEW U \in Plain!Covers(Given \ T, Missing)
      PROVE  ~(Cardinality(T \cup U) <= cap["main"])
  <2>1. U \in SUBSET Given /\ T \in SUBSET Given /\ T \cap U = {}
    BY InTopUp, CoversMeans
  <2>2. IsFiniteSet(T) /\ IsFiniteSet(U) /\ Cardinality(T) \in Nat /\ Cardinality(U) \in Nat
        /\ cap["main"] \in Int
    BY <2>1, InTopUp, LovelaceType
  <2>3. Cardinality(T \cup U) = Cardinality(T) + Cardinality(U)
    BY <2>1, <2>2, CardinalityDisjoint
  <2> QED BY <2>2, <2>3
<1> QED BY <1>1, InTopUp, SelectedUntopped DEF Answers, Missing

(* The nested call runs out of outputs: no cover of the rest is enough.     *)
LEMMA ExhaustTopUpPlain ==
  ASSUME IInv, ValueInv, BareInv, BareCall, Exhaust("topUp")
  PROVE  BareInv'
<1>1. /\ pc = "topUp" /\ pc' = "tail" /\ inputs = {}
      /\ ~Fulfilled(sum["topUp"], request["topUp"])
      /\ UNCHANGED <<utxos, check, request, cap, selection>>
  BY DEF Exhaust, InLoop, Throw
<1>2. selection["topUp"] = Given \ selection["main"]
  BY <1>1, InTopUp DEF Popped
<1>3. Lovelace(Given \ selection["main"]) < Missing
  <2>1. ~(Lovelace(selection["topUp"]) >= Missing)
    BY <1>1, InTopUp, BareLoop DEF Frame
  <2> QED BY <1>1, <1>2, <2>1, InTopUp, LovelaceType
<1>4. Plain!Covers(Given \ selection["main"], Missing) = {}
  BY <1>1, <1>3, InTopUp, NoCover
<1> QED BY <1>1, <1>4, TopUpInVain, TopUpEnds

(* The nested call pops an output, and goes on or passes its limit.         *)
LEMMA TakeTopUpPlain ==
  ASSUME IInv, ValueInv, BareInv, BareCall, NEW u \in inputs, Take("topUp", u)
  PROVE  BareInv'
<1> DEFINE S == Given \ selection["main"]
           T == selection["topUp"] \cup {u}
<1>1. /\ pc = "topUp" /\ Largest(u)
      /\ ~Fulfilled(sum["topUp"], request["topUp"])
      /\ UNCHANGED <<utxos, check, request, cap>>
      /\ inputs' = inputs \ {u} /\ selection'["topUp"] = T
      /\ selection'["main"] = selection["main"]
  BY DEF Take, InLoop, IInv, TypeOK, Frame
<1>2. /\ TypeOK /\ S \in SUBSET Given /\ Popped(selection["topUp"], S, Missing)
      /\ inputs = S \ selection["topUp"] /\ Missing \in Nat
  BY <1>1, InTopUp
<1>3. T \in SUBSET Given /\ selection["topUp"] \in SUBSET Given
  BY <1>2 DEF TypeOK, Frame
<1>4. Lovelace(selection["topUp"]) < Missing
  <2>1. ~(Lovelace(selection["topUp"]) >= Missing)
    BY <1>1, InTopUp, BareLoop DEF Frame
  <2> QED BY <1>2, <1>3, <2>1, LovelaceType
<1>5. \A w \in S \ selection["topUp"] : Coins[w] <= Coins[u]
  BY <1>1, <1>2 DEF Largest, Coins
<1>6. Popped(T, S, Missing)
  BY <1>2, <1>4, <1>5, PopLargest
<1>7. CASE Cardinality(T) > cap["topUp"]
  <2>1. pc' = "tail"
    BY <1>7 DEF Take, Throw
  <2>2. cap["topUp"] = cap["main"] - Cardinality(selection["main"])
    BY <1>1 DEF IInv, Limits
  <2>3. ASSUME NEW U \in Plain!Covers(S, Missing)
        PROVE  Cardinality(U) > cap["main"] - Cardinality(selection["main"])
    <3>1. Cardinality(T) <= Cardinality(U)
      BY <1>2, <1>6, CoversAreLarge
    <3>2. /\ Cardinality(U) \in Nat /\ Cardinality(T) \in Nat
          /\ Cardinality(selection["main"]) \in Nat /\ cap["main"] \in Int
      BY <1>1, <1>2, <1>3, InTopUp, CoversMeans, LovelaceType
    <3> QED BY <1>7, <2>2, <3>1, <3>2
  <2>4. selection["main"] \in Answers
    BY <1>1, <2>3, TopUpInVain
  <2> QED BY <1>1, <2>1, <2>4, TopUpEnds
<1>8. CASE ~(Cardinality(T) > cap["topUp"])
  <2>1. pc' = pc
    BY <1>8 DEF Take
  <2>2. Given' = Given /\ Wanted' = Wanted
    BY <1>1 DEF Given, Wanted
  <2>3. /\ \A Q : Lovelace(Q)' = Lovelace(Q)
        /\ Plain!Covers(Given, Wanted)' = Plain!Covers(Given, Wanted)
    BY <1>1, <2>2, PlainUnchanged
  <2>4. Lovelace(selection["main"])' = Lovelace(selection["main"]) /\ Missing' = Missing
    BY <1>1, <2>2, <2>3 DEF Missing
  <2>5. Popped(T, S, Missing)' <=> Popped(T, S, Missing)
    BY <1>1, <2>2, <2>4, PlainUnchanged
  <2>6. BareTopUp'
    <3>1. Popped(selection["topUp"], Given \ selection["main"], Missing)'
      BY <1>1, <1>6, <2>2, <2>5
    <3>2. check' /\ Plain!IsDust(Lovelace(selection["main"]) - Wanted)'
      BY <1>1, <2>2, <2>4, InTopUp DEF Plain!IsDust
    <3>3. selection'["main"] \in Plain!Covers(Given, Wanted)'
      BY <1>1, <2>3, InTopUp
    <3>4. inputs' = (Given' \ selection'["main"]) \ selection'["topUp"]
      BY <1>1, <1>2, <2>2
    <3> QED BY <1>1, <3>1, <3>2, <3>3, <3>4 DEF BareTopUp
  <2> QED BY <1>1, <2>1, <2>6 DEF BareInv, BareMain, BareTail, PlainSelects
<1> QED BY <1>7, <1>8

(* The nested call has its cover, and it joins the selection.               *)
LEMMA SettleTopUpPlain ==
  ASSUME IInv, ValueInv, BareInv, BareCall, SettleTopUp
  PROVE  BareInv'
<1> DEFINE T == selection["main"]
           U == selection["topUp"]
           over == Less(sum["topUp"], request["topUp"])
<1>1. /\ pc = "topUp" /\ pc' = "tail" /\ Fulfilled(sum["topUp"], request["topUp"])
      /\ UNCHANGED <<utxos, check, request, cap>>
  BY DEF SettleTopUp
<1>2. Lovelace(U) >= Missing /\ Missing \in Nat \ {0} /\ Popped(U, Given \ T, Missing)
  BY <1>1, InTopUp, BareLoop DEF Frame
<1>3. U # {}
  BY <1>2, SumEmpty DEF Lovelace
<1>4. U \in Plain!Covers(Given \ T, Missing)
  BY <1>2, <1>3, CoversMeans DEF Popped
<1>5. Cardinality(T \cup U) <= cap["main"]
  <2>1. Cardinality(U) <= cap["main"] - Cardinality(T)
    BY <1>1, <1>3 DEF IInv, Limits
  <2>2. T \cap U = {} /\ T \in SUBSET Given /\ U \in SUBSET Given
    BY <1>1 DEF IInv, Partition, TypeOK, Frame
  <2>3. IsFiniteSet(T) /\ IsFiniteSet(U) /\ Cardinality(T) \in Nat /\ Cardinality(U) \in Nat
        /\ cap["main"] \in Int
    BY <1>1, <2>2, InTopUp, LovelaceType
  <2>4. Cardinality(T \cup U) = Cardinality(T) + Cardinality(U)
    BY <2>2, <2>3, CardinalityDisjoint
  <2> QED BY <2>1, <2>3, <2>4
<1>6. T \cup U \in Answers
  BY <1>1, <1>4, <1>5, InTopUp, SelectedTopped DEF Answers, Missing
<1>7. selection'["main"] = T \cup U
  <2>1. AssetsIn(over) = {}
    <3>1. \A a \in Asset : over.assets[a] = sum["topUp"].assets[a]
      BY <1>1 DEF Less, IInv, Goal
    <3>2. ASSUME NEW a \in Asset PROVE sum["topUp"].assets[a] = 0
      <4>1. sum["topUp"].assets[a] = SumFunctionOnSet(Units(a), U)
        BY <1>1 DEF ValueInv, Accumulated, Worth, Frame
      <4>2. U \in SUBSET Given
        BY DEF IInv, TypeOK, Frame
      <4> QED BY <4>1, <4>2, BareUnits
    <3> HIDE DEF over
    <3> QED BY <3>1, <3>2 DEF AssetsIn
  <2>2. ~AssetsLeftOver(DropDust(over))
    BY <2>1 DEF AssetsLeftOver, DropDust, AssetsIn, Less
  <2> QED BY <2>2 DEF SettleTopUp, IInv, TypeOK, Frame
<1> QED BY <1>1, <1>6, <1>7, TopUpEnds

(* A call without assets never ends with assets left over.                  *)
LEMMA FinishPlain ==
  ASSUME IInv, ValueInv, BareInv, BareCall, Finish
  PROVE  BareInv'
<1>1. /\ pc = "tail" /\ pc' = "done"
      /\ UNCHANGED <<utxos, check, request, cap, selection>>
  BY DEF Finish
<1>2. AssetsIn(change) = {}
  BY <1>1, BareChange
<1>3. ~AssetsLeftOver(DropDust(change))
  BY <1>2 DEF AssetsLeftOver, DropDust, AssetsIn
<1>4. outcome' = "selected"
  BY <1>3 DEF Finish
<1>5. Given' = Given /\ Wanted' = Wanted
  BY <1>1 DEF Given, Wanted
<1>6. Plain!Selected(Given, Wanted, cap["main"], check)' = Answers
  BY <1>1, <1>5, PlainUnchanged DEF Answers
<1>7. Returned \in Answers
  BY <1>1 DEF BareInv, BareTail
<1>8. PlainSelects'
  BY <1>1, <1>4, <1>5, <1>6, <1>7 DEF PlainSelects, Returned, Wanted
<1> QED BY <1>1, <1>8 DEF BareInv, BareMain, BareTopUp, BareTail

(* A call starts with nothing popped.                                       *)
LEMMA InitPlain == Init => BareInv
<1> SUFFICES ASSUME NEW us \in SUBSET Utxo, NEW r \in Request, NEW c \in Cap,
                    NEW chk \in BOOLEAN, Start(us, r, c, chk)
             PROVE  BareInv
  BY DEF Init
<1>1. pc = "main" /\ selection["main"] = {} /\ inputs = Given
  BY DEF Start, Given, Frame
<1>2. BareMain
  BY <1>1 DEF BareMain, Popped
<1> QED BY <1>1, <1>2 DEF BareInv, BareTopUp, BareTail, PlainSelects

(* Every step of a call keeps to what PlainSelection allows.                *)
LEMMA NextPlain == IInv /\ ValueInv /\ BareInv /\ [Next]_vars => BareInv'
<1> SUFFICES ASSUME IInv, ValueInv, BareInv, [Next]_vars PROVE BareInv'
  OBVIOUS
<1>1. /\ utxos' = utxos /\ check' = check
      /\ request'["main"] = request["main"] /\ cap'["main"] = cap["main"]
  BY DEF Next, vars, Exhaust, Skip, Take, Settle, SettleTopUp, Finish, IInv, TypeOK, Frame
<1>2. Given' = Given /\ Wanted' = Wanted
  BY <1>1 DEF Given, Wanted
<1>3. BareCall' <=> BareCall
  BY <1>1, <1>2 DEF BareCall, Bare, AssetsIn
<1>4. CASE ~BareCall
  <2>1. PlainSelects'
    BY <1>3, <1>4 DEF PlainSelects, BareCall
  <2> QED BY <1>3, <1>4, <2>1 DEF BareInv
<1>5. CASE BareCall
  <2>1. ASSUME NEW f \in Frame, Exhaust(f) PROVE BareInv'
    BY <1>5, <2>1, ExhaustMainPlain, ExhaustTopUpPlain DEF Frame
  <2>2. ASSUME NEW f \in Frame, NEW u \in inputs, Skip(f, u) PROVE BareInv'
    <3>1. pc = f /\ InLoop(f) /\ Useless(f, u)
      BY <2>2 DEF Skip, InLoop
    <3> QED BY <1>5, <3>1, BareLoop
  <2>3. ASSUME NEW f \in Frame, NEW u \in inputs, Take(f, u) PROVE BareInv'
    BY <1>5, <2>3, TakeMainPlain, TakeTopUpPlain DEF Frame
  <2>4. CASE UNCHANGED vars
    <3>1. UNCHANGED <<utxos, inputs, request, cap, check, selection, pc, outcome>>
      BY <2>4 DEF vars
    <3>2. /\ \A S : Lovelace(S)' = Lovelace(S)
          /\ Plain!Covers(Given, Wanted)' = Plain!Covers(Given, Wanted)
          /\ Plain!Selected(Given, Wanted, cap["main"], check)' = Answers
          /\ Plain!Thrown(Given, Wanted, cap["main"])' = Plain!Thrown(Given, Wanted, cap["main"])
      BY <1>2, <3>1, PlainUnchanged DEF Answers
    <3>3. Popped(selection["main"], Given, Wanted)' <=> Popped(selection["main"], Given, Wanted)
      BY <1>2, <3>1, PlainUnchanged
    <3>4. Lovelace(selection["main"])' = Lovelace(selection["main"]) /\ Missing' = Missing
      BY <1>2, <3>1, <3>2 DEF Missing
    <3>5. Popped(selection["topUp"], Given \ selection["main"], Missing)'
            <=> Popped(selection["topUp"], Given \ selection["main"], Missing)
      BY <1>2, <3>1, <3>4, PlainUnchanged
    <3>6. BareMain' /\ BareTail'
      BY <1>2, <1>5, <3>1, <3>2, <3>3 DEF BareInv, BareMain, BareTail, Returned, Answers
    <3>7. BareTopUp'
      BY <1>2, <1>5, <3>1, <3>2, <3>4, <3>5 DEF BareInv, BareTopUp, Plain!IsDust
    <3>8. PlainSelects'
      BY <1>2, <1>3, <1>5, <3>1, <3>2
         DEF BareInv, PlainSelects, BareCall, Returned, Wanted, Answers
    <3> QED BY <3>6, <3>7, <3>8 DEF BareInv
  <2> QED BY <1>5, <2>1, <2>2, <2>3, <2>4, SettlePlain, SettleTopUpPlain, FinishPlain DEF Next
<1> QED BY <1>4, <1>5

(* A call without assets implements PlainSelection: it answers what that    *)
(* may answer, and throws what that throws and only where it has no answer  *)
(* (utils.ts 31-86).                                                        *)
THEOREM PlainCallsAreAnswered == Spec => []PlainSelects
<1>1. Init => IInv /\ ValueInv /\ BareInv
  BY InitInv, InitValue, InitPlain
<1>2. (IInv /\ ValueInv /\ BareInv) /\ [Next]_vars => (IInv /\ ValueInv /\ BareInv)'
  BY NextInv, NextValue, NextPlain
<1>3. IInv /\ ValueInv /\ BareInv => PlainSelects
  BY DEF BareInv
<1> QED BY <1>1, <1>2, <1>3, PTL DEF Spec

-----------------------------------------------------------------------------
(* What a call has left to do: outputs to pop, and parts of the code.       *)
StepsLeft ==
  Cardinality(inputs) +
    (CASE pc = "main" -> 3 [] pc = "topUp" -> 2 [] pc = "tail" -> 1 [] pc = "done" -> 0)

(* Every turn of either loop, every exception and the code after the loops  *)
(* bring the call nearer to its end: no call can run for ever, whatever     *)
(* outputs it drops or selects (the safety part of Terminates; utils.ts     *)
(* 31-83).                                                                  *)
THEOREM EveryStepIsProgress == Spec => [][StepsLeft' < StepsLeft]_vars
<1>1. TypeOK /\ [Next]_vars => [StepsLeft' < StepsLeft]_vars
  <2> SUFFICES ASSUME TypeOK, Next PROVE StepsLeft' < StepsLeft
    OBVIOUS
  <2>1. IsFiniteSet(inputs) /\ Cardinality(inputs) \in Nat
    BY UtxoAssumption, FS_Subset, FS_CardinalityType DEF TypeOK
  <2>2. pc \in {"main", "topUp", "tail", "done"}
    BY DEF TypeOK
  <2>3. ASSUME NEW f \in Frame, Exhaust(f) PROVE StepsLeft' < StepsLeft
    BY <2>1, <2>3 DEF Exhaust, Throw, InLoop, StepsLeft, Frame
  <2>4. ASSUME NEW f \in Frame, NEW u \in inputs, Skip(f, u) \/ Take(f, u)
        PROVE  StepsLeft' < StepsLeft
    <3>1. inputs' = inputs \ {u} /\ Cardinality(inputs \ {u}) = Cardinality(inputs) - 1
      BY <2>1, <2>4, FS_RemoveElement DEF Skip, Take
    <3>2. pc = f /\ pc' \in {f} \cup (IF f = "main" THEN {"done"} ELSE {"tail"})
      BY <2>4 DEF Skip, Take, InLoop, Throw
    <3> QED BY <2>1, <3>1, <3>2 DEF StepsLeft, Frame
  <2>5. CASE Settle
    BY <2>1, <2>5 DEF Settle, Throw, StepsLeft
  <2>6. CASE SettleTopUp
    BY <2>1, <2>6 DEF SettleTopUp, StepsLeft
  <2>7. CASE Finish
    BY <2>1, <2>7 DEF Finish, StepsLeft
  <2> QED BY <2>3, <2>4, <2>5, <2>6, <2>7 DEF Next
<1> QED BY <1>1, TypeCorrect, PTL DEF Spec
=============================================================================
