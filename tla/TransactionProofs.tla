--------------------------- MODULE TransactionProofs ---------------------------
(***************************************************************************)
(* Theorems about TxBuild, Submission and Minting: the value and the assets *)
(* of a transaction, for every request and every price; the answers to its  *)
(* submission, for any number of calls; and the way of a mint, for every    *)
(* native script, every sequence of scripts burnt by and all metadata.      *)
(***************************************************************************)
EXTENDS TxBuild, Minting, Sums, FiniteSetTheorems, SequenceTheorems, TLAPS

(* The library's integers: always within their width, and right there.      *)
LEMMA I32Facts ==
  ASSUME NEW n \in Int
  PROVE  NewI32(n) \in Int /\ Fits(NewI32(n)) /\ (Fits(n) => NewI32(n) = n)
<1>0. Half \in Nat /\ Half > 0
  BY HalfAssumption
<1>1. \A a \in Int, b \in Nat \ {0} : a % b \in Int /\ 0 <= a % b /\ a % b < b
  OBVIOUS
<1>2. \A a \in Int, b \in Nat \ {0} : 0 <= a /\ a < b => a % b = a
  OBVIOUS
<1> DEFINE m == (n + Half) % (2 * Half)
<1>3. n + Half \in Int /\ 2 * Half \in Nat \ {0}
  BY <1>0
<1>4. m \in Int /\ 0 <= m /\ m < 2 * Half
  BY <1>1, <1>3
<1>5. Fits(n) => m = n + Half
  <2> SUFFICES ASSUME Fits(n) PROVE m = n + Half
    OBVIOUS
  <2>1. 0 <= n + Half /\ n + Half < 2 * Half
    BY <1>0 DEF Fits
  <2> QED BY <1>2, <1>3, <2>1
<1>6. NewI32(n) = m - Half
  BY DEF NewI32
<1> HIDE DEF m
<1> QED BY <1>0, <1>4, <1>5, <1>6 DEF Fits

(* What is read of a request has its type.                                  *)
LEMMA RequestType ==
  ASSUME request \in Request
  PROVE  /\ request.inputs \in Seq(InputRecord)
         /\ request.outputs.value \in Nat /\ request.outputs.size \in Nat
         /\ request.outputs.assets \in Bundle
         /\ request.burnouts \in [Name -> Int]
         /\ request.minting \in BOOLEAN
         /\ request.recipients \in Seq(Bundle)
         /\ request.changeAddress \in BOOLEAN
BY RequestAssumption DEF RequestRecord

(* The input of a turn is one of the request's, with lovelace and assets.   *)
LEMMA InputType ==
  ASSUME request \in Request, turn \in Nat \ {0}, turn <= Len(request.inputs)
  PROVE  /\ turn \in DOMAIN request.inputs
         /\ request.inputs[turn].value \in Nat
         /\ request.inputs[turn].assets \in Bundle
<1>1. request.inputs \in Seq(InputRecord)
  BY RequestType
<1>2. turn \in 1 .. Len(request.inputs)
  BY <1>1, LenProperties
<1>3. request.inputs[turn] \in InputRecord
  BY <1>1, <1>2, ElementOfSeq
<1> QED
  BY <1>1, <1>2, <1>3, LenProperties DEF InputRecord

(* The recipient of a turn is one of the request's.                         *)
LEMMA RecipientType ==
  ASSUME request \in Request, turn \in Nat \ {0}, turn <= Len(request.recipients)
  PROVE  request.recipients[turn] \in Bundle
<1>1. request.recipients \in Seq(Bundle)
  BY RequestType
<1>2. turn \in 1 .. Len(request.recipients)
  BY <1>1, LenProperties
<1> QED
  BY <1>1, <1>2, ElementOfSeq

(* What an asset is to the ledger, and the sums of bundles.                 *)
LEMMA BundleType ==
  ASSUME NEW b \in [Name -> Int]
  PROVE  /\ Encoded(b) \in Quantities
         /\ Unencoded(b) \in Quantities
         /\ Recorded(b) \in Quantities
<1>1. \A a \in Asset : a[1] \in Name
  BY DEF Asset
<1> QED
  BY <1>1 DEF Encoded, Unencoded, Recorded, Quantities

(* Adding quantities gives quantities.                                      *)
LEMMA PlusType ==
  ASSUME NEW p \in Quantities, NEW q \in Quantities
  PROVE  Plus(p, q) \in Quantities
BY DEF Plus, Quantities

(* What the burn leaves of a bundle is a bundle.                            *)
LEMMA UnburntType ==
  ASSUME request \in Request, NEW b \in Bundle
  PROVE  Unburnt(b) \in Bundle
BY RequestType DEF Unburnt, Bundle

(* The minimum of an output is a natural number, as is what it lists.       *)
LEMMA ListedType ==
  ASSUME NEW b \in Bundle
  PROVE  /\ MinUtxo[Listed(b)] \in Nat
         /\ Cardinality(Listed(b)) \in Nat
<1>1. Listed(b) \in SUBSET Name
  BY DEF Listed
<1>2. IsFiniteSet(Listed(b))
  BY <1>1, NameAssumption, FS_Subset
<1> QED
  BY <1>1, <1>2, PriceAssumption, FS_CardinalityType

(* Quantities of a bundle are integers.                                     *)
LEMMA BundleIsInt == Bundle \subseteq [Name -> Int]
BY DEF Bundle

(* The price of a body is a natural number.                                 *)
LEMMA MinFeeType ==
  ASSUME size \in Nat, NEW c \in Int \cup {NoChange}
  PROVE  MinFee(c) \in Nat
BY PriceAssumption DEF MinFee

(* The adjusted fee is a natural number.                                    *)
LEMMA AdjustedFeeType ==
  ASSUME TypeOK
  PROVE  AdjustedFee \in Nat
<1>1. size \in Nat /\ draft.change \in Int \cup {NoChange}
  BY DEF TypeOK, Body
<1> QED
  BY <1>1, MinFeeType DEF AdjustedFee

(* So is the fee with what is left over.                                    *)
LEMMA FeeWithType ==
  ASSUME total \in Nat, paid \in Nat, NEW txFee \in Nat, NEW c \in Nat \cup {NoChange}
  PROVE  FeeWith(txFee, c) \in Nat
<1>1. Coin(c) \in Nat
  BY DEF Coin
<1> QED
  BY <1>1 DEF FeeWith

(* The first state has the right types.                                     *)
LEMMA InitTypeOK == Init => TypeOK
<1> SUFFICES ASSUME Init PROVE TypeOK
  OBVIOUS
<1> USE DEF Init
<1>1. sent \in Quantities /\ minted \in Quantities
  BY RequestType, BundleType, BundleIsInt
<1>2. held \in Quantities /\ mint \in Quantities
  BY DEF Quantities
<1>3. draft \in Body /\ tx \in Body
  BY DEF NoBody, Body
<1> QED
  BY <1>1, <1>2, <1>3, RequestType DEF TypeOK

(* Each action keeps the types.                                             *)
LEMMA NextTypeOK == TypeOK /\ [Next]_vars => TypeOK'
<1> SUFFICES ASSUME TypeOK, [Next]_vars PROVE TypeOK'
  OBVIOUS
<1> USE DEF TypeOK
<1>1. CASE SpendPlainInput
  <2> DEFINE value == request.inputs[turn].value
  <2>1. value \in Nat
    BY <1>1, InputType DEF SpendPlainInput
  <2>2. /\ total' = total + value /\ spendable' = spendable + value /\ turn' = turn + 1
        /\ UNCHANGED <<request, stage, costs, paid, size, held, sent, minted, mint,
                       mints, change, draft, tx>>
    BY <1>1 DEF SpendPlainInput
  <2> HIDE DEF value
  <2> QED
    BY <2>1, <2>2
<1>2. CASE SpendInputWithAssets
  <2> DEFINE input == request.inputs[turn]
             back == Unburnt(input.assets)
  <2>1. input.value \in Nat /\ input.assets \in Bundle
    BY <1>2, InputType DEF SpendInputWithAssets
  <2>2. back \in Bundle
    BY <2>1, UnburntType
  <2>3. MinUtxo[Listed(back)] \in Nat
    BY <2>2, ListedType
  <2>4. held' \in Quantities /\ sent' \in Quantities
    BY <1>2, <2>1, <2>2, BundleIsInt, BundleType, PlusType DEF SpendInputWithAssets
  <2> HIDE DEF input, back
  <2>5. /\ total' = total + input.value
        /\ spendable' = spendable + input.value - MinUtxo[Listed(back)]
        /\ paid' = paid + MinUtxo[Listed(back)]
    BY <1>2 DEF SpendInputWithAssets, input, back
  <2>6. /\ size' = size + OutputFee /\ turn' = turn + 1
        /\ UNCHANGED <<request, stage, costs, minted, mint, mints, change, draft, tx>>
    BY <1>2 DEF SpendInputWithAssets
  <2> QED
    BY <2>1, <2>3, <2>4, <2>5, <2>6, PriceAssumption
<1>3. CASE InputsDone
  BY <1>3 DEF InputsDone
<1>4. CASE MintForRecipient
  <2> DEFINE tokens == request.recipients[turn]
  <2>1. tokens \in Bundle
    BY <1>4, RecipientType DEF MintForRecipient
  <2>2. MinUtxo[Listed(tokens)] \in Nat /\ Cardinality(Listed(tokens)) \in Nat
    BY <2>1, ListedType
  <2>3. sent' \in Quantities /\ minted' \in Quantities
    BY <1>4, <2>1, BundleIsInt, BundleType, PlusType DEF MintForRecipient, MintFor
  <2> HIDE DEF tokens
  <2>4. /\ costs' = costs + MinUtxo[Listed(tokens)]
        /\ paid' = paid + MinUtxo[Listed(tokens)]
        /\ mints' = mints + Cardinality(Listed(tokens))
    BY <1>4 DEF MintForRecipient, MintFor, tokens
  <2>5. /\ size' = size + OutputFee /\ turn' = turn + 1
        /\ UNCHANGED <<request, stage, total, spendable, held, mint, change, draft, tx>>
    BY <1>4 DEF MintForRecipient, MintFor
  <2> QED
    BY <2>2, <2>3, <2>4, <2>5, PriceAssumption
<1>5. CASE ChargeCommission
  <2> DEFINE tracking == [n \in Name |-> IF n = Tracking THEN mints ELSE 0]
  <2>1. tracking \in [Name -> Int]
    OBVIOUS
  <2>2. sent' \in Quantities /\ minted' \in Quantities
    BY <1>5, <2>1, BundleType, PlusType DEF ChargeCommission
  <2> QED
    BY <1>5, <2>2, CommissionAssumption, PriceAssumption DEF ChargeCommission
<1>6. CASE CommissionUnknown
  BY <1>6 DEF CommissionUnknown
<1>7. CASE DecideChange
  BY <1>7 DEF DecideChange
<1>8. CASE DraftBody
  <2>1. mint' \in Quantities
    BY <1>8, I32Facts DEF DraftBody, BuildTransactionMint, Quantities
  <2> QED
    BY <1>8, <2>1, PriceAssumption DEF DraftBody, DraftChange, Body
<1>9. CASE AdjustChange
  <2>1. AdjustedFee \in Nat
    BY AdjustedFeeType
  <2> DEFINE given == Returned(AdjustedFee)
             kept == IF given < MinUTxOValue THEN NoChange ELSE given
  <2>2. given \in Int
    BY <1>9, <2>1, PriceAssumption DEF AdjustChange, Returned
  <2>3. ~(given < 0) => kept \in Nat \cup {NoChange}
    BY <2>2
  <2>4. ~(given < 0) => FeeWith(AdjustedFee, kept) \in Nat
    BY <2>1, <2>3, FeeWithType
  <2>5. /\ change' = given
        /\ IF given < 0
             THEN stage' = "notEnoughFunds" /\ UNCHANGED tx
             ELSE stage' = "built" /\ tx' = [change |-> kept, fee |-> FeeWith(AdjustedFee, kept)]
        /\ UNCHANGED <<request, turn, total, spendable, costs, paid, size, held, sent,
                       minted, mint, mints, draft>>
    BY <1>9 DEF AdjustChange
  <2> HIDE DEF given, kept
  <2>6. tx' \in Body
    BY <2>3, <2>4, <2>5 DEF Body
  <2> QED
    BY <2>2, <2>5, <2>6
<1>10. CASE AdjustFeeOnly
  <2>1. AdjustedFee \in Nat
    BY AdjustedFeeType
  <2>2. FeeWith(AdjustedFee, NoChange) \in Nat
    BY <2>1, FeeWithType
  <2>3. tx' \in Body
    BY <1>10, <2>2 DEF AdjustFeeOnly, Body
  <2> QED
    BY <1>10, <2>3 DEF AdjustFeeOnly
<1>11. CASE KeepDraft
  BY <1>11 DEF KeepDraft
<1>12. CASE UNCHANGED vars
  BY <1>12 DEF vars
<1> QED
  BY <1>1, <1>2, <1>3, <1>4, <1>5, <1>6, <1>7, <1>8, <1>9, <1>10, <1>11, <1>12 DEF Next

(* Every variable of buildTx and adjustFee has its type in every call.      *)
THEOREM TypeCorrect == Spec => []TypeOK
<1>1. TypeOK /\ [Next]_vars => TypeOK'
  BY NextTypeOK
<1> QED
  BY InitTypeOK, <1>1, PTL DEF Spec
-----------------------------------------------------------------------------
(* Lovelace.  What is not in the outputs is what can be spent less what is  *)
(* asked for; the change is that, first whole, then less the largest fee.   *)
Accounted == total - paid = spendable - costs

ChangeOk ==
  /\ stage = "draft" =>
       total >= paid /\ (change # NoChange => change = total - paid)
  /\ stage = "adjust" =>
       /\ total >= paid
       /\ change = NoChange => draft.change = NoChange
       /\ change # NoChange =>
            change = (total - paid) - MaxFee /\ draft.change = DraftChange(change)

IInv ==
  /\ TypeOK
  /\ Accounted
  /\ ChangeOk
  /\ LovelaceBalanced
  /\ FeeSuffices
  /\ RefusalGenuine

(* Where the call has not ended, and is not about to choose the change, the *)
(* conjuncts on the stages say nothing.                                     *)
LEMMA Underway ==
  ASSUME TypeOK, stage \in {"inputs", "minting", "change", "error"}
  PROVE  ChangeOk /\ LovelaceBalanced /\ FeeSuffices /\ RefusalGenuine
BY DEF ChangeOk, LovelaceBalanced, FeeSuffices, RefusalGenuine

(* Nothing is said of a call that has not built a transaction.              *)
LEMMA UnderwayNext ==
  ASSUME TypeOK', stage' \in {"inputs", "minting", "change", "error"}
  PROVE  (ChangeOk /\ LovelaceBalanced /\ FeeSuffices /\ RefusalGenuine)'
BY DEF ChangeOk, LovelaceBalanced, FeeSuffices, RefusalGenuine

(* The invariant holds when a call starts.                                  *)
LEMMA InitIInv == Init => IInv
<1> SUFFICES ASSUME Init PROVE IInv
  OBVIOUS
<1>1. TypeOK
  BY InitTypeOK
<1>2. Accounted
  BY RequestType DEF Init, Accounted
<1> QED
  BY <1>1, <1>2, Underway DEF Init, IInv

(* The steps before the change is decided keep the account.                 *)
LEMMA AccountedNext ==
  ASSUME TypeOK, Accounted, Next
  PROVE  Accounted'
<1> USE DEF TypeOK, Accounted
<1>1. CASE SpendPlainInput
  <2> DEFINE value == request.inputs[turn].value
  <2>1. value \in Nat
    BY <1>1, InputType DEF SpendPlainInput
  <2>2. total' = total + value /\ spendable' = spendable + value /\ UNCHANGED <<paid, costs>>
    BY <1>1 DEF SpendPlainInput
  <2> HIDE DEF value
  <2> QED
    BY <2>1, <2>2
<1>2. CASE SpendInputWithAssets
  <2> DEFINE value == request.inputs[turn].value
             back == Unburnt(request.inputs[turn].assets)
             minAda == MinUtxo[Listed(back)]
  <2>1. value \in Nat /\ request.inputs[turn].assets \in Bundle
    BY <1>2, InputType DEF SpendInputWithAssets
  <2>2. minAda \in Nat
    BY <2>1, UnburntType, ListedType
  <2>3. /\ total' = total + value /\ spendable' = spendable + value - minAda
        /\ paid' = paid + minAda /\ UNCHANGED costs
    BY <1>2 DEF SpendInputWithAssets
  <2> HIDE DEF value, minAda
  <2> QED
    BY <2>1, <2>2, <2>3
<1>3. CASE MintForRecipient
  <2> DEFINE minAda == MinUtxo[Listed(request.recipients[turn])]
  <2>1. minAda \in Nat
    BY <1>3, RecipientType, ListedType DEF MintForRecipient
  <2>2. costs' = costs + minAda /\ paid' = paid + minAda /\ UNCHANGED <<total, spendable>>
    BY <1>3 DEF MintForRecipient, MintFor
  <2> HIDE DEF minAda
  <2> QED
    BY <2>1, <2>2
<1>4. CASE ChargeCommission
  <2>1. PICK fee \in Commission :
          /\ costs' = costs + fee /\ paid' = paid + fee
          /\ UNCHANGED <<total, spendable>>
    <3>1. PICK fee \in Commission :
            IF fee = 0 THEN UNCHANGED <<costs, paid>>
                       ELSE costs' = costs + fee /\ paid' = paid + fee
      BY <1>4 DEF ChargeCommission
    <3>2. costs \in Int /\ paid \in Int
      BY DEF TypeOK
    <3>3. costs' = costs + fee /\ paid' = paid + fee
      <4>1. CASE fee = 0
        BY <3>1, <3>2, <4>1
      <4>2. CASE fee # 0
        BY <3>1, <4>2
      <4> QED
        BY <4>1, <4>2
    <3>4. UNCHANGED <<total, spendable>>
      BY <1>4 DEF ChargeCommission
    <3> QED
      BY <3>3, <3>4
  <2> QED
    BY <2>1, CommissionAssumption
<1>5. CASE UNCHANGED <<total, paid, spendable, costs>>
  BY <1>5
<1> QED
  BY <1>1, <1>2, <1>3, <1>4, <1>5
  DEF Next, InputsDone, CommissionUnknown, DecideChange, DraftBody, AdjustChange,
      AdjustFeeOnly, KeepDraft

(* With a change output, what the draft's price leaves of the largest fee   *)
(* comes back: change and fee are together what is not in the outputs.      *)
LEMMA AdjustChangeStep ==
  ASSUME IInv, AdjustChange, TypeOK'
  PROVE  (LovelaceBalanced /\ FeeSuffices /\ RefusalGenuine)'
<1> DEFINE txFee == AdjustedFee
           given == Returned(txFee)
           kept == IF given < MinUTxOValue THEN NoChange ELSE given
<1> USE NoChangeAssumption
<1>1. /\ total \in Nat /\ paid \in Nat /\ size \in Nat /\ txFee \in Nat
      /\ MaxFee \in Nat /\ MinUTxOValue \in Nat /\ OutputFee \in Nat /\ WideFee \in Nat
      /\ Wide \in Nat /\ change \in Int /\ draft.change \in Nat \cup {NoChange}
  BY AdjustedFeeType, PriceAssumption DEF IInv, TypeOK, Body, AdjustChange
<1>2. change = (total - paid) - MaxFee /\ draft.change = DraftChange(change)
  BY DEF IInv, ChangeOk, AdjustChange
<1>3. given = (total - paid) - txFee
  BY <1>1, <1>2 DEF Returned
<1>4. /\ IF given < 0
           THEN stage' = "notEnoughFunds"
           ELSE stage' = "built" /\ tx' = [change |-> kept, fee |-> FeeWith(txFee, kept)]
      /\ UNCHANGED <<total, paid, size, draft>>
  BY DEF AdjustChange
<1>5. txFee = MinFee(draft.change) /\ txFee < MaxFee
  BY DEF AdjustedFee, AdjustChange
<1> HIDE DEF given, txFee
<1>6. CASE given < 0
  <2>1. change < 0
    BY <1>1, <1>2, <1>3, <1>5, <1>6
  <2>2. draft.change = NoChange
    BY <1>1, <1>2, <2>1 DEF DraftChange
  <2>3. txFee = size
    BY <1>1, <1>5, <2>2 DEF MinFee
  <2> QED
    BY <1>1, <1>3, <1>4, <1>6, <2>3 DEF LovelaceBalanced, FeeSuffices, RefusalGenuine
<1>7. CASE ~(given < 0)
  <2>1. stage' = "built" /\ tx'.change = kept /\ tx'.fee = FeeWith(txFee, kept)
    BY <1>4, <1>7
  <2>2. txFee >= size
    BY <1>1, <1>5 DEF MinFee
  <2>3. CASE given < MinUTxOValue
    <3>1. tx'.change = NoChange /\ tx'.fee = total - paid /\ tx'.fee >= txFee
      BY <1>1, <1>3, <1>7, <2>1, <2>3 DEF FeeWith, Coin
    <3>2. LovelaceBalanced'
      BY <1>1, <1>4, <3>1 DEF LovelaceBalanced, Coin
    <3>3. FeeSuffices'
      BY <1>1, <1>4, <2>2, <3>1 DEF FeeSuffices, MinFee
    <3> QED
      BY <2>1, <3>2, <3>3 DEF RefusalGenuine
  <2>4. CASE ~(given < MinUTxOValue)
    <3>1. tx'.change = given /\ given \in Nat /\ given # NoChange
      BY <1>1, <1>3, <1>7, <2>1, <2>4
    <3>2. tx'.fee = txFee
      BY <1>1, <1>3, <2>1, <2>4, <3>1 DEF FeeWith, Coin
    <3>3. LovelaceBalanced'
      BY <1>1, <1>3, <1>4, <3>1, <3>2 DEF LovelaceBalanced, Coin
    <3>4. FeeSuffices'
      BY <1>1, <1>4, <1>5, <3>1, <3>2 DEF FeeSuffices, MinFee
    <3> QED
      BY <2>1, <3>3, <3>4 DEF RefusalGenuine
  <2> QED
    BY <2>3, <2>4
<1> QED
  BY <1>6, <1>7

(* Without one, what is left over goes to the fee.                          *)
LEMMA AdjustFeeOnlyStep ==
  ASSUME IInv, AdjustFeeOnly, TypeOK'
  PROVE  (LovelaceBalanced /\ FeeSuffices /\ RefusalGenuine)'
<1> USE NoChangeAssumption
<1>1. total \in Nat /\ paid \in Nat /\ size \in Nat
  BY DEF IInv, TypeOK
<1>2. AdjustedFee = size
  BY <1>1 DEF IInv, ChangeOk, AdjustFeeOnly, AdjustedFee, MinFee
<1>3. /\ stage' = "built" /\ UNCHANGED <<total, paid, size>>
      /\ tx'.change = NoChange /\ tx'.fee = FeeWith(size, NoChange)
  BY <1>2 DEF AdjustFeeOnly
<1>4. \/ tx'.fee = total - paid /\ tx'.fee >= size
      \/ tx'.fee = size /\ total - paid < size
  BY <1>1, <1>3 DEF FeeWith, Coin
<1>5. LovelaceBalanced'
  BY <1>1, <1>3, <1>4 DEF LovelaceBalanced, Coin
<1>6. FeeSuffices'
  BY <1>1, <1>3, <1>4 DEF FeeSuffices, MinFee
<1> QED
  BY <1>3, <1>5, <1>6 DEF RefusalGenuine

(* Every step keeps the invariant on lovelace.                              *)
LEMMA NextIInv == IInv /\ [Next]_vars => IInv'
<1> SUFFICES ASSUME IInv, [Next]_vars PROVE IInv'
  OBVIOUS
<1>1. TypeOK'
  BY NextTypeOK DEF IInv
<1>2. CASE UNCHANGED vars
  BY <1>1, <1>2
  DEF vars, IInv, Accounted, ChangeOk, LovelaceBalanced, FeeSuffices, RefusalGenuine, Sized,
      MinFee
<1>3. CASE Next
  <2>1. Accounted'
    BY <1>3, AccountedNext DEF IInv
  <2> SUFFICES (ChangeOk /\ LovelaceBalanced /\ FeeSuffices /\ RefusalGenuine)'
    BY <1>1, <2>1 DEF IInv
  <2>2. CASE SpendPlainInput \/ SpendInputWithAssets \/ InputsDone \/ MintForRecipient
               \/ ChargeCommission \/ CommissionUnknown
    <3>1. stage' \in {"inputs", "minting", "change", "error"}
      BY <2>2
      DEF SpendPlainInput, SpendInputWithAssets, InputsDone, MintForRecipient,
          ChargeCommission, CommissionUnknown
    <3> QED
      BY <1>1, <3>1, UnderwayNext
  <2>3. CASE DecideChange
    <3>1. /\ total \in Nat /\ paid \in Nat /\ size \in Nat /\ spendable \in Int /\ costs \in Nat
          /\ total - paid = spendable - costs
      BY DEF IInv, TypeOK, Accounted
    <3>2. /\ UNCHANGED <<total, paid, size>>
          /\ IF spendable - costs < 0
               THEN stage' = "notEnoughFunds"
               ELSE /\ stage' = "draft"
                    /\ change' = IF request.changeAddress /\ spendable - costs > 0
                                   THEN spendable - costs ELSE NoChange
      BY <2>3 DEF DecideChange
    <3> QED
      BY <3>1, <3>2 DEF ChangeOk, LovelaceBalanced, FeeSuffices, RefusalGenuine
  <2>4. CASE DraftBody
    <3>1. total \in Nat /\ paid \in Nat /\ change \in Int \cup {NoChange} /\ MaxFee \in Nat
      BY PriceAssumption DEF IInv, TypeOK
    <3>2. total >= paid /\ (change # NoChange => change = total - paid)
      BY <2>4 DEF IInv, ChangeOk, DraftBody
    <3>3. /\ stage' = "adjust" /\ UNCHANGED <<total, paid>>
          /\ IF change = NoChange
               THEN change' = NoChange /\ draft'.change = NoChange
               ELSE change' = change - MaxFee /\ draft'.change = DraftChange(change - MaxFee)
      BY <2>4 DEF DraftBody
    <3>4. ChangeOk'
      BY <3>1, <3>2, <3>3, NoChangeAssumption DEF ChangeOk, DraftChange
    <3> QED
      BY <3>3, <3>4 DEF LovelaceBalanced, FeeSuffices, RefusalGenuine
  <2>5. CASE AdjustChange
    <3>1. stage' \notin {"draft", "adjust"}
      BY <2>5 DEF AdjustChange
    <3> QED
      BY <1>1, <2>5, <3>1, AdjustChangeStep DEF ChangeOk
  <2>6. CASE AdjustFeeOnly
    <3>1. stage' \notin {"draft", "adjust"}
      BY <2>6 DEF AdjustFeeOnly
    <3> QED
      BY <1>1, <2>6, <3>1, AdjustFeeOnlyStep DEF ChangeOk
  <2>7. CASE KeepDraft
    <3>1. stage' = "built" /\ UNCHANGED <<size, draft>> /\ AdjustedFee >= MaxFee
      BY <2>7 DEF KeepDraft
    <3>2. ~Sized'
      <4>1. AdjustedFee \in Nat /\ MaxFee \in Nat
        BY AdjustedFeeType, PriceAssumption DEF IInv
      <4>2. MinFee(draft.change)' = AdjustedFee
        BY <3>1 DEF MinFee, AdjustedFee
      <4> QED
        BY <3>1, <4>1, <4>2 DEF Sized
    <3> QED
      BY <3>1, <3>2 DEF ChangeOk, LovelaceBalanced, FeeSuffices, RefusalGenuine
  <2> QED
    BY <1>3, <2>2, <2>3, <2>4, <2>5, <2>6, <2>7 DEF Next
<1> QED
  BY <1>2, <1>3

(* The inductive invariant on lovelace and the fee (buildTx, adjustFee).    *)
THEOREM Invariant == Spec => []IInv
<1>1. IInv /\ [Next]_vars => IInv'
  BY NextIInv
<1> QED
  BY InitIInv, <1>1, PTL DEF Spec

(* Whatever the request and the prices, a transaction within the largest    *)
(* size conserves lovelace, unless it has no change and inputs that do not  *)
(* cover its fee.                                                           *)
THEOREM LovelaceIsBalanced == Spec => []LovelaceBalanced
<1>1. IInv => LovelaceBalanced
  BY DEF IInv
<1> QED
  BY Invariant, <1>1, PTL

(* Its fee covers its size, unless the change is back after the draft or    *)
(* has grown past a width.                                                  *)
THEOREM FeeIsSufficient == Spec => []FeeSuffices
<1>1. IInv => FeeSuffices
  BY DEF IInv
<1> QED
  BY Invariant, <1>1, PTL

(* A call that ends with "not enough funds" had not enough.                 *)
THEOREM RefusalIsGenuine == Spec => []RefusalGenuine
<1>1. IInv => RefusalGenuine
  BY DEF IInv
<1> QED
  BY Invariant, <1>1, PTL
-----------------------------------------------------------------------------
(* Assets.  The inputs whose turn is over.                                  *)
Taken == {i \in DOMAIN request.inputs : stage = "inputs" => i < turn}

TakenHas(n) == SumFunctionOnSet(Has(n), Taken)
TakenLoses(n) == SumFunctionOnSet(Loses(n), Taken)

(* Where asset n is after these: the inputs' is held under one of its       *)
(* forms; what is left of it is sent encoded, with what is minted; what is  *)
(* asked for and burnt is under the other form, if the name has two.        *)
AssetOk(n) ==
  LET asked == request.outputs.assets[n]
      burnt == request.burnouts[n]
      text == AsText(n)
      digits == <<n, "digits">>
  IN  /\ held[text] = IF n \in HexName THEN 0 ELSE TakenHas(n)
      /\ held[digits] = IF n \in HexName THEN TakenHas(n) ELSE 0
      /\ sent[text] = minted[text] + (TakenHas(n) - TakenLoses(n))
                        + (IF n \in BlankName THEN asked - burnt ELSE 0)
      /\ sent[digits] = IF n \in BlankName THEN 0 ELSE asked
      /\ minted[digits] = IF n \in BlankName THEN 0 ELSE burnt

AssetsOk == \A n \in Name : AssetOk(n)

MintOk == stage \in {"adjust", "built"} => mint = BuildTransactionMint(minted)

AssetIInv == TypeOK /\ AssetsOk /\ MintOk

(* What the conversions of names say of the asset n.                        *)
LEMMA Lookups ==
  ASSUME NEW n \in Name, NEW b \in [Name -> Int]
  PROVE  /\ AsText(n) \in Asset /\ <<n, "digits">> \in Asset
         /\ Encoded(b)[AsText(n)] = b[n] /\ Encoded(b)[<<n, "digits">>] = 0
         /\ Recorded(b)[AsText(n)] = IF n \in HexName THEN 0 ELSE b[n]
         /\ Recorded(b)[<<n, "digits">>] = IF n \in HexName THEN b[n] ELSE 0
         /\ Unencoded(b)[AsText(n)] = IF n \in BlankName THEN b[n] ELSE 0
         /\ Unencoded(b)[<<n, "digits">>] = IF n \in BlankName THEN 0 ELSE b[n]
<1>1. AsText(n) \in Asset /\ <<n, "digits">> \in Asset
  BY DEF AsText, Asset
<1>2. AsText(n)[1] = n /\ <<n, "digits">>[1] = n /\ AsText(n) # <<n, "digits">>
  BY DEF AsText
<1>3. Encoded(b)[AsText(n)] = b[n] /\ Encoded(b)[<<n, "digits">>] = 0
  BY <1>1, <1>2 DEF Encoded
<1>4. n \in HexName => n \notin BlankName
  BY NameAssumption
<1>5. /\ Recorded(b)[AsText(n)] = IF n \in HexName THEN 0 ELSE b[n]
      /\ Recorded(b)[<<n, "digits">>] = IF n \in HexName THEN b[n] ELSE 0
  BY <1>1, <1>2, <1>4 DEF Recorded, OnLedger, AsDigits
<1>6. /\ Unencoded(b)[AsText(n)] = IF n \in BlankName THEN b[n] ELSE 0
      /\ Unencoded(b)[<<n, "digits">>] = IF n \in BlankName THEN 0 ELSE b[n]
  BY <1>1, <1>2 DEF Unencoded, AsDigits
<1> QED
  BY <1>1, <1>3, <1>5, <1>6

(* The quantities of n in the request, input by input and summed up.        *)
LEMMA InputQuantities ==
  ASSUME request \in Request, NEW n \in Name
  PROVE  /\ IsFiniteSet(DOMAIN request.inputs) /\ DOMAIN request.inputs \subseteq Nat
         /\ request.outputs.assets[n] \in Nat /\ request.burnouts[n] \in Int
         /\ \A i \in DOMAIN request.inputs : Has(n)[i] \in Nat /\ Loses(n)[i] \in Int
         /\ IsFiniteSet(Taken) /\ Taken \subseteq DOMAIN request.inputs
         /\ TakenHas(n) \in Int /\ TakenLoses(n) \in Int
<1>1. request.inputs \in Seq(InputRecord)
  BY RequestType
<1>2. DOMAIN request.inputs = 1 .. Len(request.inputs) /\ Len(request.inputs) \in Nat
  BY <1>1, LenProperties
<1>3. IsFiniteSet(DOMAIN request.inputs) /\ DOMAIN request.inputs \subseteq Nat
  BY <1>2, FS_Interval
<1>4. request.outputs.assets[n] \in Nat /\ request.burnouts[n] \in Int
  BY RequestType DEF Bundle
<1>5. ASSUME NEW i \in DOMAIN request.inputs
      PROVE  Has(n)[i] \in Nat /\ Loses(n)[i] \in Int
  <2>1. request.inputs[i] \in InputRecord
    BY <1>1, <1>2, <1>5, ElementOfSeq
  <2>2. Has(n)[i] \in Nat
    BY <1>5, <2>1 DEF Has, InputRecord, Bundle
  <2> QED
    BY <1>4, <1>5, <2>2 DEF Loses
<1>6. IsFiniteSet(Taken) /\ Taken \subseteq DOMAIN request.inputs
  BY <1>3, FS_Subset DEF Taken
<1>7. TakenHas(n) \in Int /\ TakenLoses(n) \in Int
  <2>1. /\ \A i \in Taken : Has(n)[i] \in Int
        /\ \A i \in Taken : Loses(n)[i] \in Int
    BY <1>5, <1>6
  <2> QED
    BY <1>6, <2>1, SumInt DEF TakenHas, TakenLoses
<1> QED
  BY <1>3, <1>4, <1>5, <1>6, <1>7

(* The invariant on assets holds when a call starts.                        *)
LEMMA InitAssets == Init => AssetIInv
<1> SUFFICES ASSUME Init PROVE AssetIInv
  OBVIOUS
<1>1. TypeOK /\ MintOk
  BY InitTypeOK DEF Init, MintOk
<1> SUFFICES ASSUME NEW n \in Name PROVE AssetOk(n)
  BY <1>1 DEF AssetIInv, AssetsOk
<1>2. request.outputs.assets \in [Name -> Int] /\ request.burnouts \in [Name -> Int]
  BY RequestType, BundleIsInt DEF Init
<1>3. held[AsText(n)] = 0 /\ held[<<n, "digits">>] = 0
  BY <1>2, Lookups DEF Init
<1>4. /\ sent[AsText(n)] = IF n \in BlankName THEN request.outputs.assets[n] ELSE 0
      /\ sent[<<n, "digits">>] = IF n \in BlankName THEN 0 ELSE request.outputs.assets[n]
      /\ minted[AsText(n)] = IF n \in BlankName THEN request.burnouts[n] ELSE 0
      /\ minted[<<n, "digits">>] = IF n \in BlankName THEN 0 ELSE request.burnouts[n]
  BY <1>2, Lookups DEF Init
<1>5. Taken = {}
  BY RequestType, LenProperties DEF Init, Taken
<1>6. TakenHas(n) = 0 /\ TakenLoses(n) = 0
  BY <1>5, SumEmpty DEF TakenHas, TakenLoses
<1>7. request.outputs.assets[n] \in Int /\ request.burnouts[n] \in Int
  BY <1>2
<1> QED
  BY <1>3, <1>4, <1>6, <1>7 DEF AssetOk

(* A step that leaves the inputs and the assets alone.                      *)
LEMMA AssetsUntouched ==
  ASSUME AssetsOk, UNCHANGED <<request, held, sent, minted>>, Taken' = Taken
  PROVE  AssetsOk'
BY DEF AssetsOk, AssetOk, TakenHas, TakenLoses, Has, Loses, AsText

(* One that sends what it mints.                                            *)
LEMMA AssetsMinted ==
  ASSUME AssetIInv, NEW b \in [Name -> Int],
         sent' = Plus(sent, Encoded(b)), minted' = Plus(minted, Encoded(b)),
         UNCHANGED <<request, held>>, Taken' = Taken
  PROVE  AssetsOk'
<1> SUFFICES ASSUME NEW n \in Name PROVE AssetOk(n)'
  BY DEF AssetsOk
<1>1. AssetOk(n)
  BY DEF AssetIInv, AssetsOk
<1>2. AsText(n) \in Asset /\ <<n, "digits">> \in Asset /\ b[n] \in Int
  BY Lookups
<1>3. /\ sent'[AsText(n)] = sent[AsText(n)] + b[n]
      /\ minted'[AsText(n)] = minted[AsText(n)] + b[n]
      /\ sent'[<<n, "digits">>] = sent[<<n, "digits">>] + 0
      /\ minted'[<<n, "digits">>] = minted[<<n, "digits">>] + 0
  BY <1>2, Lookups DEF Plus
<1>4. /\ {sent[AsText(n)], minted[AsText(n)]} \subseteq Int
      /\ {sent[<<n, "digits">>], minted[<<n, "digits">>]} \subseteq Int
  BY <1>2 DEF AssetIInv, TypeOK, Quantities
<1>5. /\ TakenHas(n) \in Int /\ TakenLoses(n) \in Int
      /\ request.outputs.assets[n] \in Int /\ request.burnouts[n] \in Int
  BY InputQuantities DEF AssetIInv, TypeOK
<1>6. /\ TakenHas(n)' = TakenHas(n) /\ TakenLoses(n)' = TakenLoses(n)
      /\ AsText(n)' = AsText(n) /\ held' = held /\ request' = request
  BY DEF TakenHas, TakenLoses, Has, Loses, AsText
<1> DEFINE rest == IF n \in BlankName THEN request.outputs.assets[n] - request.burnouts[n] ELSE 0
<1>7. rest \in Int
  BY <1>5
<1>8. sent[AsText(n)] = minted[AsText(n)] + (TakenHas(n) - TakenLoses(n)) + rest
  BY <1>1 DEF AssetOk
<1> HIDE DEF rest
<1>9. sent'[AsText(n)] = minted'[AsText(n)] + (TakenHas(n) - TakenLoses(n)) + rest
  BY <1>2, <1>3, <1>4, <1>5, <1>7, <1>8
<1>10. sent'[<<n, "digits">>] = sent[<<n, "digits">>] /\ minted'[<<n, "digits">>] = minted[<<n, "digits">>]
  BY <1>3, <1>4
<1> QED
  BY <1>1, <1>6, <1>9, <1>10 DEF AssetOk, rest

(* An input whose turn is over adds what it has and what it loses.          *)
LEMMA InputTaken ==
  ASSUME TypeOK, NEW n \in Name, stage = "inputs", turn <= Len(request.inputs),
         stage' = stage, turn' = turn + 1, request' = request
  PROVE  /\ turn \in DOMAIN request.inputs
         /\ TakenHas(n)' = Has(n)[turn] + TakenHas(n)
         /\ TakenLoses(n)' = Loses(n)[turn] + TakenLoses(n)
<1>1. turn \in DOMAIN request.inputs /\ turn \in Nat
  BY InputType DEF TypeOK
<1>2. DOMAIN request.inputs \subseteq Nat /\ IsFiniteSet(Taken)
      /\ Taken \subseteq DOMAIN request.inputs
      /\ \A i \in DOMAIN request.inputs : Has(n)[i] \in Nat /\ Loses(n)[i] \in Int
  BY InputQuantities DEF TypeOK
<1>3. Taken' = Taken \cup {turn} /\ turn \notin Taken
  BY <1>1, <1>2 DEF Taken
<1>4. Has(n)' = Has(n) /\ Loses(n)' = Loses(n)
  BY DEF Has, Loses
<1>5. /\ \A i \in Taken \cup {turn} : Has(n)[i] \in Int
      /\ \A i \in Taken \cup {turn} : Loses(n)[i] \in Int
  BY <1>1, <1>2
<1>6. SumFunctionOnSet(Has(n), Taken \cup {turn}) = Has(n)[turn] + TakenHas(n)
  BY <1>2, <1>3, <1>5, SumAdd DEF TakenHas
<1>7. SumFunctionOnSet(Loses(n), Taken \cup {turn}) = Loses(n)[turn] + TakenLoses(n)
  BY <1>2, <1>3, <1>5, SumAdd DEF TakenLoses
<1>8. TakenHas(n)' = SumFunctionOnSet(Has(n), Taken \cup {turn})
      /\ TakenLoses(n)' = SumFunctionOnSet(Loses(n), Taken \cup {turn})
  BY <1>3, <1>4 DEF TakenHas, TakenLoses
<1> QED
  BY <1>1, <1>6, <1>7, <1>8

(* One without assets adds nothing.                                         *)
LEMMA NothingSpent ==
  ASSUME AssetIInv, SpendPlainInput
  PROVE  AssetsOk'
<1>1. /\ UNCHANGED <<request, held, sent, minted, stage>> /\ turn' = turn + 1
      /\ stage = "inputs" /\ turn <= Len(request.inputs)
      /\ Listed(request.inputs[turn].assets) = {}
  BY DEF SpendPlainInput
<1> SUFFICES ASSUME NEW n \in Name PROVE AssetOk(n)'
  BY DEF AssetsOk
<1>2. /\ turn \in DOMAIN request.inputs
      /\ TakenHas(n)' = Has(n)[turn] + TakenHas(n)
      /\ TakenLoses(n)' = Loses(n)[turn] + TakenLoses(n)
  BY <1>1, InputTaken DEF AssetIInv
<1>3. Has(n)[turn] \in Nat /\ TakenHas(n) \in Int /\ TakenLoses(n) \in Int
  BY <1>2, InputQuantities DEF AssetIInv, TypeOK
<1>4. Has(n)[turn] = 0
  BY <1>1, <1>2, <1>3 DEF Has, Listed
<1>5. Loses(n)[turn] = 0
  BY <1>2, <1>4 DEF Loses
<1>6. TakenHas(n)' = TakenHas(n) /\ TakenLoses(n)' = TakenLoses(n) /\ AsText(n)' = AsText(n)
  BY <1>2, <1>3, <1>4, <1>5 DEF AsText
<1>7. AssetOk(n)
  BY DEF AssetIInv, AssetsOk
<1> QED
  BY <1>1, <1>6, <1>7 DEF AssetOk

(* One with assets gives back to its address what it does not lose.         *)
LEMMA AssetsSpent ==
  ASSUME AssetIInv, SpendInputWithAssets
  PROVE  AssetsOk'
<1> DEFINE b == request.inputs[turn].assets
           back == Unburnt(b)
<1>1. /\ UNCHANGED <<request, minted, stage>> /\ turn' = turn + 1
      /\ stage = "inputs" /\ turn <= Len(request.inputs)
      /\ held' = Plus(held, Recorded(b)) /\ sent' = Plus(sent, Encoded(back))
  BY DEF SpendInputWithAssets
<1>2. b \in Bundle /\ back \in Bundle
  BY <1>1, InputType, UnburntType DEF AssetIInv, TypeOK
<1> SUFFICES ASSUME NEW n \in Name PROVE AssetOk(n)'
  BY DEF AssetsOk
<1>3. /\ turn \in DOMAIN request.inputs
      /\ TakenHas(n)' = Has(n)[turn] + TakenHas(n)
      /\ TakenLoses(n)' = Loses(n)[turn] + TakenLoses(n)
  BY <1>1, InputTaken DEF AssetIInv
<1>4. /\ b[n] \in Nat /\ Loses(n)[turn] \in Int /\ TakenHas(n) \in Int /\ TakenLoses(n) \in Int
      /\ request.outputs.assets[n] \in Int /\ request.burnouts[n] \in Int
  BY <1>2, <1>3, InputQuantities DEF AssetIInv, TypeOK, Bundle
<1>5. Has(n)[turn] = b[n]
  BY <1>3 DEF Has
<1>6. back[n] = b[n] - Loses(n)[turn]
  <2>1. back[n] = IF b[n] > 0 /\ b[n] + request.burnouts[n] > 0
                    THEN b[n] + request.burnouts[n] ELSE 0
    BY DEF Unburnt
  <2>2. Loses(n)[turn] = IF b[n] > 0 /\ b[n] > -request.burnouts[n]
                           THEN -request.burnouts[n] ELSE b[n]
    BY <1>3, <1>5 DEF Loses
  <2> HIDE DEF b, back
  <2> QED
    BY <1>4, <2>1, <2>2
<1>7. b \in [Name -> Int] /\ back \in [Name -> Int]
  BY <1>2, BundleIsInt
<1> HIDE DEF b, back
<1>8. AsText(n) \in Asset /\ <<n, "digits">> \in Asset
  BY <1>7, Lookups
<1>9. /\ held'[AsText(n)] = held[AsText(n)] + (IF n \in HexName THEN 0 ELSE b[n])
      /\ held'[<<n, "digits">>] = held[<<n, "digits">>] + (IF n \in HexName THEN b[n] ELSE 0)
      /\ sent'[AsText(n)] = sent[AsText(n)] + back[n]
      /\ sent'[<<n, "digits">>] = sent[<<n, "digits">>] + 0
  BY <1>1, <1>7, <1>8, Lookups DEF Plus
<1>10. /\ {sent[AsText(n)], held[AsText(n)], minted[AsText(n)]} \subseteq Int
       /\ {sent[<<n, "digits">>], held[<<n, "digits">>]} \subseteq Int
  BY <1>8 DEF AssetIInv, TypeOK, Quantities
<1>11. AssetOk(n)
  BY DEF AssetIInv, AssetsOk
<1>12. /\ held'[AsText(n)] = IF n \in HexName THEN 0 ELSE TakenHas(n)'
       /\ held'[<<n, "digits">>] = IF n \in HexName THEN TakenHas(n)' ELSE 0
  BY <1>3, <1>4, <1>5, <1>9, <1>11 DEF AssetOk
<1> DEFINE rest == IF n \in BlankName THEN request.outputs.assets[n] - request.burnouts[n] ELSE 0
<1>13. rest \in Int
  BY <1>4
<1>14. sent[AsText(n)] = minted[AsText(n)] + (TakenHas(n) - TakenLoses(n)) + rest
  BY <1>11 DEF AssetOk
<1> HIDE DEF rest
<1>15. sent'[AsText(n)] = minted[AsText(n)] + (TakenHas(n)' - TakenLoses(n)') + rest
  <2>1. /\ sent'[AsText(n)] = sent[AsText(n)] + (b[n] - Loses(n)[turn])
        /\ TakenHas(n)' = b[n] + TakenHas(n)
    BY <1>3, <1>5, <1>6, <1>9
  <2>2. \A m, h, l, r, c, k \in Int : (m + (h - l) + r) + (c - k) = m + ((c + h) - (k + l)) + r
    OBVIOUS
  <2> QED
    BY <1>3, <1>4, <1>10, <1>13, <1>14, <2>1, <2>2
<1>16. sent'[<<n, "digits">>] = sent[<<n, "digits">>]
  BY <1>9, <1>10
<1> QED
  BY <1>1, <1>11, <1>12, <1>15, <1>16 DEF AssetOk, AsText, rest

(* Every step keeps the invariant on assets.                                *)
LEMMA NextAssets == AssetIInv /\ [Next]_vars => AssetIInv'
<1> SUFFICES ASSUME AssetIInv, [Next]_vars PROVE AssetIInv'
  OBVIOUS
<1>1. TypeOK'
  BY NextTypeOK DEF AssetIInv
<1>2. MintOk'
  <2>1. CASE stage' \notin {"adjust", "built"}
    BY <2>1 DEF MintOk
  <2>2. CASE DraftBody
    BY <2>2 DEF DraftBody, MintOk, BuildTransactionMint
  <2>3. CASE stage' \in {"adjust", "built"} /\ ~DraftBody
    <3>1. stage \in {"adjust", "built"} /\ UNCHANGED <<minted, mint>>
      BY <2>3 DEF Next, vars, SpendPlainInput, SpendInputWithAssets, InputsDone,
           MintForRecipient, ChargeCommission, CommissionUnknown, DecideChange,
           AdjustChange, AdjustFeeOnly, KeepDraft
    <3> QED
      BY <3>1 DEF AssetIInv, MintOk, BuildTransactionMint
  <2> QED
    BY <2>1, <2>2, <2>3
<1> SUFFICES AssetsOk'
  BY <1>1, <1>2 DEF AssetIInv
<1>3. AssetsOk
  BY DEF AssetIInv
<1>4. CASE UNCHANGED vars
  BY <1>3, <1>4, AssetsUntouched DEF vars, Taken
<1>5. CASE SpendPlainInput
  BY <1>5, NothingSpent
<1>6. CASE SpendInputWithAssets
  BY <1>6, AssetsSpent
<1>7. CASE InputsDone
  <2>1. /\ UNCHANGED <<request, held, sent, minted>> /\ stage' # "inputs"
        /\ turn > Len(request.inputs)
    BY <1>7 DEF InputsDone
  <2>2. turn \in Nat /\ DOMAIN request.inputs = 1 .. Len(request.inputs)
        /\ Len(request.inputs) \in Nat
    BY RequestType, LenProperties DEF AssetIInv, TypeOK
  <2>3. Taken' = Taken
    BY <2>1, <2>2 DEF Taken
  <2> QED
    BY <1>3, <2>1, <2>3, AssetsUntouched
<1>8. CASE MintForRecipient
  <2>1. /\ UNCHANGED <<request, held, stage>> /\ stage # "inputs"
        /\ sent' = Plus(sent, Encoded(request.recipients[turn]))
        /\ minted' = Plus(minted, Encoded(request.recipients[turn]))
    BY <1>8 DEF MintForRecipient, MintFor
  <2>2. request.recipients[turn] \in [Name -> Int]
    BY <1>8, RecipientType, BundleIsInt DEF MintForRecipient, AssetIInv, TypeOK
  <2>3. Taken' = Taken
    BY <2>1 DEF Taken
  <2> QED
    BY <2>1, <2>2, <2>3, AssetsMinted
<1>9. CASE ChargeCommission
  <2> DEFINE tracking == [n \in Name |-> IF n = Tracking THEN mints ELSE 0]
  <2>1. /\ UNCHANGED <<request, held>> /\ stage # "inputs" /\ stage' # "inputs"
        /\ \/ UNCHANGED <<sent, minted>>
           \/ /\ sent' = Plus(sent, Encoded(tracking))
              /\ minted' = Plus(minted, Encoded(tracking))
    BY <1>9 DEF ChargeCommission
  <2>2. tracking \in [Name -> Int]
    BY DEF AssetIInv, TypeOK
  <2>3. Taken' = Taken
    BY <2>1 DEF Taken
  <2> QED
    BY <1>3, <2>1, <2>2, <2>3, AssetsMinted, AssetsUntouched
<1>10. CASE CommissionUnknown \/ DecideChange \/ DraftBody \/ AdjustChange \/ AdjustFeeOnly
              \/ KeepDraft
  <2>1. UNCHANGED <<request, held, sent, minted>> /\ stage # "inputs" /\ stage' # "inputs"
    BY <1>10 DEF CommissionUnknown, DecideChange, DraftBody, AdjustChange, AdjustFeeOnly, KeepDraft
  <2>2. Taken' = Taken
    BY <2>1 DEF Taken
  <2> QED
    BY <1>3, <2>1, <2>2, AssetsUntouched
<1> QED
  BY <1>4, <1>5, <1>6, <1>7, <1>8, <1>9, <1>10 DEF Next

(* What buildTx collects is balanced exactly if the asset is handled.       *)
LEMMA HandledIsBalanced ==
  ASSUME AssetIInv, stage = "built", NEW n \in Name
  PROVE  Handled(n) <=> /\ sent[AsText(n)] = held[AsText(n)] + minted[AsText(n)]
                        /\ sent[<<n, "digits">>] = held[<<n, "digits">>] + minted[<<n, "digits">>]
<1>1. Taken = DOMAIN request.inputs
  BY DEF Taken
<1>2. TakenHas(n) = Put(n) /\ TakenLoses(n) = Lost(n)
  BY <1>1 DEF TakenHas, TakenLoses, Put, Lost
<1>3. /\ Put(n) \in Int /\ Lost(n) \in Int
      /\ request.outputs.assets[n] \in Int /\ request.burnouts[n] \in Int
  BY <1>2, InputQuantities DEF AssetIInv, TypeOK
<1>4. minted[AsText(n)] \in Int
  BY DEF AssetIInv, TypeOK, Quantities, AsText, Asset
<1>5. AssetOk(n)
  BY DEF AssetIInv, AssetsOk
<1>6. CASE n \in HexName
  <2>1. n \notin BlankName
    BY <1>6, NameAssumption
  <2> QED
    BY <1>2, <1>3, <1>4, <1>5, <1>6, <2>1 DEF AssetOk, Handled
<1>7. CASE n \in BlankName
  <2>1. n \notin HexName
    BY <1>7, NameAssumption
  <2>2. Handled(n) <=> Lost(n) = request.outputs.assets[n] - request.burnouts[n]
    BY <1>7, <2>1 DEF Handled
  <2>3. /\ held[AsText(n)] = Put(n) /\ held[<<n, "digits">>] = 0
        /\ sent[<<n, "digits">>] = 0 /\ minted[<<n, "digits">>] = 0
        /\ sent[AsText(n)] = minted[AsText(n)] + (Put(n) - Lost(n))
                               + (request.outputs.assets[n] - request.burnouts[n])
    BY <1>2, <1>5, <1>7, <2>1 DEF AssetOk
  <2>4. \A m, p, l, x \in Int : m + (p - l) + x = p + m <=> l = x
    OBVIOUS
  <2>5. sent[AsText(n)] = held[AsText(n)] + minted[AsText(n)]
          <=> Lost(n) = request.outputs.assets[n] - request.burnouts[n]
    BY <1>3, <1>4, <2>3, <2>4
  <2> QED
    BY <2>2, <2>3, <2>5
<1>8. CASE n \notin HexName \cup BlankName
  BY <1>2, <1>3, <1>4, <1>5, <1>8 DEF AssetOk, Handled
<1> QED
  BY <1>6, <1>7, <1>8

(* In what is built, an asset is conserved exactly if the request handles   *)
(* it and what is minted of it is within the library's integers.            *)
THEOREM AssetsAreBalanced == Spec => []AssetsBalanced
<1>1. AssetIInv /\ [Next]_vars => AssetIInv'
  BY NextAssets
<1>2. AssetIInv => AssetsBalanced
  <2> SUFFICES ASSUME AssetIInv, stage = "built", NEW n \in Name, Handled(n) \/ Whole(n)
               PROVE  Balanced(AsText(n)) /\ Balanced(<<n, "digits">>) <=> Handled(n) /\ Whole(n)
    BY DEF AssetsBalanced
  <2> DEFINE text == AsText(n)
             digits == <<n, "digits">>
  <2>1. text \in Asset /\ digits \in Asset
    BY DEF AsText, Asset
  <2>2. /\ {minted[text], minted[digits], held[text], held[digits]} \subseteq Int
    BY <2>1 DEF AssetIInv, TypeOK, Quantities
  <2>3. mint[text] = NewI32(minted[text]) /\ mint[digits] = NewI32(minted[digits])
    BY <2>1 DEF AssetIInv, MintOk, BuildTransactionMint
  <2>4. \A m \in {minted[text], minted[digits]} :
          NewI32(m) \in Int /\ (NewI32(m) = m <=> Fits(m))
    <3> SUFFICES ASSUME NEW m \in Int PROVE NewI32(m) \in Int /\ (NewI32(m) = m <=> Fits(m))
      BY <2>2
    <3>1. NewI32(m) \in Int /\ Fits(NewI32(m)) /\ (Fits(m) => NewI32(m) = m)
      BY I32Facts
    <3> QED
      BY <3>1
  <2>5. Handled(n) <=> /\ sent[text] = held[text] + minted[text]
                       /\ sent[digits] = held[digits] + minted[digits]
    BY HandledIsBalanced
  <2>6. Whole(n) <=> mint[text] = minted[text] /\ mint[digits] = minted[digits]
    BY <2>3, <2>4 DEF Whole
  <2>7. mint[text] \in Int /\ mint[digits] \in Int
    BY <2>3, <2>4
  <2>8. /\ Balanced(text) <=> sent[text] = held[text] + mint[text]
        /\ Balanced(digits) <=> sent[digits] = held[digits] + mint[digits]
    BY DEF Balanced
  <2> HIDE DEF text, digits
  <2>9. \A h, m, k \in Int : h + m = h + k => m = k
    OBVIOUS
  <2>10. CASE Whole(n)
    BY <2>5, <2>6, <2>8, <2>10 DEF text, digits
  <2>11. CASE ~Whole(n)
    <3>1. Handled(n)
      BY <2>11
    <3>2. ~(Balanced(text) /\ Balanced(digits))
      <4> SUFFICES ASSUME Balanced(text), Balanced(digits) PROVE FALSE
        OBVIOUS
      <4>1. /\ sent[text] = held[text] + mint[text] /\ sent[text] = held[text] + minted[text]
            /\ sent[digits] = held[digits] + mint[digits]
            /\ sent[digits] = held[digits] + minted[digits]
        BY <2>5, <3>1 DEF Balanced
      <4>2. mint[text] = minted[text]
        BY <2>2, <2>7, <4>1, <2>9
      <4>3. mint[digits] = minted[digits]
        BY <2>2, <2>7, <4>1, <2>9
      <4> QED
        BY <2>6, <2>11, <4>2, <4>3
    <3> QED
      BY <2>11, <3>2 DEF text, digits
  <2> QED
    BY <2>10, <2>11 DEF text, digits
<1> QED
  BY InitAssets, <1>1, <1>2, PTL DEF Spec

-----------------------------------------------------------------------------
(* Submission, for any number of calls.                                     *)

(* The chain has the transaction exactly if it took one call's, and only    *)
(* one's; each client was told of its own call, or lost the answer.         *)
SubmissionInv ==
  /\ SubmissionTypeOK
  /\ accepted <=> \E d \in Call : call[d] = "taken"
  /\ \A c, d \in Call : call[c] = "taken" /\ call[d] = "taken" => c = d
  /\ \A c \in Call : /\ told[c] = "ok" => call[c] = "taken"
                     /\ told[c] = "error" => call[c] = "refused" \/ lost

(* The inductive invariant of submissions.                                  *)
THEOREM SubmissionInvariant == SubmissionSpec => []SubmissionInv
<1>1. SubmissionInit => SubmissionInv
  BY DEF SubmissionInit, SubmissionInv, SubmissionTypeOK
<1>2. SubmissionInv /\ [SubmissionNext]_calls => SubmissionInv'
  <2> SUFFICES ASSUME SubmissionInv, [SubmissionNext]_calls PROVE SubmissionInv'
    OBVIOUS
  <2>0. /\ call \in [Call -> {"idle", "sent", "taken", "refused"}]
        /\ told \in [Call -> {"nothing", "ok", "error"}]
        /\ accepted \in BOOLEAN /\ lost \in BOOLEAN
    BY DEF SubmissionInv, SubmissionTypeOK
  <2>1. ASSUME NEW c \in Call, SubmitTx(c) PROVE SubmissionInv'
    BY <2>0, <2>1 DEF SubmitTx, SubmissionInv, SubmissionTypeOK
  <2>2. ASSUME NEW c \in Call, NEW valid \in BOOLEAN, JudgeTx(c, valid) PROVE SubmissionInv'
    <3>1. CASE valid /\ ~accepted
      <4>1. accepted' = TRUE /\ call' = [call EXCEPT ![c] = "taken"] /\ UNCHANGED <<told, lost>>
        BY <2>2, <3>1 DEF JudgeTx
      <4> QED BY <2>0, <2>2, <3>1, <4>1 DEF JudgeTx, SubmissionInv, SubmissionTypeOK
    <3>2. CASE ~(valid /\ ~accepted)
      <4>1. /\ accepted' = accepted /\ call' = [call EXCEPT ![c] = "refused"]
            /\ UNCHANGED <<told, lost>>
        BY <2>0, <2>2, <3>2 DEF JudgeTx
      <4> QED BY <2>0, <2>2, <4>1 DEF JudgeTx, SubmissionInv, SubmissionTypeOK
    <3> QED BY <3>1, <3>2
  <2>3. ASSUME NEW c \in Call, AnswerTx(c) PROVE SubmissionInv'
    BY <2>0, <2>3 DEF AnswerTx, IsAnswer, SubmissionInv, SubmissionTypeOK
  <2>4. ASSUME NEW c \in Call, LoseTx(c) PROVE SubmissionInv'
    BY <2>0, <2>4 DEF LoseTx, SubmissionInv, SubmissionTypeOK
  <2>5. CASE UNCHANGED calls
    BY <2>5 DEF calls, SubmissionInv, SubmissionTypeOK
  <2> QED BY <2>1, <2>2, <2>3, <2>4, <2>5 DEF SubmissionNext
<1> QED BY <1>1, <1>2, PTL DEF SubmissionSpec

(* Success is told only of a transaction the chain has, an error of one it  *)
(* has only when an answer was lost or another call brought it there,       *)
(* whatever the node finds valid.                                           *)
THEOREM AnswersAreTrue == SubmissionSpec => []AnswerTrue
<1>1. SubmissionInv => AnswerTrue
  BY DEF SubmissionInv, AnswerTrue
<1> QED BY <1>1, SubmissionInvariant, PTL

-----------------------------------------------------------------------------
(* Paths: what is above them, and what is a tree.                           *)

(* The ways along a path are parts of one another, from the root down.      *)
LEMMA WayFacts ==
  ASSUME NEW S, NEW p \in Seq(S)
  PROVE  /\ p \in Way(p) /\ <<>> \in Way(p)
         /\ \A q \in Way(p) : /\ q \in Seq(S) /\ Len(q) <= Len(p) /\ Way(q) \subseteq Way(p)
                              /\ q # p => Len(q) < Len(p)
<1>0. Len(p) \in Nat /\ \A i \in 1 .. Len(p) : p[i] \in S
  BY LenProperties, ElementOfSeq
<1>1. SubSeq(p, 1, Len(p)) = p /\ SubSeq(p, 1, 0) = <<>>
  BY SubSeqFull, SubSeqEmpty
<1>2. p \in Way(p) /\ <<>> \in Way(p)
  <2>1. Len(p) \in 0 .. Len(p) /\ 0 \in 0 .. Len(p)
    BY <1>0
  <2>2. SubSeq(p, 1, Len(p)) \in Way(p) /\ SubSeq(p, 1, 0) \in Way(p)
    BY <2>1 DEF Way
  <2> QED BY <1>1, <2>2
<1>3. ASSUME NEW n \in 0 .. Len(p)
      PROVE  /\ SubSeq(p, 1, n) \in Seq(S) /\ Len(SubSeq(p, 1, n)) = n
             /\ \A i \in 1 .. n : SubSeq(p, 1, n)[i] = p[i]
  <2>1. \A i \in 1 .. n : p[i] \in S
    BY <1>0
  <2>2. /\ SubSeq(p, 1, n) \in Seq(S)
        /\ Len(SubSeq(p, 1, n)) = IF 1 <= n THEN n - 1 + 1 ELSE 0
        /\ \A i \in 1 .. n - 1 + 1 : SubSeq(p, 1, n)[i] = p[1 + i - 1]
    BY <2>1, SubSeqProperties
  <2> QED BY <2>2
<1>4. ASSUME NEW n \in 0 .. Len(p), NEW k \in 0 .. n
      PROVE  SubSeq(SubSeq(p, 1, n), 1, k) = SubSeq(p, 1, k)
  <2>1. CASE k = 0
    BY <2>1, SubSeqEmpty
  <2>2. CASE k > 0
    <3>1. n \in 1 .. Len(p) /\ 1 \in 1 .. Len(p) /\ k \in 1 .. n - 1 + 1 /\ 1 \in 1 .. n - 1 + 1
      BY <2>2, <1>0
    <3>2. SubSeq(SubSeq(p, 1, n), 1, k) = SubSeq(p, 1 + 1 - 1, 1 + k - 1)
      BY <3>1, SubSeqOfSubSeq
    <3> QED BY <3>2
  <2> QED BY <2>1, <2>2
<1>5. ASSUME NEW q \in Way(p)
      PROVE  /\ q \in Seq(S) /\ Len(q) <= Len(p) /\ Way(q) \subseteq Way(p)
             /\ q # p => Len(q) < Len(p)
  <2>1. PICK n \in 0 .. Len(p) : q = SubSeq(p, 1, n)
    BY DEF Way
  <2>2. q \in Seq(S) /\ Len(q) = n
    BY <2>1, <1>3
  <2>3. q # p => n # Len(p)
    BY <2>1, <1>1
  <2>4. ASSUME NEW a \in Way(q) PROVE a \in Way(p)
    <3>1. PICK k \in 0 .. n : a = SubSeq(q, 1, k)
      BY <2>2 DEF Way
    <3>2. a = SubSeq(p, 1, k) /\ k \in 0 .. Len(p)
      BY <3>1, <2>1, <1>4, <1>0
    <3> QED BY <3>2 DEF Way
  <2> QED BY <2>2, <2>3, <2>4, <1>0
<1> QED BY <1>2, <1>5

(* What is above a path on the way to p is above p.                         *)
LEMMA AboveFacts ==
  ASSUME NEW S, NEW p \in Seq(S), NEW q \in Way(p)
  PROVE  Above(q) \subseteq Above(p)
<1> SUFFICES ASSUME NEW a \in Above(q) PROVE a \in Above(p)
  OBVIOUS
<1>1. q \in Seq(S) /\ Len(q) <= Len(p) /\ Way(q) \subseteq Way(p)
  BY WayFacts
<1>2. a \in Way(q) /\ a # q
  BY DEF Above
<1>3. Len(a) < Len(q) /\ Len(a) \in Nat /\ Len(q) \in Nat /\ Len(p) \in Nat
  <2>1. a \in Seq(S) /\ Len(a) < Len(q)
    BY <1>1, <1>2, WayFacts
  <2> QED BY <2>1, <1>1, LenProperties
<1> QED BY <1>1, <1>2, <1>3 DEF Above

(* All that is above a part of p is p, or above p.                          *)
LEMMA AbovePart ==
  ASSUME NEW S, NEW q \in Seq(S), NEW p \in Above(q), Len(q) = Len(p) + 1
  PROVE  Above(q) \subseteq Way(p)
<1> SUFFICES ASSUME NEW a \in Above(q) PROVE a \in Way(p)
  OBVIOUS
<1>0. Len(q) \in Nat /\ \A i \in 1 .. Len(q) : q[i] \in S
  BY LenProperties, ElementOfSeq
<1>1. PICK n \in 0 .. Len(q) : p = SubSeq(q, 1, n)
  BY DEF Above, Way
<1>2. PICK k \in 0 .. Len(q) : a = SubSeq(q, 1, k)
  BY DEF Above, Way
<1>3. k # Len(q)
  BY <1>2, SubSeqFull DEF Above
<1>4. ASSUME NEW m \in 0 .. Len(q) PROVE Len(SubSeq(q, 1, m)) = m
  <2>1. \A i \in 1 .. m : q[i] \in S
    BY <1>0
  <2>2. Len(SubSeq(q, 1, m)) = IF 1 <= m THEN m - 1 + 1 ELSE 0
    BY <2>1, SubSeqProperties
  <2> QED BY <2>2
<1>5. Len(p) = n /\ n = Len(q) - 1
  BY <1>0, <1>1, <1>4
<1>6. k \in 0 .. n
  BY <1>0, <1>3, <1>5
<1>7. SubSeq(p, 1, k) = SubSeq(q, 1, k)
  <2>1. CASE k = 0
    BY <2>1, SubSeqEmpty
  <2>2. CASE k > 0
    <3>1. n \in 1 .. Len(q) /\ 1 \in 1 .. Len(q) /\ k \in 1 .. n - 1 + 1 /\ 1 \in 1 .. n - 1 + 1
      BY <2>2, <1>0, <1>6
    <3>2. SubSeq(SubSeq(q, 1, n), 1, k) = SubSeq(q, 1 + 1 - 1, 1 + k - 1)
      BY <3>1, SubSeqOfSubSeq
    <3>3. 1 + 1 - 1 = 1 /\ 1 + k - 1 = k
      BY <1>0, <1>2
    <3> QED BY <3>2, <3>3, <1>1
  <2>3. k = 0 \/ k > 0
    BY <1>0, <1>1, <1>6
  <2> QED BY <2>1, <2>2, <2>3
<1> QED BY <1>2, <1>5, <1>6, <1>7 DEF Way

(* The part of a tree on some of its paths is a tree, when it has the root  *)
(* and all on the way to what it has.                                       *)
LEMMA SubTree ==
  ASSUME NEW S, NEW t, IsTree(t, S), NEW u, DOMAIN u \subseteq DOMAIN t, <<>> \in DOMAIN u,
         \A p \in DOMAIN u : Way(p) \subseteq DOMAIN u
  PROVE  IsTree(u, S)
BY FS_Subset DEF IsTree

-----------------------------------------------------------------------------
(* Native scripts: what is built of them, returned, and built again.        *)

(* What is built of a part keeps its kind, and has a key or a slot of its   *)
(* own.                                                                     *)
LEMMA PartFacts ==
  ASSUME NEW n \in JsonScript, NEW current \in Seq(Int), NEW new \in Key,
         current # <<>> => current[1] \in Int
  PROVE  LET part == BuildPart(n, current, new)
         IN  /\ part.root \in Root /\ part.root.kind = n.type
             /\ part.keyHash \in Key /\ part.slot \in Int
             /\ n.type = "sig" => /\ part.made = {part.keyHash} \ {n.keyHash}
                                  /\ part.keyHash = (IF n.keyHash = NoKey THEN new ELSE n.keyHash)
                                  /\ part.root = SigRoot(part.keyHash)
             /\ n.type \in Groups =>
                  part.root = GroupRoot(n.type, IF n.type = "atLeast" THEN n.require ELSE 0)
             /\ n.type \in Locks =>
                  part.slot = SlotOf(n, current) /\ part.root = LockRoot(n.type, part.slot)
             /\ n.type \notin Locks => part.slot = 0
             /\ n.type # "sig" => part.keyHash = NoKey /\ part.made = {}
<1>1. NoKey \in Key
  <2>1. <<>> \in Seq(Position)
    BY EmptySeq
  <2> QED BY <2>1 DEF NoKey, NewKey, Key, Maker
<1>2. /\ n.type \in {"sig"} \cup Groups \cup Locks /\ n.keyHash \in Key /\ n.slot \in Int
      /\ n.require \in Int /\ n.lockTime \in Seq(Int)
  BY DEF JsonScript, LockTime
<1>3. n.lockTime = <<>> \/ n.lockTime[1] \in Int
  BY <1>2, EmptySeq, ElementOfSeq, LenProperties
<1>4. SlotOf(n, current) \in Int
  BY <1>2, <1>3 DEF SlotOf
<1>5. CASE n.type = "sig"
  BY <1>1, <1>2, <1>5 DEF BuildPart, SigRoot, Root, Groups, Locks
<1>6. CASE n.type \in Groups
  <2> DEFINE k == IF n.type = "atLeast" THEN n.require ELSE 0
  <2>1. n.type # "sig" /\ n.type \notin Locks
    BY <1>6 DEF Groups, Locks
  <2>2. BuildPart(n, current, new) =
          [root |-> GroupRoot(n.type, k), keyHash |-> NoKey, made |-> {}, slot |-> 0]
    BY <1>6, <2>1 DEF BuildPart
  <2>3. k \in Int
    BY <1>2
  <2> HIDE DEF k
  <2>4. GroupRoot(n.type, k) \in Root /\ GroupRoot(n.type, k).kind = n.type
    BY <1>1, <1>6, <2>3 DEF GroupRoot, Root
  <2> QED BY <1>1, <1>6, <2>1, <2>2, <2>4 DEF k
<1>7. CASE n.type \in Locks
  <2>1. n.type # "sig" /\ n.type \notin Groups
    BY <1>7 DEF Groups, Locks
  <2>2. BuildPart(n, current, new) =
          [root |-> LockRoot(n.type, SlotOf(n, current)), keyHash |-> NoKey, made |-> {},
           slot |-> SlotOf(n, current)]
    BY <1>7, <2>1 DEF BuildPart
  <2>3. /\ LockRoot(n.type, SlotOf(n, current)) \in Root
        /\ LockRoot(n.type, SlotOf(n, current)).kind = n.type
    BY <1>1, <1>4, <1>7 DEF LockRoot, Root
  <2> QED BY <1>1, <1>4, <1>7, <2>1, <2>2, <2>3
<1> QED BY <1>2, <1>5, <1>6, <1>7

(* The paths of a JSON script whose parts are built.                        *)
Visited(j) == {p \in DOMAIN j : \A a \in Above(p) : j[a].type # "sig"}

(* What is built at each path, and the root on the grouped ones, a tree.    *)
LEMMA ScriptFacts ==
  ASSUME NEW j, IsJsonScript(j), NEW current, NEW who
  PROVE  LET s == BuildPolicyScript(j, current, who)
         IN  /\ DOMAIN s.parts = Visited(j) /\ DOMAIN s.root = Grouped(j)
             /\ Grouped(j) \subseteq Visited(j) /\ <<>> \in Grouped(j)
             /\ \A p \in Visited(j) :
                  /\ s.parts[p] = BuildPart(j[p], current, NewKey(who, p))
                  /\ Way(p) \subseteq Visited(j) /\ p \in DOMAIN j /\ j[p] \in JsonScript
                  /\ p \in Seq(Position)
             /\ \A p \in Grouped(j) :
                  s.root[p] = s.parts[p].root /\ Way(p) \subseteq Grouped(j)
<1> DEFINE s == BuildPolicyScript(j, current, who)
<1>1. /\ s.parts = [p \in Visited(j) |-> BuildPart(j[p], current, NewKey(who, p))]
      /\ s.root = [p \in Grouped(j) |-> s.parts[p].root]
  BY DEF BuildPolicyScript, Visited
<1>2. /\ DOMAIN j \subseteq Seq(Position) /\ <<>> \in DOMAIN j
      /\ \A p \in DOMAIN j : j[p] \in JsonScript /\ Way(p) \subseteq DOMAIN j
  BY DEF IsJsonScript, IsTree
<1>3. Above(<<>>) = {}
  <2>1. 0 .. Len(<<>>) = {0} /\ SubSeq(<<>>, 1, 0) = <<>>
    BY SubSeqEmpty
  <2> QED BY <2>1 DEF Above, Way
<1>4. Grouped(j) \subseteq Visited(j) /\ <<>> \in Grouped(j)
  BY <1>2, <1>3 DEF Grouped, Visited, Groups
<1>5. ASSUME NEW p \in DOMAIN j, NEW q \in Way(p) PROVE Above(q) \subseteq Above(p)
  BY <1>2, AboveFacts
<1>6. \A p \in Visited(j) : Way(p) \subseteq Visited(j)
  BY <1>2, <1>5 DEF Visited
<1>7. \A p \in Grouped(j) : Way(p) \subseteq Grouped(j)
  BY <1>2, <1>5 DEF Grouped
<1>8. \A p \in Visited(j) : p \in DOMAIN j /\ j[p] \in JsonScript /\ p \in Seq(Position)
  BY <1>2 DEF Visited
<1> HIDE DEF s
<1>9. /\ DOMAIN s.parts = Visited(j) /\ DOMAIN s.root = Grouped(j)
      /\ \A p \in Visited(j) : s.parts[p] = BuildPart(j[p], current, NewKey(who, p))
      /\ \A p \in Grouped(j) : s.root[p] = s.parts[p].root
  BY <1>1
<1> QED BY <1>4, <1>6, <1>7, <1>8, <1>9 DEF s

(* The root of a script is a tree of the ledger's.                          *)
LEMMA RootIsTree ==
  ASSUME NEW j, IsJsonScript(j), NEW current \in Seq(Int), NEW who \in Maker,
         current # <<>> => current[1] \in Int
  PROVE  LET r == BuildPolicyScript(j, current, who).root
         IN  IsTree(r, Position) /\ \A p \in DOMAIN r : r[p] \in Root
<1> DEFINE s == BuildPolicyScript(j, current, who)
<1>1. /\ DOMAIN s.root = Grouped(j) /\ Grouped(j) \subseteq Visited(j) /\ <<>> \in Grouped(j)
      /\ \A p \in Visited(j) : /\ s.parts[p] = BuildPart(j[p], current, NewKey(who, p))
                               /\ j[p] \in JsonScript /\ p \in Seq(Position)
      /\ \A p \in Grouped(j) : s.root[p] = s.parts[p].root /\ Way(p) \subseteq Grouped(j)
  BY ScriptFacts
<1>2. IsTree(j, Position) /\ Grouped(j) \subseteq DOMAIN j
  BY DEF IsJsonScript, Grouped
<1> HIDE DEF s
<1>3. IsTree(s.root, Position)
  BY <1>1, <1>2, SubTree
<1>4. ASSUME NEW p \in Visited(j) PROVE s.parts[p].root \in Root
  <2>1. NewKey(who, p) \in Key
    BY <1>1 DEF NewKey, Key, Maker
  <2> QED BY <1>1, <2>1, PartFacts
<1> QED BY <1>1, <1>3, <1>4 DEF s

(* The script returned: what each of its parts is.                          *)
LEMMA ReturnedParts ==
  ASSUME NEW j, IsJsonScript(j), NEW current \in Seq(Int), NEW who \in Maker,
         current # <<>> => current[1] \in Int, who # "nobody"
  PROVE  LET s == BuildPolicyScript(j, current, who)
             back == PolicyScriptToJson(s)
         IN  /\ DOMAIN back = Visited(j)
             /\ \A p \in Visited(j) :
                  /\ back[p] \in JsonScript /\ back[p].type = j[p].type
                  /\ back[p].lockTime = <<>> /\ back[p].slot = s.parts[p].slot
                  /\ back[p].keyHash = s.parts[p].keyHash
                  /\ back[p].require = s.parts[p].root.n
                  /\ j[p].type = "sig" => back[p].keyHash # NoKey
<1> DEFINE s == BuildPolicyScript(j, current, who)
           back == PolicyScriptToJson(s)
<1>1. /\ DOMAIN s.parts = Visited(j)
      /\ \A p \in Visited(j) : /\ s.parts[p] = BuildPart(j[p], current, NewKey(who, p))
                               /\ j[p] \in JsonScript /\ p \in Seq(Position)
  BY ScriptFacts
<1>2. back = [p \in DOMAIN s.parts |->
               [type |-> s.parts[p].root.kind, keyHash |-> s.parts[p].keyHash,
                slot |-> s.parts[p].slot, lockTime |-> <<>>, require |-> s.parts[p].root.n]]
  BY DEF PolicyScriptToJson
<1> HIDE DEF s, back
<1>3. DOMAIN back = Visited(j)
  BY <1>1, <1>2
<1>4. ASSUME NEW p \in Visited(j)
      PROVE  /\ back[p] \in JsonScript /\ back[p].type = j[p].type
             /\ back[p].lockTime = <<>> /\ back[p].slot = s.parts[p].slot
             /\ back[p].keyHash = s.parts[p].keyHash
             /\ back[p].require = s.parts[p].root.n
             /\ j[p].type = "sig" => back[p].keyHash # NoKey
  <2>1. back[p] = [type |-> s.parts[p].root.kind, keyHash |-> s.parts[p].keyHash,
                   slot |-> s.parts[p].slot, lockTime |-> <<>>, require |-> s.parts[p].root.n]
    BY <1>1, <1>2
  <2>2. NewKey(who, p) \in Key /\ NewKey(who, p) # NoKey
    BY <1>1 DEF NewKey, NoKey, Key, Maker
  <2>3. /\ s.parts[p].root \in Root /\ s.parts[p].root.kind = j[p].type
        /\ s.parts[p].keyHash \in Key /\ s.parts[p].slot \in Int
        /\ j[p].type = "sig" =>
             s.parts[p].keyHash = IF j[p].keyHash = NoKey THEN NewKey(who, p) ELSE j[p].keyHash
    BY <1>1, <2>2, PartFacts
  <2>4. s.parts[p].root.n \in Int /\ <<>> \in LockTime
    BY <2>3, EmptySeq DEF Root, LockTime
  <2>5. j[p].type \in {"sig"} \cup Groups \cup Locks
    BY <1>1 DEF JsonScript
  <2>6. back[p] \in JsonScript
    BY <2>1, <2>3, <2>4, <2>5 DEF JsonScript
  <2> QED BY <2>1, <2>2, <2>3, <2>6
<1> QED BY <1>3, <1>4 DEF s, back

(* The script returned is complete.                                         *)
LEMMA ReturnedIsComplete ==
  ASSUME NEW j, IsJsonScript(j), NEW current \in Seq(Int), NEW who \in Maker,
         current # <<>> => current[1] \in Int, who # "nobody"
  PROVE  IsComplete(PolicyScriptToJson(BuildPolicyScript(j, current, who)))
<1> DEFINE back == PolicyScriptToJson(BuildPolicyScript(j, current, who))
<1>1. /\ DOMAIN back = Visited(j)
      /\ \A p \in Visited(j) :
           /\ back[p] \in JsonScript /\ back[p].type = j[p].type /\ back[p].lockTime = <<>>
           /\ j[p].type = "sig" => back[p].keyHash # NoKey
  BY ReturnedParts
<1>2. /\ <<>> \in Visited(j) /\ Visited(j) \subseteq DOMAIN j
      /\ \A p \in Visited(j) : Way(p) \subseteq Visited(j)
  BY ScriptFacts DEF Visited
<1>3. IsTree(j, Position) /\ DOMAIN j \subseteq Seq(Position)
  BY DEF IsJsonScript, IsTree
<1> HIDE DEF back
<1>4. IsTree(back, Position)
  BY <1>1, <1>2, <1>3, SubTree
<1>5. ASSUME NEW p \in Visited(j), j[p].type \in Groups PROVE Parts(back, p) # {}
  <2>1. PICK q \in DOMAIN j : Len(q) = Len(p) + 1 /\ p \in Above(q)
    BY <1>2, <1>5 DEF IsJsonScript, Parts
  <2>2. Above(q) \subseteq Way(p)
    BY <1>3, <2>1, AbovePart
  <2>3. \A a \in Above(q) : a = p \/ a \in Above(p)
    BY <2>2 DEF Above
  <2>4. \A a \in Above(q) : j[a].type # "sig"
    BY <2>3, <1>5 DEF Visited, Groups
  <2>5. q \in Visited(j)
    BY <2>1, <2>4 DEF Visited
  <2> QED BY <2>1, <2>5, <1>1 DEF Parts
<1> QED BY <1>1, <1>4, <1>5 DEF IsComplete, IsJsonScript, back

(* The script of the ledger that a complete JSON script stands for.         *)
Written(j) ==
  [p \in Grouped(j) |->
     CASE j[p].type = "sig" -> SigRoot(j[p].keyHash)
       [] j[p].type \in Groups ->
            GroupRoot(j[p].type, IF j[p].type = "atLeast" THEN j[p].require ELSE 0)
       [] j[p].type \in Locks -> LockRoot(j[p].type, j[p].slot)]

(* The kinds of parts are different.                                        *)
LEMMA Kinds == "sig" \notin Groups /\ "sig" \notin Locks /\ Groups \cap Locks = {}
BY DEF Groups, Locks

(* Building a complete script gives the same root whoever asks and when.    *)
LEMMA CompleteRoot ==
  ASSUME NEW j, IsComplete(j), NEW current \in Seq(Int), NEW who \in Maker,
         current # <<>> => current[1] \in Int
  PROVE  BuildPolicyScript(j, current, who).root = Written(j)
<1> DEFINE s == BuildPolicyScript(j, current, who)
<1>0. IsJsonScript(j)
  BY DEF IsComplete
<1>1. /\ Grouped(j) \subseteq Visited(j) /\ DOMAIN s.root = Grouped(j)
      /\ \A p \in Visited(j) : /\ s.parts[p] = BuildPart(j[p], current, NewKey(who, p))
                               /\ p \in DOMAIN j /\ j[p] \in JsonScript /\ p \in Seq(Position)
      /\ \A p \in Grouped(j) : s.root[p] = s.parts[p].root
  BY <1>0, ScriptFacts
<1>f. s.root = [p \in Grouped(j) |-> s.root[p]]
  BY DEF BuildPolicyScript
<1> HIDE DEF s
<1>2. ASSUME NEW p \in Grouped(j) PROVE s.root[p] = Written(j)[p]
  <2>2. /\ j[p] \in JsonScript /\ j[p].lockTime = <<>> /\ p \in Seq(Position)
        /\ j[p].type = "sig" => j[p].keyHash # NoKey
        /\ s.parts[p] = BuildPart(j[p], current, NewKey(who, p)) /\ s.root[p] = s.parts[p].root
    BY <1>1 DEF IsComplete
  <2>3. NewKey(who, p) \in Key
    BY <2>2 DEF NewKey, Key, Maker
  <2>4. /\ j[p].type = "sig" => /\ s.parts[p].keyHash = (IF j[p].keyHash = NoKey
                                                           THEN NewKey(who, p) ELSE j[p].keyHash)
                                /\ s.parts[p].root = SigRoot(s.parts[p].keyHash)
        /\ j[p].type \in Groups =>
             s.parts[p].root =
               GroupRoot(j[p].type, IF j[p].type = "atLeast" THEN j[p].require ELSE 0)
        /\ j[p].type \in Locks =>
             /\ s.parts[p].slot = SlotOf(j[p], current)
             /\ s.parts[p].root = LockRoot(j[p].type, s.parts[p].slot)
    BY <2>2, <2>3, PartFacts
  <2>5. j[p].slot \in Int /\ j[p].type \in {"sig"} \cup Groups \cup Locks
    BY <2>2 DEF JsonScript
  <2>6. SlotOf(j[p], current) = j[p].slot
    BY <2>2, <2>5 DEF SlotOf
  <2>7. CASE j[p].type = "sig"
    BY <2>2, <2>4, <2>7, Kinds DEF Written
  <2>8. CASE j[p].type \in Groups
    BY <2>2, <2>4, <2>8, Kinds DEF Written
  <2>9. CASE j[p].type \in Locks
    BY <2>2, <2>4, <2>6, <2>9, Kinds DEF Written
  <2> QED BY <2>5, <2>7, <2>8, <2>9
<1> QED BY <1>1, <1>2, <1>f DEF s, Written

(* The script returned stands for the one that was built.                   *)
LEMMA ReturnedRoot ==
  ASSUME NEW j, IsJsonScript(j), NEW current \in Seq(Int), NEW who \in Maker,
         current # <<>> => current[1] \in Int, who # "nobody"
  PROVE  LET s == BuildPolicyScript(j, current, who)
         IN  s.root = Written(PolicyScriptToJson(s))
<1> DEFINE s == BuildPolicyScript(j, current, who)
           back == PolicyScriptToJson(s)
<1>1. /\ Grouped(j) \subseteq Visited(j) /\ DOMAIN s.root = Grouped(j)
      /\ \A p \in Visited(j) : /\ s.parts[p] = BuildPart(j[p], current, NewKey(who, p))
                               /\ p \in DOMAIN j /\ j[p] \in JsonScript /\ p \in Seq(Position)
                               /\ Way(p) \subseteq Visited(j)
      /\ \A p \in Grouped(j) : s.root[p] = s.parts[p].root
  BY ScriptFacts
<1>2. /\ DOMAIN back = Visited(j)
      /\ \A p \in Visited(j) :
           /\ back[p].type = j[p].type /\ back[p].slot = s.parts[p].slot
           /\ back[p].keyHash = s.parts[p].keyHash /\ back[p].require = s.parts[p].root.n
  BY ReturnedParts
<1>f. s.root = [p \in Grouped(j) |-> s.root[p]]
  BY DEF BuildPolicyScript
<1> HIDE DEF s, back
<1>3. \A p \in Visited(j) : Above(p) \subseteq Visited(j)
  BY <1>1 DEF Above
<1>4. Grouped(back) = Grouped(j)
  <2>1. \A p \in Visited(j) : p \in Grouped(back) <=> p \in Grouped(j)
    BY <1>1, <1>2, <1>3 DEF Grouped
  <2>2. Grouped(back) \subseteq Visited(j)
    BY <1>2 DEF Grouped
  <2> QED BY <1>1, <2>1, <2>2
<1>5. ASSUME NEW p \in Grouped(j) PROVE s.root[p] = Written(back)[p]
  <2>1. /\ p \in Visited(j) /\ p \in Grouped(back) /\ NewKey(who, p) \in Key
        /\ j[p].type \in {"sig"} \cup Groups \cup Locks
    BY <1>1, <1>4 DEF NewKey, Key, Maker, JsonScript
  <2>2. /\ j[p].type = "sig" => s.parts[p].root = SigRoot(s.parts[p].keyHash)
        /\ j[p].type \in Groups =>
             s.parts[p].root =
               GroupRoot(j[p].type, IF j[p].type = "atLeast" THEN j[p].require ELSE 0)
        /\ j[p].type \in Locks => s.parts[p].root = LockRoot(j[p].type, s.parts[p].slot)
    BY <1>1, <2>1, PartFacts
  <2>7. CASE j[p].type = "sig"
    BY <1>1, <1>2, <2>1, <2>2, <2>7, Kinds DEF Written
  <2>8. CASE j[p].type \in Groups
    <3>1. j[p].type = "atLeast" => back[p].require = j[p].require
      BY <1>2, <2>1, <2>2, <2>8 DEF GroupRoot
    <3> QED BY <1>1, <1>2, <2>1, <2>2, <2>8, <3>1, Kinds DEF Written
  <2>9. CASE j[p].type \in Locks
    BY <1>1, <1>2, <2>1, <2>2, <2>9, Kinds DEF Written
  <2> QED BY <2>1, <2>7, <2>8, <2>9
<1> QED BY <1>1, <1>4, <1>5, <1>f DEF s, back, Written

(* An evaluation passes on what Ogmios writes of the script itself.         *)
LEMMA PassedOnClause ==
  ASSUME NEW j, IsComplete(j)
  PROVE  InnerNativeScript(j) = Clause(Written(j))
<1> DEFINE r == Written(j)
           Inner(p) ==
             CASE j[p].type = "sig" -> [clause |-> "signature", from |-> j[p].keyHash]
               [] j[p].type \in {"all", "any"} -> [clause |-> j[p].type]
               [] j[p].type = "atLeast" -> [clause |-> "some", atLeast |-> j[p].require]
               [] j[p].type \in Locks -> [clause |-> j[p].type, slot |-> j[p].slot]
           Outer(p) ==
             CASE r[p].kind = "sig" -> [clause |-> "signature", from |-> r[p].key]
               [] r[p].kind \in {"all", "any"} -> [clause |-> r[p].kind]
               [] r[p].kind = "atLeast" -> [clause |-> "some", atLeast |-> r[p].n]
               [] r[p].kind \in Locks -> [clause |-> r[p].kind, slot |-> r[p].slot]
<1>1. DOMAIN r = Grouped(j)
  BY DEF Written
<1>2. ASSUME NEW p \in Grouped(j) PROVE Inner(p) = Outer(p)
  <2>1. j[p].type \in {"sig"} \cup Groups \cup Locks
    BY DEF IsComplete, IsJsonScript, JsonScript, Grouped
  <2>2. CASE j[p].type = "sig"
    BY <2>2 DEF Written, SigRoot, Groups, Locks
  <2>3. CASE j[p].type \in {"all", "any"}
    BY <2>3 DEF Written, GroupRoot, Groups, Locks
  <2>4. CASE j[p].type = "atLeast"
    BY <2>4 DEF Written, GroupRoot, Groups, Locks
  <2>5. CASE j[p].type \in Locks
    BY <2>5 DEF Written, LockRoot, Groups, Locks
  <2> QED BY <2>1, <2>2, <2>3, <2>4, <2>5 DEF Groups
<1>3. InnerNativeScript(j) = [p \in Grouped(j) |-> Inner(p)]
  BY DEF InnerNativeScript
<1>4. Clause(r) = [p \in DOMAIN r |-> Outer(p)]
  BY DEF Clause
<1> HIDE DEF Inner, Outer, r
<1>5. InnerNativeScript(j) = Clause(r)
  BY <1>1, <1>2, <1>3, <1>4
<1> QED BY <1>5 DEF r

(* A script of which every signature is there, every group has the parts it *)
(* asks for and every lock is open holds: all its parts do.                 *)
LEMMA AllHold ==
  ASSUME NEW r, IsTree(r, Position), \A p \in DOMAIN r : r[p] \in Root,
         ~AsksTooMuch(r), NEW signers, RequiredSigners(r) \subseteq signers, NEW ttl,
         \A p \in DOMAIN r : /\ r[p].kind = "after" => r[p].slot <= 0
                             /\ r[p].kind = "before" => ttl <= r[p].slot
  PROVE  Holds(r, signers, ttl)
<1>0. \A p \in DOMAIN r : /\ r[p].kind = "after" => r[p].slot <= 0
                          /\ r[p].kind = "before" => ttl <= r[p].slot
  OBVIOUS
<1>1. ASSUME NEW p \in DOMAIN r
      PROVE  CASE r[p].kind = "sig" -> r[p].key \in signers
               [] r[p].kind = "all" -> Parts(r, p) \cap DOMAIN r = Parts(r, p)
               [] r[p].kind = "any" -> Parts(r, p) \cap DOMAIN r # {}
               [] r[p].kind = "atLeast" -> Cardinality(Parts(r, p) \cap DOMAIN r) >= r[p].n
               [] r[p].kind = "after" -> r[p].slot <= 0
               [] r[p].kind = "before" -> ttl <= r[p].slot
  <2>1. Parts(r, p) \cap DOMAIN r = Parts(r, p)
    BY DEF Parts
  <2>2. Cardinality(Parts(r, p)) \in Nat
    BY FS_Subset, FS_CardinalityType DEF Parts, IsTree
  <2>3. r[p].n \in Int /\ r[p].kind \in {"sig"} \cup Groups \cup Locks
    BY DEF Root
  <2>4. r[p].kind = "sig" => r[p].key \in signers
    BY DEF RequiredSigners
  <2>5. /\ r[p].kind = "any" => Parts(r, p) # {}
        /\ r[p].kind = "atLeast" => Cardinality(Parts(r, p)) >= r[p].n
    BY <2>2, <2>3 DEF AsksTooMuch
  <2>6. /\ r[p].kind = "after" => r[p].slot <= 0
        /\ r[p].kind = "before" => ttl <= r[p].slot
    BY <1>0
  <2>7. CASE r[p].kind = "sig" BY <2>4, <2>7
  <2>8. CASE r[p].kind = "all" BY <2>1, <2>8
  <2>9. CASE r[p].kind = "any" BY <2>1, <2>5, <2>9
  <2>10. CASE r[p].kind = "atLeast" BY <2>1, <2>5, <2>10
  <2>11. CASE r[p].kind = "after" BY <2>6, <2>11
  <2>12. CASE r[p].kind = "before" BY <2>6, <2>12
  <2> QED BY <2>3, <2>7, <2>8, <2>9, <2>10, <2>11, <2>12 DEF Groups, Locks
<1>2. AreHolding(DOMAIN r, r, signers, ttl)
  BY <1>1 DEF AreHolding
<1>3. <<>> \in DOMAIN r
  BY DEF IsTree
<1> QED BY <1>2, <1>3 DEF Holds

(* The time to live that a complete script gives is the slot of its lock,   *)
(* where it has one that is no part of a part.                              *)
LEMMA ExpireFacts ==
  ASSUME NEW j, IsComplete(j)
  PROVE  /\ ExpireSlot(j) \in Int
         /\ LET r == Written(j) IN
              /\ 0 \notin LocksIn(r, "before")
              /\ \A s, u \in LocksIn(r, "before") : s = u
              /\ \A p \in DOMAIN r : Len(p) > 1 => r[p].kind # "before"
              => \A p \in DOMAIN r : r[p].kind = "before" => ExpireSlot(j) = r[p].slot
<1> DEFINE r == Written(j)
           own == {q \in DOMAIN j : Len(q) = 1 /\ j[q].type = "before"}
           slots == {j[p].slot : p \in own}
<1>1. /\ IsTree(j, Position) /\ <<>> \in DOMAIN j
      /\ \A p \in DOMAIN j : j[p] \in JsonScript /\ j[p].slot \in Int /\ p \in Seq(Position)
  BY DEF IsComplete, IsJsonScript, IsTree, JsonScript
<1>2. IsFiniteSet(Slots(j, "before")) /\ Slots(j, "before") \subseteq Int
  <2>1. IsFiniteSet(own)
    BY <1>1, FS_Subset DEF IsTree
  <2>2. IsFiniteSet(slots)
    <3> DEFINE f == [p \in own |-> j[p].slot]
    <3>1. IsFiniteSet({f[p] : p \in own})
      <4> HIDE DEF f, own
      <4> QED BY <2>1, ImageIsFinite
    <3>2. {f[p] : p \in own} = slots
      OBVIOUS
    <3> QED BY <3>1, <3>2
  <2>3. Slots(j, "before") = slots \ {0}
    BY DEF Slots
  <2>4. slots \subseteq Int
    BY <1>1
  <2> HIDE DEF slots
  <2> QED BY <2>2, <2>3, <2>4, FS_Subset
<1>3. Slots(j, "before") # {} =>
        LET m == CHOOSE s \in Slots(j, "before") : \A u \in Slots(j, "before") : s >= u
        IN  m \in Slots(j, "before")
  BY <1>2, GreatestInteger
<1>4. FindScriptExpireSlot(j) \in Int
  <2>1. CASE j[<<>>].type = "before"
    BY <1>1, <2>1 DEF FindScriptExpireSlot
  <2>2. CASE j[<<>>].type # "before" /\ Slots(j, "before") = {}
    BY <2>2 DEF FindScriptExpireSlot
  <2>3. CASE j[<<>>].type # "before" /\ Slots(j, "before") # {}
    BY <1>2, <1>3, <2>3 DEF FindScriptExpireSlot
  <2> QED BY <2>1, <2>2, <2>3
<1>5. ExpireSlot(j) \in Int
  BY <1>4 DEF ExpireSlot, MaxSlot
<1> HIDE DEF r, own, slots
<1>6. ASSUME 0 \notin LocksIn(r, "before"), \A s, u \in LocksIn(r, "before") : s = u,
             \A p \in DOMAIN r : Len(p) > 1 => r[p].kind # "before",
             NEW p \in DOMAIN r, r[p].kind = "before"
      PROVE  ExpireSlot(j) = r[p].slot
  <2>1. ASSUME NEW q \in DOMAIN r
        PROVE  /\ q \in DOMAIN j /\ q \in Grouped(j)
               /\ r[q].kind = j[q].type
               /\ r[q].kind = "before" => r[q].slot = j[q].slot
    <3>1. q \in Grouped(j) /\ q \in DOMAIN j
      BY DEF r, Written, Grouped
    <3>2. j[q].type \in {"sig"} \cup Groups \cup Locks
      BY <1>1, <3>1 DEF JsonScript
    <3>3. CASE j[q].type = "sig"
      BY <3>1, <3>3, Kinds DEF r, Written, SigRoot
    <3>4. CASE j[q].type \in Groups
      BY <3>1, <3>4, Kinds DEF r, Written, GroupRoot, Groups
    <3>5. CASE j[q].type \in Locks
      BY <3>1, <3>5, Kinds DEF r, Written, LockRoot
    <3> QED BY <3>1, <3>2, <3>3, <3>4, <3>5
  <2>2. r[p].slot = j[p].slot /\ j[p].type = "before" /\ j[p].slot # 0
    BY <1>6, <2>1 DEF LocksIn
  <2>3. Len(p) \in Nat /\ ~(Len(p) > 1) /\ p \in DOMAIN j /\ p \in Seq(Position)
    BY <1>1, <1>6, <2>1, LenProperties
  <2>4. CASE p = <<>>
    BY <2>2, <2>4 DEF ExpireSlot, FindScriptExpireSlot
  <2>5. CASE p # <<>>
    <3>1. Len(p) = 1
      <4>1. Len(p) = 0 => p = <<>>
        BY <2>3, EmptySeq
      <4>2. Len(p) # 0
        BY <2>5, <4>1
      <4>3. Len(p) \in Nat /\ ~(Len(p) > 1)
        BY <2>3
      <4>4. \A n \in Nat : n # 0 /\ ~(n > 1) => n = 1
        OBVIOUS
      <4> QED BY <4>2, <4>3, <4>4, Zenon
    <3>2. <<>> \in Above(p)
      BY <2>3, <2>5, WayFacts DEF Above
    <3>3. j[<<>>].type \in Groups
      BY <2>1, <3>2 DEF Grouped
    <3>4. j[<<>>].type # "before"
      BY <3>3 DEF Groups
    <3>5. j[p].slot \in Slots(j, "before")
      BY <2>2, <2>3, <3>1 DEF Slots
    <3>6. ASSUME NEW q \in DOMAIN j, Len(q) = 1, j[q].type = "before" PROVE q \in DOMAIN r
      <4>1. ASSUME NEW a \in Above(q) PROVE a = <<>>
        <5>1. q \in Seq(Position) /\ a \in Way(q) /\ a # q
          BY <1>1 DEF Above
        <5>2. a \in Seq(Position) /\ Len(a) < 1
          BY <5>1, <3>6, WayFacts
        <5>3. Len(a) \in Nat
          BY <5>2, LenProperties
        <5> QED BY <5>2, <5>3, EmptySeq
      <4> QED BY <4>1, <3>3 DEF r, Written, Grouped
    <3>7. \A s \in Slots(j, "before") : s = j[p].slot
      <4> SUFFICES ASSUME NEW q \in DOMAIN j, Len(q) = 1, j[q].type = "before"
                   PROVE  j[q].slot = j[p].slot
        BY DEF Slots
      <4>1. q \in DOMAIN r /\ r[q].kind = "before" /\ r[q].slot = j[q].slot
        BY <2>1, <3>6
      <4> QED BY <1>6, <2>2, <4>1 DEF LocksIn
    <3>8. FindScriptExpireSlot(j) = j[p].slot
      BY <1>3, <3>4, <3>5, <3>7 DEF FindScriptExpireSlot
    <3> QED BY <2>2, <3>8 DEF ExpireSlot
  <2> QED BY <2>4, <2>5
<1> QED BY <1>5, <1>6 DEF r

-----------------------------------------------------------------------------
(* Metadata: merging, and reading back what was written.                    *)

(* What is known of each value of metadata.                                 *)
LEMMA MetadataFacts ==
  ASSUME NEW x, IsMetadata(x), NEW p \in DOMAIN x
  PROVE  /\ p \in Seq(STRING) /\ Way(p) \subseteq DOMAIN x /\ p \in Way(p)
         /\ x[p] \in Container \cup Leaf /\ \A a \in Above(p) : x[a] \in Container
<1>1. p \in Seq(STRING) /\ Way(p) \subseteq DOMAIN x
  BY DEF IsMetadata, IsTree
<1>2. p \in Way(p)
  BY <1>1, WayFacts
<1> QED BY <1>1, <1>2 DEF IsMetadata

(* What is merged is of one or the other.                                   *)
LEMMA MergeType ==
  ASSUME NEW x, IsMetadata(x), NEW y, IsMetadata(y), NEW p \in DOMAIN Merge(x, y)
  PROVE  Merge(x, y)[p] \in Container \cup Leaf
<1>1. /\ p \in DOMAIN x => x[p] \in Container \cup Leaf
      /\ p \in DOMAIN y => y[p] \in Container \cup Leaf
  BY MetadataFacts
<1> QED BY <1>1 DEF Merge

(* Nothing of the second is lost, unless it has a map over a list.          *)
LEMMA MergeSecond ==
  ASSUME NEW x, IsMetadata(x), NEW y, IsMetadata(y), ~Hides(x, y), NEW p \in DOMAIN y
  PROVE  p \in DOMAIN Merge(x, y) /\ Merge(x, y)[p] = y[p]
<1>1. Way(p) \subseteq DOMAIN y
  BY MetadataFacts
<1>2. ASSUME NEW q \in Way(p), Parting(x, y, q) PROVE ~KeepsFirst(x, y, q)
  BY <1>1, <1>2 DEF Parting, KeepsFirst, Hides
<1> QED BY <1>2 DEF Merge

(* Nothing of the first is lost, unless the two disagree.                   *)
LEMMA MergeFirst ==
  ASSUME NEW x, IsMetadata(x), NEW y, IsMetadata(y), Agree(x, y), NEW p \in DOMAIN x
  PROVE  p \in DOMAIN Merge(x, y) /\ Merge(x, y)[p] = x[p]
<1>1. /\ Way(p) \subseteq DOMAIN x /\ p \in Way(p)
      /\ x[p] \in Container \cup Leaf /\ \A a \in Above(p) : x[a] \in Container
  BY MetadataFacts
<1>2. ASSUME NEW q \in Way(p), Parting(x, y, q), q \in DOMAIN y PROVE q = p /\ x[p] = y[p]
  <2>1. x[q] = y[q]
    BY <1>1, <1>2 DEF Agree
  <2>2. x[q] \notin Container
    BY <1>1, <1>2, <2>1 DEF Parting, Joined
  <2>3. q = p
    BY <1>1, <2>2 DEF Above
  <2> QED BY <2>1, <2>3
<1>3. CASE \E q \in Way(p) : Parting(x, y, q) /\ q \in DOMAIN y
  <2>1. Parting(x, y, p) /\ p \in DOMAIN y /\ x[p] = y[p]
    BY <1>2, <1>3
  <2>2. ~KeepsFirst(x, y, p)
    BY <2>1 DEF KeepsFirst
  <2>3. \A q \in Way(p) : Parting(x, y, q) => q = p
    BY <2>1 DEF Parting, Above
  <2> QED BY <1>1, <2>1, <2>2, <2>3 DEF Merge
<1>4. CASE ~\E q \in Way(p) : Parting(x, y, q) /\ q \in DOMAIN y
  <2>1. \A q \in Way(p) : Parting(x, y, q) => KeepsFirst(x, y, q)
    BY <1>4 DEF KeepsFirst
  <2>2. p \in DOMAIN y => x[p] = y[p]
    BY DEF Agree
  <2> QED BY <2>1, <2>2 DEF Merge
<1> QED BY <1>3, <1>4

(* One value on its way to a transaction and back.                          *)
LEMMA ValueFacts ==
  ASSUME NEW v \in Container \cup Leaf, GetMetadataObject(v) # <<"nothing">>
  PROVE  /\ Carries(GetTransactionMetadatum(GetMetadataObject(v)), v)
         /\ GetMetadataObject(ReverseMetadataObject(GetMetadataObject(v))) = GetMetadataObject(v)
<1>1. CASE v \in {"number"} \X Int
  <2>1. v = <<"number", v[2]>> /\ v[2] \in Int /\ v[1] = "number"
    BY <1>1
  <2>2. GetMetadataObject(v) = <<"int", v[2]>>
    BY <2>1 DEF GetMetadataObject, Text, Container
  <2>3. GetTransactionMetadatum(<<"int", v[2]>>) = <<"int", NewI32(v[2])>>
    BY DEF GetTransactionMetadatum, Container
  <2>4. ReverseMetadataObject(<<"int", v[2]>>) = <<"number", v[2]>>
    BY DEF ReverseMetadataObject, Container
  <2>5. Fits(v[2]) => NewI32(v[2]) = v[2]
    BY <2>1, I32Facts
  <2>6. Carries(<<"int", NewI32(v[2])>>, v)
    <3> DEFINE d == <<"int", NewI32(v[2])>>
    <3>1. d[1] = "int" /\ d[2] = NewI32(v[2])
      OBVIOUS
    <3>2. v[1] \notin Text /\ v \notin Container
      BY <2>1 DEF Text, Container
    <3> HIDE DEF d
    <3>3. Carries(d, v)
      BY <2>1, <2>5, <3>1, <3>2 DEF Carries
    <3> QED BY <3>3 DEF d
  <2> QED BY <2>1, <2>2, <2>3, <2>4, <2>6
<1>2. CASE v \in Text \X STRING
  <2>1. v[2] \in STRING /\ v[1] \in Text /\ v = <<v[1], v[2]>>
    BY <1>2
  <2>2. v[1] # "number" /\ v \notin Container
    BY <2>1 DEF Text, Container
  <2>3. GetMetadataObject(v) = <<"string", v[2]>> /\ v[2] \notin LongText
    BY <2>1, <2>2 DEF GetMetadataObject
  <2>4. GetTransactionMetadatum(<<"string", v[2]>>) = <<"text", v[2]>>
    BY DEF GetTransactionMetadatum, Container
  <2>5. ReverseMetadataObject(<<"string", v[2]>>) = <<"string", v[2]>>
    BY DEF ReverseMetadataObject
  <2>6. GetMetadataObject(<<"string", v[2]>>) = <<"string", v[2]>>
    BY <2>3 DEF GetMetadataObject, Text
  <2>7. Carries(<<"text", v[2]>>, v)
    BY <2>1, <2>2 DEF Carries
  <2> QED BY <2>3, <2>4, <2>5, <2>6, <2>7
<1>3. CASE v \in Container
  <2>1. v[1] \notin Text /\ v[1] \notin {"number", "int", "nothing"}
    BY <1>3 DEF Container, Text
  <2>2. GetMetadataObject(v) = v
    BY <1>3, <2>1 DEF GetMetadataObject
  <2>3. v[1] # "string"
    BY <2>1 DEF Text
  <2>4. GetTransactionMetadatum(v) = v
    BY <1>3, <2>1, <2>3 DEF GetTransactionMetadatum
  <2>6. ReverseMetadataObject(v) = v
    BY <1>3, <2>1, <2>3 DEF ReverseMetadataObject
  <2>5. Carries(v, v)
    BY <1>3, <2>1 DEF Carries
  <2> QED BY <2>2, <2>4, <2>5, <2>6
<1> QED BY <1>1, <1>2, <1>3 DEF Leaf

(* Metadata that is written comes back as it was when it is read.           *)
LEMMA RoundTrip ==
  ASSUME NEW z, \A p \in DOMAIN z : z[p] \in Container \cup Leaf, ~Throws(ConstructMetadata(z))
  PROVE  ConstructMetadata(ReverseMetadata(ConstructMetadata(z))) = ConstructMetadata(z)
<1> DEFINE m == ConstructMetadata(z)
           b == ReverseMetadata(m)
<1>1. /\ DOMAIN m = {q \in DOMAIN z : q # <<>> /\ q[1] \in Labels}
      /\ \A p \in DOMAIN m : m[p] = GetMetadataObject(z[p]) /\ p \in DOMAIN z /\ p # <<>>
      /\ \A p \in DOMAIN m : p[1] \in Labels
  BY DEF ConstructMetadata
<1>2. \A p \in DOMAIN m : m[p] # <<"nothing">>
  BY DEF Throws
<1>3. /\ DOMAIN b = DOMAIN m \cup {<<>>}
      /\ \A p \in DOMAIN m : b[p] = ReverseMetadataObject(m[p])
  BY <1>1 DEF ReverseMetadata
<1>4. m = [p \in DOMAIN m |-> m[p]]
  BY DEF ConstructMetadata
<1>5. ConstructMetadata(b) = [p \in {q \in DOMAIN b : q # <<>> /\ q[1] \in Labels} |->
                                GetMetadataObject(b[p])]
  BY DEF ConstructMetadata
<1> HIDE DEF m, b
<1>6. {q \in DOMAIN b : q # <<>> /\ q[1] \in Labels} = DOMAIN m
  BY <1>1, <1>3
<1>7. \A p \in DOMAIN m : GetMetadataObject(b[p]) = m[p]
  BY <1>1, <1>2, <1>3, ValueFacts
<1>8. ConstructMetadata(b) = m
  BY <1>4, <1>5, <1>6, <1>7
<1> QED BY <1>8 DEF m, b

(* What the first or the second has under a label is carried.               *)
LEMMA MetadataCarried ==
  ASSUME NEW z, \A p \in DOMAIN z : z[p] \in Container \cup Leaf, ~Throws(ConstructMetadata(z)),
         NEW p \in DOMAIN z, p # <<>>, p[1] \in Labels
  PROVE  LET d == BuildTransactionMetadata(ConstructMetadata(z))
         IN  p \in DOMAIN d /\ Carries(d[p], z[p])
<1> DEFINE m == ConstructMetadata(z)
<1>1. p \in DOMAIN m /\ m[p] = GetMetadataObject(z[p])
  BY DEF ConstructMetadata
<1>2. m[p] # <<"nothing">>
  BY <1>1 DEF Throws
<1>3. Carries(GetTransactionMetadatum(m[p]), z[p])
  <2> HIDE DEF m
  <2> QED BY <1>1, <1>2, ValueFacts
<1> HIDE DEF m
<1>4. /\ p \in DOMAIN BuildTransactionMetadata(m)
      /\ BuildTransactionMetadata(m)[p] = GetTransactionMetadatum(m[p])
  BY <1>1 DEF BuildTransactionMetadata
<1> QED BY <1>3, <1>4 DEF m

-----------------------------------------------------------------------------
(* Minting, for all scripts, burns and metadata.                            *)

(* Every key of a script is held, as a text.                                *)
Held(j) ==
  \A p \in DOMAIN j : j[p].type = "sig" => \E t \in keys : GetPrivateKey(t) = j[p].keyHash

TextsOk ==
  /\ IsFiniteSet(keys) /\ Owned \subseteq keys
  /\ \A t, u \in keys : GetPrivateKey(t) = GetPrivateKey(u) => t = u

(* Before a script is built there is nothing of it.                         *)
StartOk ==
  phase = "script" =>
    json \in Script /\ keys = Owned /\ policy = <<>> /\ address = <<>> /\ passedOn = <<>>

(* Afterwards the client has a complete script, which stands for the policy,*)
(* and every key of it.                                                     *)
ScriptOk ==
  phase # "script" => IsComplete(json) /\ Held(json) /\ policy = <<Written(json)>>

ShownOk ==
  /\ address # <<>> => address[1] = [payment |-> GetScriptHash(policy[1]),
                                     stake |-> GetScriptHash(policy[1])]
  /\ passedOn # <<>> => passedOn[1] = Clause(policy[1])

(* The transaction that is built of these keys.                             *)
SignedBy(given) == Build(New(Roots, given), Ttl, BuildTransactionMetadata(TxMetadata))

BuiltOk ==
  phase = "built" =>
    /\ ~Throws(TxMetadata)
    /\ \E given \in Given : signed = <<SignedBy(given)>> /\ (honest => given = KeysFor(Needed))

MintIInv == MintTypeOK /\ TextsOk /\ StartOk /\ ScriptOk /\ ShownOk /\ BuiltOk

(* What the client gets with a script built: texts of its new keys.         *)
LEMMA NewTexts ==
  ASSUME NEW j \in Script, NEW current \in Seq(Int), current # <<>> => current[1] \in Int
  PROVE  LET s == BuildPolicyScript(j, current, "wallet")
             all == Owned \cup {<<"xprv1", k>> : k \in GetScriptKeys(s)}
             back == PolicyScriptToJson(s)
         IN  /\ IsFiniteSet(all)
             /\ \A t, u \in all : GetPrivateKey(t) = GetPrivateKey(u) => t = u
             /\ \A p \in DOMAIN back : back[p].type = "sig" =>
                  \E t \in all : GetPrivateKey(t) = back[p].keyHash
<1> DEFINE s == BuildPolicyScript(j, current, "wallet")
           back == PolicyScriptToJson(s)
           made == {<<"xprv1", k>> : k \in GetScriptKeys(s)}
           all == Owned \cup made
<1>0. IsJsonScript(j) /\ "wallet" \in Maker /\ "wallet" # "nobody"
  BY ScriptAssumption DEF Maker
<1>1. /\ DOMAIN s.parts = Visited(j) /\ Visited(j) \subseteq DOMAIN j
      /\ \A p \in Visited(j) :
           /\ s.parts[p] = BuildPart(j[p], current, NewKey("wallet", p))
           /\ j[p] \in JsonScript /\ p \in Seq(Position)
  BY <1>0, ScriptFacts DEF Visited
<1>2. /\ DOMAIN back = Visited(j)
      /\ \A p \in Visited(j) : back[p].type = j[p].type /\ back[p].keyHash = s.parts[p].keyHash
  BY <1>0, ReturnedParts
<1>3. GetScriptKeys(s) = UNION {s.parts[p].made : p \in Visited(j)}
  BY <1>1 DEF GetScriptKeys
<1> HIDE DEF s, back
<1>4. ASSUME NEW p \in Visited(j)
      PROVE  /\ s.parts[p].made =
                  IF j[p].type = "sig" /\ j[p].keyHash = NoKey THEN {NewKey("wallet", p)} ELSE {}
             /\ j[p].type = "sig" => s.parts[p].keyHash =
                  IF j[p].keyHash = NoKey THEN NewKey("wallet", p) ELSE j[p].keyHash
  <2>1. NewKey("wallet", p) \in Key /\ NewKey("wallet", p) # NoKey
    BY <1>1 DEF NewKey, NoKey, Key, Maker
  <2>2. j[p].type \in {"sig"} \cup Groups \cup Locks
    BY <1>1 DEF JsonScript
  <2>3. /\ j[p].type = "sig" => /\ s.parts[p].made = {s.parts[p].keyHash} \ {j[p].keyHash}
                                /\ s.parts[p].keyHash =
                                     IF j[p].keyHash = NoKey THEN NewKey("wallet", p)
                                     ELSE j[p].keyHash
        /\ j[p].type # "sig" => s.parts[p].made = {}
    BY <1>1, <2>1, PartFacts
  <2> QED BY <2>1, <2>3
<1>5. IsFiniteSet(GetScriptKeys(s))
  <2> DEFINE g == [p \in Visited(j) |-> NewKey("wallet", p)]
             new == {g[p] : p \in Visited(j)}
  <2>1. IsFiniteSet(Visited(j))
    BY <1>0, <1>1, FS_Subset DEF IsJsonScript, IsTree
  <2>2. \A p \in Visited(j) : s.parts[p].made \subseteq new
    BY <1>4
  <2>3. GetScriptKeys(s) \subseteq new
    BY <1>3, <2>2
  <2> HIDE DEF g
  <2>4. IsFiniteSet(new)
    BY <2>1, ImageIsFinite
  <2> HIDE DEF new
  <2> QED BY <2>3, <2>4, FS_Subset
<1>6. IsFiniteSet(made)
  <2> DEFINE g == [k \in GetScriptKeys(s) |-> <<"xprv1", k>>]
  <2>1. {g[k] : k \in GetScriptKeys(s)} = made
    OBVIOUS
  <2> HIDE DEF g, made
  <2> QED BY <1>5, <2>1, ImageIsFinite
<1>7. IsFiniteSet(all)
  <2> HIDE DEF made
  <2> QED BY <1>6, OwnedAssumption, FS_Union
<1>8. \A t \in made : GetPrivateKey(t).by = "wallet" /\ t = <<"xprv1", GetPrivateKey(t)>>
  <2> SUFFICES ASSUME NEW k \in GetScriptKeys(s) PROVE k.by = "wallet"
    BY DEF GetPrivateKey
  <2>1. PICK p \in Visited(j) : k \in s.parts[p].made
    BY <1>3
  <2>2. CASE j[p].type = "sig" /\ j[p].keyHash = NoKey
    <3>1. s.parts[p].made = {NewKey("wallet", p)}
      BY <1>4, <2>2
    <3> QED BY <2>1, <3>1 DEF NewKey
  <2>3. CASE ~(j[p].type = "sig" /\ j[p].keyHash = NoKey)
    <3>1. s.parts[p].made = {}
      BY <1>4, <2>3
    <3> QED BY <2>1, <3>1
  <2> QED BY <2>2, <2>3
<1>9. \A t, u \in all : GetPrivateKey(t) = GetPrivateKey(u) => t = u
  <2> HIDE DEF made
  <2> SUFFICES ASSUME NEW t \in all, NEW u \in all, GetPrivateKey(t) = GetPrivateKey(u) PROVE t = u
    OBVIOUS
  <2>1. CASE t \in Owned /\ u \in Owned
    BY <2>1, OwnedAssumption
  <2>2. CASE t \in made /\ u \in made
    BY <2>2, <1>8
  <2>3. CASE t \in Owned /\ u \in made
    BY <2>3, <1>8, OwnedAssumption
  <2>4. CASE t \in made /\ u \in Owned
    BY <2>4, <1>8, OwnedAssumption
  <2> QED BY <2>1, <2>2, <2>3, <2>4
<1>10. ASSUME NEW p \in DOMAIN back, back[p].type = "sig"
       PROVE  \E t \in all : GetPrivateKey(t) = back[p].keyHash
  <2>1. /\ p \in Visited(j) /\ p \in DOMAIN j /\ j[p].type = "sig"
        /\ back[p].keyHash = IF j[p].keyHash = NoKey THEN NewKey("wallet", p) ELSE j[p].keyHash
    BY <1>1, <1>2, <1>4, <1>10
  <2>2. CASE j[p].keyHash # NoKey
    <3>1. \E t \in Owned : GetPrivateKey(t) = j[p].keyHash
      BY <2>1, <2>2, OwnedAssumption
    <3> QED BY <2>1, <2>2, <3>1
  <2>3. CASE j[p].keyHash = NoKey
    <3>1. NewKey("wallet", p) \in GetScriptKeys(s)
      BY <1>3, <1>4, <2>1, <2>3
    <3>2. <<"xprv1", NewKey("wallet", p)>> \in all
      BY <3>1
    <3>3. GetPrivateKey(<<"xprv1", NewKey("wallet", p)>>) = back[p].keyHash
      BY <2>1, <2>3 DEF GetPrivateKey
    <3> QED BY <3>2, <3>3
  <2> QED BY <2>2, <2>3
<1> HIDE DEF all
<1> QED BY <1>7, <1>9, <1>10 DEF all, s, back

(* The root of a complete script in a transaction.                          *)
LEMMA BuiltRootIsWritten ==
  ASSUME NEW j, IsComplete(j)
  PROVE  BuiltRoot(j) = Written(j)
<1> DEFINE current == <<0>>
<1>1. current \in Seq(Int) /\ current[1] \in Int
  OBVIOUS
<1>2. "build" \in Maker
  BY DEF Maker
<1>3. BuiltRoot(j) = BuildPolicyScript(j, current, "build").root
  BY DEF BuiltRoot
<1> HIDE DEF current
<1> QED BY <1>1, <1>2, <1>3, CompleteRoot

(* The scripts of a transaction, one by one.                                *)
LEMMA RootsFacts ==
  ASSUME burn \in Burn, IsComplete(json), charged \in BOOLEAN
  PROVE  /\ Len(burn) \in Nat /\ DOMAIN burn = 1 .. Len(burn)
         /\ DOMAIN Roots = 1 .. (Len(burn) + IF charged THEN 2 ELSE 1)
         /\ \A i \in 1 .. Len(burn) :
              IsComplete(burn[i]) /\ burn[i] \in Burnt /\ Roots[i] = Written(burn[i])
         /\ Roots[Len(burn) + 1] = Written(json)
         /\ charged => Roots[Len(burn) + 2] = ServerRoot
<1> DEFINE b == [i \in DOMAIN burn |-> BuiltRoot(burn[i])]
           m == <<BuiltRoot(json)>>
           c == IF charged THEN <<ServerRoot>> ELSE <<>>
           S == {b[i] : i \in DOMAIN burn} \cup {BuiltRoot(json), ServerRoot}
<1>1. /\ burn \in Seq(Burnt) /\ Len(burn) \in Nat /\ DOMAIN burn = 1 .. Len(burn)
      /\ \A i \in 1 .. Len(burn) : burn[i] \in Burnt
  BY BurnAssumption
<1>2. \A i \in 1 .. Len(burn) : IsComplete(burn[i]) /\ BuiltRoot(burn[i]) = Written(burn[i])
  BY <1>1, BurnAssumption, BuiltRootIsWritten
<1>3. BuiltRoot(json) = Written(json)
  BY BuiltRootIsWritten
<1>4. b \in Seq(S) /\ Len(b) = Len(burn)
  BY <1>1
<1>5. m \in Seq(S) /\ Len(m) = 1 /\ m[1] = BuiltRoot(json)
  OBVIOUS
<1>6. c \in Seq(S) /\ Len(c) = (IF charged THEN 1 ELSE 0) /\ (charged => c[1] = ServerRoot)
  <2>1. CASE charged
    <3>1. c = <<ServerRoot>>
      BY <2>1
    <3>2. <<ServerRoot>> \in Seq(S) /\ Len(<<ServerRoot>>) = 1
      OBVIOUS
    <3> QED BY <2>1, <3>1, <3>2
  <2>2. CASE ~charged
    <3>1. c = <<>>
      BY <2>2
    <3>2. <<>> \in Seq(S) /\ Len(<<>>) = 0
      BY EmptySeq
    <3> QED BY <2>2, <3>1, <3>2
  <2> QED BY <2>1, <2>2
<1>7. Roots = b \o m \o c
  BY DEF Roots
<1>8. \A i \in 1 .. Len(burn) : b[i] = BuiltRoot(burn[i])
  BY <1>1
<1> HIDE DEF b, m, c, S
<1>9. /\ b \o m \in Seq(S) /\ Len(b \o m) = Len(burn) + 1
      /\ \A i \in 1 .. Len(burn) + 1 : (b \o m)[i] = IF i <= Len(burn) THEN b[i] ELSE m[i - Len(burn)]
  <2>1. /\ b \o m \in Seq(S) /\ Len(b \o m) = Len(b) + Len(m)
        /\ \A i \in 1 .. Len(b) + Len(m) :
             (b \o m)[i] = IF i <= Len(b) THEN b[i] ELSE m[i - Len(b)]
    BY <1>4, <1>5, ConcatProperties
  <2> QED BY <1>4, <1>5, <2>1
<1>10. /\ Roots \in Seq(S) /\ Len(Roots) = Len(burn) + 1 + Len(c)
       /\ \A i \in 1 .. Len(Roots) :
            Roots[i] = IF i <= Len(burn) + 1 THEN (b \o m)[i] ELSE c[i - (Len(burn) + 1)]
  <2> DEFINE d == b \o m
  <2>1. d \in Seq(S) /\ Len(d) = Len(burn) + 1 /\ Roots = d \o c
    BY <1>7, <1>9
  <2> HIDE DEF d
  <2>2. /\ d \o c \in Seq(S) /\ Len(d \o c) = Len(d) + Len(c)
        /\ \A i \in 1 .. Len(d) + Len(c) :
             (d \o c)[i] = IF i <= Len(d) THEN d[i] ELSE c[i - Len(d)]
    BY <1>6, <2>1, ConcatProperties
  <2> QED BY <2>1, <2>2 DEF d
<1>11. DOMAIN Roots = 1 .. (Len(burn) + IF charged THEN 2 ELSE 1)
  BY <1>1, <1>6, <1>10
<1>12. \A i \in 1 .. Len(burn) : Roots[i] = Written(burn[i])
  <2> TAKE i \in 1 .. Len(burn)
  <2>1. i \in 1 .. Len(Roots) /\ i <= Len(burn) /\ i <= Len(burn) + 1 /\ i \in 1 .. Len(burn) + 1
    BY <1>1, <1>6, <1>10
  <2>2. Roots[i] = (b \o m)[i] /\ (b \o m)[i] = b[i]
    BY <1>9, <1>10, <2>1
  <2> QED BY <1>2, <1>8, <2>2
<1>13. Roots[Len(burn) + 1] = Written(json)
  <2> DEFINE i == Len(burn) + 1
  <2>1. i \in 1 .. Len(Roots) /\ ~(i <= Len(burn)) /\ i <= i /\ i \in 1 .. i /\ i - Len(burn) = 1
    BY <1>1, <1>6, <1>10
  <2>2. Roots[i] = (b \o m)[i] /\ (b \o m)[i] = m[1]
    BY <1>9, <1>10, <2>1
  <2> QED BY <1>3, <1>5, <2>2
<1>14. ASSUME charged PROVE Roots[Len(burn) + 2] = ServerRoot
  <2> DEFINE i == Len(burn) + 2
  <2>1. i \in 1 .. Len(Roots) /\ ~(i <= Len(burn) + 1) /\ i - (Len(burn) + 1) = 1
    BY <1>1, <1>6, <1>10, <1>14
  <2>2. Roots[i] = c[1]
    BY <1>10, <2>1
  <2> QED BY <1>6, <1>14, <2>2
<1> QED BY <1>1, <1>2, <1>11, <1>12, <1>13, <1>14

(* What a transaction is built of depends on the request and the wallet.    *)
LEMMA Unchanged ==
  ASSUME UNCHANGED <<wish, wallet>>
  PROVE  /\ Roots' = Roots /\ Ttl' = Ttl /\ Needed' = Needed /\ TxMetadata' = TxMetadata
         /\ KeysFor(Needed)' = KeysFor(Needed) /\ Given' = Given
         /\ \A given : SignedBy(given)' = SignedBy(given)
<1>1. /\ json' = json /\ burn' = burn /\ cargo' = cargo /\ charged' = charged
      /\ keys' = keys /\ policy' = policy
  BY DEF wish, wallet
<1>2. Roots' = Roots
  BY <1>1 DEF Roots
<1>3. Ttl' = Ttl
  BY <1>1 DEF Ttl
<1>4. Needed' = Needed
  BY <1>1, <1>2 DEF Needed
<1>5. TxMetadata' = TxMetadata
  BY <1>1 DEF TxMetadata
<1>6. KeysFor(Needed)' = KeysFor(Needed)
  BY <1>1, <1>4 DEF KeysFor
<1>7. Given' = Given
  BY <1>6 DEF Given
<1>8. \A given : SignedBy(given)' = SignedBy(given)
  BY <1>1, <1>2, <1>3, <1>5 DEF SignedBy, Build, New
<1> QED BY <1>2, <1>3, <1>4, <1>5, <1>6, <1>7, <1>8

(* Every step of a mint is one of its submission, or none.                  *)
LEMMA MintStepSubmits ==
  ASSUME [MintNext]_mintVars
  PROVE  [SubmissionNext]_calls
<1>1. \A t : Valid(t) \in BOOLEAN
  BY DEF Valid
<1>2. CASE BuildNativeScript \/ GetNativeScriptAddress \/ EvaluateTx \/ Evaluated \/ Tick
  BY <1>2 DEF BuildNativeScript, GetNativeScriptAddress, EvaluateTx, Evaluated, Tick
<1>3. CASE \E given \in Given : BuildTx(given)
  BY <1>3 DEF BuildTx
<1>4. CASE \E c \in Call : Submit(c) \/ Judge(c) \/ Answer(c) \/ Lose(c)
  BY <1>1, <1>4 DEF Submit, Judge, Answer, Lose, SubmissionNext
<1>5. CASE UNCHANGED mintVars
  BY <1>5 DEF mintVars, calls
<1> QED BY <1>2, <1>3, <1>4, <1>5 DEF MintNext

(* The submissions of a mint are those of Submission.                       *)
THEOREM MintingSubmits == MintSpec => SubmissionSpec
<1>1. MintInit => SubmissionInit
  BY DEF MintInit
<1>2. [MintNext]_mintVars => [SubmissionNext]_calls
  BY MintStepSubmits
<1> QED BY <1>1, <1>2, PTL DEF MintSpec, SubmissionSpec

(* Success is told only of a mint the chain has, whatever the node finds.   *)
COROLLARY MintAnswersAreTrue == MintSpec => []AnswerTrue
BY MintingSubmits, AnswersAreTrue, PTL

(* The types of a submission are kept.                                      *)
LEMMA SubmissionTypeStep ==
  ASSUME SubmissionTypeOK, [SubmissionNext]_calls
  PROVE  SubmissionTypeOK'
<1>1. ASSUME NEW c \in Call, SubmitTx(c) PROVE SubmissionTypeOK'
  BY <1>1 DEF SubmitTx, SubmissionTypeOK
<1>2. ASSUME NEW c \in Call, NEW valid \in BOOLEAN, JudgeTx(c, valid) PROVE SubmissionTypeOK'
  <2>1. accepted' \in BOOLEAN
    BY <1>2 DEF JudgeTx, SubmissionTypeOK
  <2>2. call' \in [Call -> {"idle", "sent", "taken", "refused"}]
    BY <1>2 DEF JudgeTx, SubmissionTypeOK
  <2> QED BY <1>2, <2>1, <2>2 DEF JudgeTx, SubmissionTypeOK
<1>3. ASSUME NEW c \in Call, AnswerTx(c) PROVE SubmissionTypeOK'
  BY <1>3 DEF AnswerTx, SubmissionTypeOK
<1>4. ASSUME NEW c \in Call, LoseTx(c) PROVE SubmissionTypeOK'
  BY <1>4 DEF LoseTx, SubmissionTypeOK
<1>5. CASE UNCHANGED calls
  BY <1>5 DEF calls, SubmissionTypeOK
<1> QED BY <1>1, <1>2, <1>3, <1>4, <1>5 DEF SubmissionNext

(* At first the client has a script and its keys, and nothing else.         *)
LEMMA MintInitially == MintInit => MintIInv
<1> SUFFICES ASSUME MintInit PROVE MintIInv
  OBVIOUS
<1>1. SubmissionTypeOK /\ \A c \in Call : call[c] = "idle"
  BY DEF MintInit, SubmissionInit, SubmissionTypeOK
<1>2. MintTypeOK
  BY <1>1, SlotAssumption DEF MintInit, MintTypeOK
<1>3. TextsOk
  BY OwnedAssumption DEF MintInit, TextsOk
<1>4. StartOk /\ ScriptOk /\ ShownOk /\ BuiltOk
  BY DEF MintInit, StartOk, ScriptOk, ShownOk, BuiltOk
<1> QED BY <1>2, <1>3, <1>4 DEF MintIInv

(* Building the script: the client has it back complete, with its keys.     *)
LEMMA BuildNativeScriptStep ==
  ASSUME MintIInv, BuildNativeScript
  PROVE  MintIInv'
<1> DEFINE dated == json[<<>>].lockTime # <<>> /\ json[<<>>].type \in Locks
           current == IF dated THEN <<slot>> ELSE <<0>>
           s == BuildPolicyScript(json, current, "wallet")
           all == Owned \cup {<<"xprv1", k>> : k \in GetScriptKeys(s)}
           back == PolicyScriptToJson(s)
<1>1. /\ phase = "script" /\ json \in Script /\ keys = Owned
      /\ address = <<>> /\ passedOn = <<>> /\ signed = <<>>
  BY DEF MintIInv, StartOk, BuildNativeScript, MintTypeOK
<1>2. current \in Seq(Int) /\ current # <<>> /\ current[1] \in Int
  <2>1. slot \in Int
    BY SlotAssumption DEF MintIInv, MintTypeOK
  <2>2. \A n \in Int : <<n>> \in Seq(Int) /\ <<n>> # <<>> /\ <<n>>[1] \in Int
    OBVIOUS
  <2> QED BY <2>1, <2>2
<1>3. IsJsonScript(json) /\ "wallet" \in Maker /\ "wallet" # "nobody"
  BY <1>1, ScriptAssumption DEF Maker
<1>4. json' = back /\ keys' = keys \cup {<<"xprv1", k>> : k \in GetScriptKeys(s)}
      /\ policy' = <<s.root>> /\ phase' = "wallet"
  BY DEF BuildNativeScript
<1>5. keys' = all
  BY <1>1, <1>4
<1>6. UNCHANGED <<burn, cargo, charged, address, passedOn, evaluated, signed, honest, slot,
                  call, told, lost, accepted>>
  BY DEF BuildNativeScript, wish, evaluation, calls
<1> HIDE DEF current
<1>7. /\ IsFiniteSet(all)
      /\ \A t, u \in all : GetPrivateKey(t) = GetPrivateKey(u) => t = u
      /\ \A p \in DOMAIN back : back[p].type = "sig" =>
           \E t \in all : GetPrivateKey(t) = back[p].keyHash
  BY <1>1, <1>2, NewTexts
<1>8. IsComplete(back)
  BY <1>2, <1>3, ReturnedIsComplete
<1>9. s.root = Written(back)
  BY <1>2, <1>3, ReturnedRoot
<1>10. Owned \subseteq all
  OBVIOUS
<1> HIDE DEF s, all, back
<1>11. MintTypeOK'
  BY <1>1, <1>4, <1>6 DEF MintIInv, MintTypeOK, SubmissionTypeOK
<1>12. TextsOk'
  BY <1>5, <1>7, <1>10 DEF TextsOk
<1>13. ScriptOk'
  BY <1>4, <1>5, <1>7, <1>8, <1>9 DEF ScriptOk, Held
<1>14. StartOk' /\ ShownOk' /\ BuiltOk'
  BY <1>1, <1>4, <1>6 DEF StartOk, ShownOk, BuiltOk
<1> QED BY <1>11, <1>12, <1>13, <1>14 DEF MintIInv

(* The rest of the invariant is untouched by what leaves the request, the   *)
(* wallet and the transaction alone.                                        *)
LEMMA Untouched ==
  ASSUME MintIInv, UNCHANGED <<wish, wallet, built>>
  PROVE  /\ TextsOk' /\ ScriptOk' /\ BuiltOk'
         /\ (UNCHANGED <<address, passedOn>> => StartOk' /\ ShownOk')
<1>1. /\ json' = json /\ keys' = keys /\ policy' = policy
      /\ signed' = signed /\ honest' = honest /\ phase' = phase
  BY DEF wallet, built
<1>2. TextsOk' /\ ScriptOk'
  BY <1>1 DEF MintIInv, TextsOk, ScriptOk, Held
<1>3. BuiltOk'
  <2>1. /\ TxMetadata' = TxMetadata /\ KeysFor(Needed)' = KeysFor(Needed) /\ Given' = Given
        /\ \A given : SignedBy(given)' = SignedBy(given)
    BY Unchanged
  <2> SUFFICES ASSUME phase' = "built"
               PROVE  /\ ~Throws(TxMetadata)'
                      /\ \E given \in Given' : /\ signed' = <<SignedBy(given)'>>
                                               /\ honest' => given = KeysFor(Needed)'
    BY DEF BuiltOk
  <2>2. /\ ~Throws(TxMetadata)
        /\ \E given \in Given : signed = <<SignedBy(given)>> /\ (honest => given = KeysFor(Needed))
    BY <1>1 DEF MintIInv, BuiltOk
  <2>3. Throws(TxMetadata)' = Throws(TxMetadata)
    BY <2>1 DEF Throws
  <2> QED BY <1>1, <2>1, <2>2, <2>3
<1>4. ASSUME UNCHANGED <<address, passedOn>> PROVE StartOk' /\ ShownOk'
  BY <1>1, <1>4 DEF MintIInv, StartOk, ShownOk
<1> QED BY <1>2, <1>3, <1>4

(* The address asked for is that of the script built first.                 *)
LEMMA GetNativeScriptAddressStep ==
  ASSUME MintIInv, GetNativeScriptAddress
  PROVE  MintIInv'
<1> DEFINE current == <<>>
<1>1. /\ phase # "script" /\ IsComplete(json) /\ policy = <<Written(json)>>
  BY DEF GetNativeScriptAddress, MintIInv, ScriptOk
<1>2. /\ UNCHANGED <<wish, wallet, built>> /\ UNCHANGED <<json, policy, phase, passedOn>>
      /\ UNCHANGED <<burn, cargo, charged, evaluated, signed, honest, slot,
                     call, told, lost, accepted>>
      /\ address' = <<GetScriptAddress(BuildPolicyScript(json, current, "address"))>>
  BY DEF GetNativeScriptAddress, wish, wallet, built, evaluation, calls
<1>3. current \in Seq(Int) /\ "address" \in Maker
  BY EmptySeq DEF Maker
<1> HIDE DEF current
<1>4. BuildPolicyScript(json, current, "address").root = policy[1]
  BY <1>1, <1>3, CompleteRoot DEF current
<1>5. address' = <<[payment |-> GetScriptHash(policy[1]), stake |-> GetScriptHash(policy[1])]>>
  BY <1>2, <1>4 DEF GetScriptAddress
<1>6. MintTypeOK'
  BY <1>2, <1>5 DEF MintIInv, MintTypeOK, SubmissionTypeOK
<1>7. StartOk' /\ ShownOk'
  BY <1>1, <1>2, <1>5 DEF MintIInv, StartOk, ShownOk
<1> QED BY <1>2, <1>6, <1>7, Untouched DEF MintIInv

(* What an evaluation passes on is the script built first.                  *)
LEMMA EvaluateTxStep ==
  ASSUME MintIInv, EvaluateTx
  PROVE  MintIInv'
<1>1. /\ phase # "script" /\ IsComplete(json) /\ policy = <<Written(json)>>
  BY DEF EvaluateTx, MintIInv, ScriptOk
<1>2. /\ UNCHANGED <<wish, wallet, built>> /\ UNCHANGED <<json, policy, phase, address>>
      /\ UNCHANGED <<burn, cargo, charged, evaluated, signed, honest, slot,
                     call, told, lost, accepted>>
      /\ passedOn' = <<InnerNativeScript(json)>>
  BY DEF EvaluateTx, wish, wallet, built, calls
<1>3. InnerNativeScript(json) = Clause(policy[1])
  BY <1>1, PassedOnClause
<1>4. MintTypeOK'
  BY <1>2 DEF MintIInv, MintTypeOK, SubmissionTypeOK
<1>5. StartOk' /\ ShownOk'
  BY <1>1, <1>2, <1>3 DEF MintIInv, StartOk, ShownOk
<1> QED BY <1>2, <1>4, <1>5, Untouched DEF MintIInv

(* A transaction is built of the keys given, or refused.                    *)
LEMMA BuildTxStep ==
  ASSUME MintIInv, NEW given \in Given, BuildTx(given)
  PROVE  MintIInv'
<1>1. /\ phase = "wallet" /\ phase' \in {"built", "refused"}
      /\ honest' = (given = KeysFor(Needed))
      /\ UNCHANGED <<wish, wallet>> /\ UNCHANGED <<json, keys, policy>>
      /\ UNCHANGED <<burn, cargo, charged, address, passedOn, evaluated, slot,
                     call, told, lost, accepted>>
  BY DEF BuildTx, wish, wallet, evaluation, calls
<1>2. /\ phase' = "refused" => signed' = signed
      /\ phase' = "built" => signed' = <<SignedBy(given)>> /\ ~Throws(TxMetadata)
  BY DEF BuildTx, SignedBy
<1>3. Len(signed) = 0 /\ cargo \in Cargo /\ cargo.quantity \in Int
      /\ \A i \in DOMAIN signed : Fits(signed[i].mint)
  BY <1>1, CargoAssumption DEF MintIInv, MintTypeOK
<1>4. Fits(SignedBy(given).mint)
  BY <1>3, I32Facts DEF SignedBy, Build
<1>5. \A x : Len(<<x>>) = 1 /\ DOMAIN <<x>> = {1} /\ <<x>>[1] = x
  OBVIOUS
<1>6. MintTypeOK'
  <2>1. Len(signed') = (IF phase' = "built" THEN 1 ELSE 0)
    BY <1>1, <1>2, <1>3, <1>5
  <2>2. \A i \in DOMAIN signed' : Fits(signed'[i].mint)
    BY <1>1, <1>2, <1>3, <1>4, <1>5
  <2>3. honest' \in BOOLEAN
    BY <1>1
  <2>4. \A c \in Call : call[c] = "idle"
    BY <1>1 DEF MintIInv, MintTypeOK
  <2> QED BY <1>1, <2>1, <2>2, <2>3, <2>4 DEF MintIInv, MintTypeOK, SubmissionTypeOK
<1>7. TextsOk' /\ StartOk' /\ ScriptOk' /\ ShownOk'
  BY <1>1 DEF MintIInv, TextsOk, StartOk, ScriptOk, Held, ShownOk
<1>8. BuiltOk'
  <2>1. /\ TxMetadata' = TxMetadata /\ KeysFor(Needed)' = KeysFor(Needed) /\ Given' = Given
        /\ SignedBy(given)' = SignedBy(given)
    BY <1>1, Unchanged
  <2>2. Throws(TxMetadata)' = Throws(TxMetadata)
    BY <2>1 DEF Throws
  <2>3. phase' = "built" =>
          /\ ~Throws(TxMetadata)'
          /\ signed' = <<SignedBy(given)'>> /\ (honest' => given = KeysFor(Needed)')
    BY <1>1, <1>2, <2>1, <2>2
  <2> QED BY <2>1, <2>3 DEF BuiltOk
<1> QED BY <1>6, <1>7, <1>8 DEF MintIInv

(* The client, the node and the chain go on.                                *)
LEMMA OtherSteps ==
  ASSUME MintIInv, [MintNext]_mintVars,
         \/ Evaluated \/ Tick \/ UNCHANGED mintVars
         \/ \E c \in Call : Submit(c) \/ Judge(c) \/ Answer(c) \/ Lose(c)
  PROVE  MintIInv'
<1>1. /\ UNCHANGED <<wish, wallet, built>>
      /\ UNCHANGED <<burn, cargo, charged, policy, address, passedOn, signed, honest, phase>>
  BY DEF Evaluated, Tick, Submit, Judge, Answer, Lose, mintVars, wish, wallet, built, evaluation
<1>2. SubmissionTypeOK'
  BY MintStepSubmits, SubmissionTypeStep DEF MintIInv, MintTypeOK
<1>3. evaluated' \in {"nothing", "redeemers", "badRequest", "internalError"}
      /\ (evaluated' # "nothing" => passedOn # <<>>)
  BY DEF Evaluated, Tick, Submit, Judge, Answer, Lose, mintVars, evaluation, MintIInv, MintTypeOK
<1>4. slot' \in 0 .. LastSlot
  BY SlotAssumption
     DEF Evaluated, Tick, Submit, Judge, Answer, Lose, mintVars, MintIInv, MintTypeOK
<1>5. \A c \in Call : call'[c] # "idle" => phase' = "built"
  <2>0. /\ \A c \in Call : call[c] # "idle" => phase = "built"
        /\ phase' = phase
    BY <1>1 DEF MintIInv, MintTypeOK
  <2>1. CASE phase = "built"
    BY <2>0, <2>1
  <2>2. CASE phase # "built"
    <3>1. call' = call
      BY <2>0, <2>2 DEF Evaluated, Tick, Submit, Judge, JudgeTx, Answer, AnswerTx, Lose, LoseTx,
                        mintVars, calls
    <3> QED BY <2>0, <2>2, <3>1
  <2> QED BY <2>1, <2>2
<1>6. MintTypeOK'
  BY <1>1, <1>2, <1>3, <1>4, <1>5 DEF MintIInv, MintTypeOK
<1> QED BY <1>1, <1>6, Untouched DEF MintIInv

(* The inductive invariant of a mint.                                       *)
THEOREM MintInvariant == MintSpec => []MintIInv
<1>1. MintInit => MintIInv
  BY MintInitially
<1>2. MintIInv /\ [MintNext]_mintVars => MintIInv'
  BY BuildNativeScriptStep, GetNativeScriptAddressStep, EvaluateTxStep, BuildTxStep, OtherSteps
     DEF MintNext
<1> QED BY <1>1, <1>2, PTL DEF MintSpec

(* Every variable has its type; nothing is sent that was not built.         *)
THEOREM MintTypeCorrect == MintSpec => []MintTypeOK
<1>1. MintIInv => MintTypeOK
  BY DEF MintIInv
<1> QED BY <1>1, MintInvariant, PTL

(* The script returned to the client stands for the script built.           *)
THEOREM PolicyIsKept == MintSpec => []PolicyKept
<1>1. MintIInv => PolicyKept
  <2> SUFFICES ASSUME MintIInv, phase = "built"
               PROVE  signed[1].roots[Len(burn) + 1] = policy[1]
    BY DEF MintIInv, ShownOk, PolicyKept
  <2>1. /\ burn \in Burn /\ IsComplete(json) /\ charged \in BOOLEAN /\ policy = <<Written(json)>>
    BY DEF MintIInv, ScriptOk, MintTypeOK
  <2>2. PICK given \in Given : signed = <<SignedBy(given)>>
    BY DEF MintIInv, BuiltOk
  <2>3. signed[1].roots = Roots
    BY <2>2 DEF SignedBy, Build, New
  <2>4. Roots[Len(burn) + 1] = Written(json)
    BY <2>1, RootsFacts
  <2> QED BY <2>1, <2>3, <2>4
<1> QED BY <1>1, MintInvariant, PTL

(* The transaction carries the metadata and the quantity asked for.         *)
THEOREM CargoIsKept == MintSpec => []CargoKept
<1>1. MintIInv => CargoKept
  <2> DEFINE x == cargo.first
             y == cargo.second
             z == Merge(x, y)
             d == BuildTransactionMetadata(ConstructMetadata(z))
  <2> SUFFICES ASSUME MintIInv, phase = "built"
               PROVE  /\ \A m \in (IF Agree(x, y) THEN {x} ELSE {})
                                    \cup (IF Hides(x, y) THEN {} ELSE {y}) :
                           \A p \in DOMAIN m \ {<<>>} :
                             p[1] \in Labels => p \in DOMAIN signed[1].metadata
                                                /\ Carries(signed[1].metadata[p], m[p])
                      /\ Fits(cargo.quantity) => signed[1].mint = cargo.quantity
                      /\ BuildTransactionMetadata(ConstructMetadata(ReverseMetadata(TxMetadata)))
                           = signed[1].metadata
    BY DEF CargoKept
  <2>1. cargo \in Cargo /\ ~Throws(TxMetadata) /\ TxMetadata = ConstructMetadata(z)
    BY DEF MintIInv, MintTypeOK, BuiltOk, TxMetadata
  <2>2. IsMetadata(x) /\ IsMetadata(y) /\ cargo.quantity \in Int
    BY <2>1, CargoAssumption
  <2>3. PICK given \in Given : signed = <<SignedBy(given)>>
    BY DEF MintIInv, BuiltOk
  <2>4. signed[1].metadata = d /\ signed[1].mint = NewI32(cargo.quantity)
    BY <2>1, <2>3 DEF SignedBy, Build
  <2> HIDE DEF x, y, z
  <2>5. \A p \in DOMAIN z : z[p] \in Container \cup Leaf
    BY <2>2, MergeType DEF z
  <2>6. ASSUME NEW p \in DOMAIN z, p # <<>>, p[1] \in Labels
        PROVE  p \in DOMAIN d /\ Carries(d[p], z[p])
    BY <2>1, <2>5, <2>6, MetadataCarried
  <2>7. ASSUME Agree(x, y), NEW p \in DOMAIN x \ {<<>>}, p[1] \in Labels
        PROVE  p \in DOMAIN d /\ Carries(d[p], x[p])
    <3>1. p \in DOMAIN z /\ z[p] = x[p]
      BY <2>2, <2>7, MergeFirst DEF z
    <3> QED BY <2>6, <2>7, <3>1
  <2>8. ASSUME ~Hides(x, y), NEW p \in DOMAIN y \ {<<>>}, p[1] \in Labels
        PROVE  p \in DOMAIN d /\ Carries(d[p], y[p])
    <3>1. p \in DOMAIN z /\ z[p] = y[p]
      BY <2>2, <2>8, MergeSecond DEF z
    <3> QED BY <2>6, <2>8, <3>1
  <2>9. Fits(cargo.quantity) => signed[1].mint = cargo.quantity
    BY <2>2, <2>4, I32Facts
  <2>10. ConstructMetadata(ReverseMetadata(TxMetadata)) = TxMetadata
    BY <2>1, <2>5, RoundTrip
  <2>11. BuildTransactionMetadata(ConstructMetadata(ReverseMetadata(TxMetadata)))
           = signed[1].metadata
    BY <2>1, <2>4, <2>10
  <2> HIDE DEF d
  <2> QED BY <2>4, <2>7, <2>8, <2>9, <2>11
<1> QED BY <1>1, MintInvariant, PTL

(* The ledger's script of a complete one is a tree, and asks for its keys.  *)
LEMMA WrittenFacts ==
  ASSUME NEW j, IsComplete(j)
  PROVE  /\ IsTree(Written(j), Position) /\ \A p \in DOMAIN Written(j) : Written(j)[p] \in Root
         /\ \A k \in RequiredSigners(Written(j)) :
              \E p \in DOMAIN j : j[p].type = "sig" /\ j[p].keyHash = k /\ k # NoKey
<1> DEFINE current == <<0>>
<1>1. current \in Seq(Int) /\ current[1] \in Int
  OBVIOUS
<1>2. "build" \in Maker /\ IsJsonScript(j)
  BY DEF Maker, IsComplete
<1> HIDE DEF current
<1>3. /\ IsTree(BuildPolicyScript(j, current, "build").root, Position)
      /\ \A p \in DOMAIN BuildPolicyScript(j, current, "build").root :
           BuildPolicyScript(j, current, "build").root[p] \in Root
  BY <1>1, <1>2, RootIsTree
<1>4. BuildPolicyScript(j, current, "build").root = Written(j)
  BY <1>1, <1>2, CompleteRoot
<1>5. ASSUME NEW k \in RequiredSigners(Written(j))
      PROVE  \E p \in DOMAIN j : j[p].type = "sig" /\ j[p].keyHash = k /\ k # NoKey
  <2>1. PICK p \in DOMAIN Written(j) : Written(j)[p].kind = "sig" /\ k = Written(j)[p].key
    BY <1>5 DEF RequiredSigners
  <2>2. p \in Grouped(j) /\ p \in DOMAIN j
    BY <2>1 DEF Written, Grouped
  <2>3. j[p].type \in {"sig"} \cup Groups \cup Locks /\ (j[p].type = "sig" => j[p].keyHash # NoKey)
    BY <2>2 DEF IsComplete, IsJsonScript, JsonScript
  <2>4. j[p].type = "sig"
    BY <2>1, <2>2, <2>3, Kinds DEF Written, GroupRoot, LockRoot, SigRoot, Groups, Locks
  <2>5. k = j[p].keyHash
    <3>1. Written(j)[p] = SigRoot(j[p].keyHash)
      BY <2>2, <2>4, Kinds DEF Written
    <3> QED BY <2>1, <3>1 DEF SigRoot
  <2> QED BY <2>2, <2>3, <2>4, <2>5
<1> QED BY <1>3, <1>4, <1>5

(* The keys and the slots of a script are finitely many.                    *)
LEMMA SignersAreFinite ==
  ASSUME NEW r, IsTree(r, Position)
  PROVE  /\ IsFiniteSet(RequiredSigners(r)) /\ \A kind : IsFiniteSet(LocksIn(r, kind))
<1>1. IsFiniteSet(DOMAIN r)
  BY DEF IsTree
<1>2. IsFiniteSet(RequiredSigners(r))
  <2> DEFINE D == {q \in DOMAIN r : r[q].kind = "sig"}
             f == [p \in D |-> r[p].key]
  <2>1. IsFiniteSet(D)
    BY <1>1, FS_Subset
  <2>2. RequiredSigners(r) = {f[p] : p \in D}
    BY DEF RequiredSigners
  <2> HIDE DEF f, D
  <2> QED BY <2>1, <2>2, ImageIsFinite
<1>3. ASSUME NEW kind PROVE IsFiniteSet(LocksIn(r, kind))
  <2> DEFINE D == {q \in DOMAIN r : r[q].kind = kind}
             f == [p \in D |-> r[p].slot]
  <2>1. IsFiniteSet(D)
    BY <1>1, FS_Subset
  <2>2. LocksIn(r, kind) = {f[p] : p \in D}
    BY DEF LocksIn
  <2> HIDE DEF f, D
  <2> QED BY <2>1, <2>2, ImageIsFinite
<1> QED BY <1>2, <1>3

(* The scripts of a transaction are trees.                                  *)
LEMMA RootsAreTrees ==
  ASSUME burn \in Burn, IsComplete(json), charged \in BOOLEAN, NEW i \in DOMAIN Roots
  PROVE  /\ IsTree(Roots[i], Position) /\ \A p \in DOMAIN Roots[i] : Roots[i][p] \in Root
         /\ IsFiniteSet(RequiredSigners(Roots[i]))
<1>1. \/ i \in 1 .. Len(burn) /\ IsComplete(burn[i]) /\ Roots[i] = Written(burn[i])
      \/ Roots[i] = Written(json)
      \/ Roots[i] = ServerRoot
  BY RootsFacts
<1>2. IsTree(Roots[i], Position) /\ \A p \in DOMAIN Roots[i] : Roots[i][p] \in Root
  BY <1>1, WrittenFacts, ServerAssumption
<1> QED BY <1>2, SignersAreFinite

(* The client has a text for every key its scripts ask for.                 *)
LEMMA NeededAreHeld ==
  ASSUME burn \in Burn, IsComplete(json), charged \in BOOLEAN, Held(json), Owned \subseteq keys,
         NEW k \in Needed
  PROVE  \E t \in KeysFor(Needed) : GetPrivateKey(t) = k
<1>1. PICK i \in 1 .. Len(burn) + 1 : k \in RequiredSigners(Roots[i])
  BY DEF Needed
<1>2. CASE i \in 1 .. Len(burn)
  <2>1. IsComplete(burn[i]) /\ burn[i] \in Burnt /\ k \in RequiredSigners(Written(burn[i]))
    BY <1>1, <1>2, RootsFacts
  <2>2. PICK p \in DOMAIN burn[i] : burn[i][p].type = "sig" /\ burn[i][p].keyHash = k /\ k # NoKey
    BY <2>1, WrittenFacts
  <2>3. \E t \in Owned : GetPrivateKey(t) = k
    BY <2>1, <2>2, OwnedAssumption
  <2> QED BY <2>3 DEF KeysFor
<1>3. CASE i = Len(burn) + 1
  <2>1. k \in RequiredSigners(Written(json))
    BY <1>1, <1>3, RootsFacts
  <2>2. PICK p \in DOMAIN json : json[p].type = "sig" /\ json[p].keyHash = k
    BY <2>1, WrittenFacts
  <2>3. \E t \in keys : GetPrivateKey(t) = k
    BY <2>2 DEF Held
  <2> QED BY <2>3 DEF KeysFor
<1> QED BY <1>2, <1>3, RootsFacts

(* The fee pays for the witnesses of whoever signs with the keys asked for. *)
LEMMA WitnessesArePaid ==
  ASSUME burn \in Burn, IsComplete(json), charged \in BOOLEAN, TextsOk
  PROVE  /\ NumberOfWitnesses(Roots) \in Nat
         /\ Cardinality(KeysFor(Needed)) \in Nat
         /\ 1 + Cardinality(KeysFor(Needed)) + (IF charged THEN 2 ELSE 0) <= NumberOfWitnesses(Roots)
<1> DEFINE n == Len(burn) + 1
           A == [i \in DOMAIN Roots |-> RequiredSigners(Roots[i])]
           f == [i \in DOMAIN Roots |-> Cardinality(RequiredSigners(Roots[i]))]
           T == KeysFor(Needed)
<1>1. /\ n \in Nat /\ DOMAIN Roots = 1 .. (IF charged THEN n + 1 ELSE n)
      /\ charged => Roots[n + 1] = ServerRoot
  BY RootsFacts
<1>2. 1 .. n \subseteq DOMAIN Roots /\ IsFiniteSet(1 .. n)
  BY <1>1, FS_Interval
<1>3. \A i \in DOMAIN Roots : /\ IsFiniteSet(A[i]) /\ f[i] = Cardinality(A[i]) /\ f[i] \in Nat
  BY RootsAreTrees, FS_CardinalityType
<1>4. NumberOfWitnesses(Roots) = 1 + SumFunctionOnSet(f, DOMAIN Roots)
  BY DEF NumberOfWitnesses
<1>5. Needed = UNION {A[i] : i \in 1 .. n}
  BY <1>2 DEF Needed
<1>6. charged => f[n + 1] = 2
  <2> SUFFICES ASSUME charged PROVE f[n + 1] = 2
    OBVIOUS
  <2>1. n + 1 \in DOMAIN Roots /\ f[n + 1] = Cardinality(RequiredSigners(ServerRoot))
    BY <1>1
  <2>2. ASSUME NEW x, NEW y, x # y PROVE Cardinality({x, y}) = 2
    <3>1. IsFiniteSet({x}) /\ Cardinality({x}) = 1 /\ y \notin {x} /\ {x, y} = {x} \cup {y}
      BY <2>2, FS_Singleton
    <3>2. Cardinality({x} \cup {y}) = Cardinality({x}) + 1
      BY <3>1, FS_AddElement
    <3> QED BY <3>1, <3>2
  <2>3. RequiredSigners(ServerRoot) = {ServerKeys[1], ServerKeys[Len(ServerKeys)]}
        /\ ServerKeys[1] # ServerKeys[Len(ServerKeys)]
    BY ServerAssumption
  <2>4. Cardinality({ServerKeys[1], ServerKeys[Len(ServerKeys)]}) = 2
    BY <2>2, <2>3
  <2> HIDE DEF f
  <2> QED BY <2>1, <2>3, <2>4
<1> HIDE DEF A, f, n
<1>7. IsFiniteSet(Needed) /\ Cardinality(Needed) <= SumFunctionOnSet(f, 1 .. n)
  <2>1. \A i \in 1 .. n : IsFiniteSet(A[i]) /\ f[i] = Cardinality(A[i])
    BY <1>2, <1>3
  <2> DEFINE D == 1 .. n
             U == UNION {A[i] : i \in D}
  <2>2. IsFiniteSet(D) /\ \A i \in D : IsFiniteSet(A[i]) /\ f[i] = Cardinality(A[i])
    BY <1>2, <2>1
  <2> HIDE DEF D
  <2>3. IsFiniteSet(U) /\ Cardinality(U) <= SumFunctionOnSet(f, D)
    BY <2>2, UnionAtMost
  <2> QED BY <1>5, <2>3 DEF D
<1>8. IsFiniteSet(T) /\ Cardinality(T) <= Cardinality(Needed)
  <2> DEFINE g == [t \in T |-> GetPrivateKey(t)]
  <2>1. IsFiniteSet(T)
    BY FS_Subset DEF TextsOk, KeysFor
  <2>2. g \in Injection(T, Needed)
    BY DEF TextsOk, KeysFor, Injection, IsInjective
  <2> HIDE DEF g, T
  <2> QED BY <1>7, <2>1, <2>2, FS_Injection
<1>9. /\ SumFunctionOnSet(f, 1 .. n) \in Nat
      /\ SumFunctionOnSet(f, DOMAIN Roots) = SumFunctionOnSet(f, 1 .. n) + (IF charged THEN 2 ELSE 0)
  <2>1. SumFunctionOnSet(f, 1 .. n) \in Nat
    BY <1>2, <1>3, SumNat
  <2>2. CASE ~charged
    <3>1. DOMAIN Roots = 1 .. n
      BY <1>1, <2>2
    <3> QED BY <2>1, <2>2, <3>1
  <2>3. CASE charged
    <3>1. DOMAIN Roots = (1 .. n) \cup {n + 1} /\ n + 1 \notin 1 .. n
      BY <1>1, <2>3
    <3>2. \A i \in (1 .. n) \cup {n + 1} : f[i] \in Int
      BY <1>3, <3>1
    <3>3. SumFunctionOnSet(f, (1 .. n) \cup {n + 1}) = f[n + 1] + SumFunctionOnSet(f, 1 .. n)
      BY <1>2, <3>1, <3>2, SumAdd
    <3> QED BY <1>6, <2>1, <2>3, <3>1, <3>3
  <2> QED BY <2>1, <2>2, <2>3
<1>10. Cardinality(T) \in Nat /\ Cardinality(Needed) \in Nat
  BY <1>7, <1>8, FS_CardinalityType
<1> HIDE DEF T
<1>11. \A a, b, c, d, e \in Nat : a <= b /\ b <= c => 1 + a + d <= 1 + (c + d)
  OBVIOUS
<1>12. NumberOfWitnesses(Roots) = 1 + (SumFunctionOnSet(f, 1 .. n) + (IF charged THEN 2 ELSE 0))
  BY <1>4, <1>9
<1>13. (IF charged THEN 2 ELSE 0) \in Nat
  OBVIOUS
<1>14. 1 + Cardinality(T) + (IF charged THEN 2 ELSE 0) <= NumberOfWitnesses(Roots)
  BY <1>7, <1>8, <1>9, <1>10, <1>11, <1>12, <1>13
<1>15. NumberOfWitnesses(Roots) \in Nat
  BY <1>9, <1>12, <1>13
<1> QED BY <1>10, <1>14, <1>15 DEF T

(* The time to live is none of a script's later slots.                      *)
LEMMA TtlFacts ==
  ASSUME burn \in Burn, IsComplete(json)
  PROVE  /\ Ttl \in Int /\ Ttl <= ExpireSlot(json)
         /\ \A i \in 1 .. Len(burn) : Ttl <= ExpireSlot(burn[i])
<1> DEFINE S == {json} \cup Range(burn)
           f == [j \in S |-> ExpireSlot(j)]
           ttls == {f[j] : j \in S} \cup {MaxSlot}
<1>1. /\ DOMAIN burn = 1 .. Len(burn) /\ Len(burn) \in Nat
      /\ \A i \in 1 .. Len(burn) : IsComplete(burn[i])
  <2>1. burn \in Seq(Burnt)
    BY BurnAssumption
  <2> QED BY <2>1, BurnAssumption
<1>2. IsFiniteSet(S) /\ \A j \in S : IsComplete(j)
  <2> DEFINE R == {burn[i] : i \in 1 .. Len(burn)}
  <2>1. IsFiniteSet(1 .. Len(burn))
    BY <1>1, FS_Interval
  <2>2. IsFiniteSet(R)
    BY <2>1, ImageIsFinite
  <2>3. Range(burn) = R
    BY <1>1 DEF Range
  <2>4. \A j \in R : IsComplete(j)
    BY <1>1
  <2> HIDE DEF R
  <2> QED BY <2>2, <2>3, <2>4, FS_AddElement, FS_Singleton, FS_Union
<1>3. \A i \in 1 .. Len(burn) : burn[i] \in S
  BY <1>1 DEF Range
<1>4. \A j \in S : f[j] = ExpireSlot(j) /\ f[j] \in Int
  BY <1>2, ExpireFacts
<1>5. Ttl = CHOOSE t \in ttls : \A u \in ttls : t <= u
  BY DEF Ttl
<1>6. json \in S
  OBVIOUS
<1> HIDE DEF S, f
<1>7. /\ IsFiniteSet(ttls) /\ ttls \subseteq Int /\ ttls # {}
      /\ \A j \in S : f[j] \in ttls
  <2> DEFINE R == {f[j] : j \in S}
  <2>1. IsFiniteSet(R)
    BY <1>2, ImageIsFinite
  <2>2. R \subseteq Int /\ \A j \in S : f[j] \in R
    BY <1>4
  <2> HIDE DEF R
  <2>3. IsFiniteSet(R \cup {MaxSlot})
    BY <2>1, FS_AddElement
  <2>4. ttls = R \cup {MaxSlot}
    BY DEF R
  <2>5. MaxSlot \in Int
    BY DEF MaxSlot
  <2> HIDE DEF ttls
  <2> QED BY <2>2, <2>3, <2>4, <2>5
<1> HIDE DEF ttls
<1>8. Ttl \in ttls /\ \A u \in ttls : Ttl <= u
  <2>1. \E n \in ttls : \A m \in ttls : n <= m
    BY <1>7, LeastInteger
  <2> QED BY <1>5, <2>1
<1> QED BY <1>3, <1>4, <1>6, <1>7, <1>8

(* The scripts of the client's own that are not hopeless hold.              *)
LEMMA OwnScriptsHold ==
  ASSUME NEW j, IsComplete(j), NEW signers, RequiredSigners(Written(j)) \subseteq signers,
         NEW ttl \in Int, ttl <= ExpireSlot(j), ~AsksTooMuch(Written(j)),
         LocksIn(Written(j), "after") \ {0} = {},
         0 \notin LocksIn(Written(j), "before"), ~(Cardinality(LocksIn(Written(j), "before")) > 1),
         \A p \in DOMAIN Written(j) : ~(Len(p) > 1 /\ Written(j)[p].kind = "before")
  PROVE  Holds(Written(j), signers, ttl)
<1> DEFINE r == Written(j)
           befores == LocksIn(r, "before")
<1>1. IsTree(r, Position) /\ \A p \in DOMAIN r : r[p] \in Root
  BY WrittenFacts
<1>2. \A x, y \in befores : x = y
  <2> SUFFICES ASSUME NEW x \in befores, NEW y \in befores, x # y PROVE FALSE
    OBVIOUS
  <2>1. IsFiniteSet(befores) /\ Cardinality(befores) \in Nat
    BY <1>1, SignersAreFinite, FS_CardinalityType
  <2>2. IsFiniteSet({x}) /\ Cardinality({x}) = 1 /\ y \notin {x}
    BY FS_Singleton
  <2>3. Cardinality({x} \cup {y}) = 2
    <3> DEFINE one == {x}
    <3>1. IsFiniteSet(one) /\ Cardinality(one) = 1 /\ y \notin one
      BY <2>2
    <3> HIDE DEF one
    <3>2. Cardinality(one \cup {y}) = Cardinality(one) + 1
      BY <3>1, FS_AddElement
    <3>3. Cardinality(one \cup {y}) = 2
      BY <3>1, <3>2
    <3> QED BY <3>3 DEF one
  <2>4. {x} \cup {y} \subseteq befores
    OBVIOUS
  <2> DEFINE both == {x} \cup {y}
  <2>5. Cardinality(both) = 2 /\ both \subseteq befores
    BY <2>3, <2>4
  <2> HIDE DEF both, befores
  <2>6. Cardinality(both) <= Cardinality(befores)
    BY <2>1, <2>5, FS_Subset
  <2>7. ~(Cardinality(befores) > 1)
    BY DEF befores
  <2> QED BY <2>1, <2>5, <2>6, <2>7
<1>3. \A p \in DOMAIN r : r[p].kind = "before" => ExpireSlot(j) = r[p].slot
  <2>1. 0 \notin befores /\ \A p \in DOMAIN r : Len(p) > 1 => r[p].kind # "before"
    OBVIOUS
  <2> QED BY <1>2, <2>1, ExpireFacts
<1>4. \A p \in DOMAIN r : r[p].kind = "after" => r[p].slot = 0
  BY DEF LocksIn
<1>5. \A p \in DOMAIN r : /\ r[p].kind = "after" => r[p].slot <= 0
                          /\ r[p].kind = "before" => ttl <= r[p].slot
  BY <1>3, <1>4
<1>6. ~AsksTooMuch(r) /\ RequiredSigners(r) \subseteq signers
  OBVIOUS
<1> HIDE DEF r
<1>7. Holds(r, signers, ttl)
  BY <1>1, <1>5, <1>6, AllHold
<1> QED BY <1>7 DEF r

(* The server's holds with both its witnesses.                              *)
LEMMA ServerScriptHolds ==
  ASSUME NEW signers, ServerKeys[1] \in signers, ServerKeys[Len(ServerKeys)] \in signers,
         NEW ttl \in Int
  PROVE  Holds(ServerRoot, signers, ttl)
<1>1. \A p \in DOMAIN ServerRoot : ServerRoot[p].kind \notin Locks
  BY ServerAssumption DEF LocksIn
<1>2. RequiredSigners(ServerRoot) \subseteq signers
  BY ServerAssumption
<1>3. \A p \in DOMAIN ServerRoot : /\ ServerRoot[p].kind = "after" => ServerRoot[p].slot <= 0
                                   /\ ServerRoot[p].kind = "before" => ttl <= ServerRoot[p].slot
  BY <1>1 DEF Locks
<1> QED BY <1>2, <1>3, ServerAssumption, AllHold

(* Whoever signs with the keys asked for gets a transaction the node takes. *)
THEOREM BuiltTransactionsAreValid == MintSpec => []BuiltIsValid
<1>1. MintIInv => BuiltIsValid
  <2> DEFINE T == KeysFor(Needed)
             t == SignedBy(T)
             d == Deserialize(t)
             n == Len(burn) + 1
  <2> SUFFICES ASSUME MintIInv, phase = "built", honest, slot < signed[1].ttl, ~Hopeless
               PROVE  Valid(Deserialize(signed[1]))
    BY DEF BuiltIsValid
  <2>1. /\ burn \in Burn /\ cargo \in Cargo /\ charged \in BOOLEAN /\ TextsOk
        /\ IsComplete(json) /\ Held(json) /\ Owned \subseteq keys
    BY DEF MintIInv, MintTypeOK, ScriptOk, TextsOk
  <2>2. signed[1] = t
    BY DEF MintIInv, BuiltOk
  <2>3. /\ t.roots = Roots /\ t.paidFor = NumberOfWitnesses(Roots) /\ t.ttl = Ttl
        /\ t.signers = {Pay} \cup {GetPrivateKey(k) : k \in T}
                         \cup (IF charged THEN {ServerKeys[1]} ELSE {})
        /\ t.witnesses = 1 + Cardinality(T) + (IF charged THEN 1 ELSE 0)
        /\ t.mint = NewI32(cargo.quantity) /\ t.sent = cargo.quantity /\ t.tracked = charged
    BY DEF SignedBy, Build, New
  <2>4. /\ d.roots = t.roots /\ d.paidFor = t.paidFor /\ d.ttl = t.ttl
        /\ d.mint = t.mint /\ d.sent = t.sent
        /\ d.signers = t.signers \cup (IF charged THEN {ServerKeys[Len(ServerKeys)]} ELSE {})
        /\ d.witnesses = t.witnesses + (IF charged THEN 1 ELSE 0)
    <3>1. t = [roots |-> t.roots, paidFor |-> t.paidFor, signers |-> t.signers,
               witnesses |-> t.witnesses, ttl |-> t.ttl, metadata |-> t.metadata,
               mint |-> t.mint, sent |-> t.sent, tracked |-> t.tracked]
      BY DEF SignedBy, Build
    <3>2. d = IF charged
                THEN [t EXCEPT !.signers = t.signers \cup {ServerKeys[Len(ServerKeys)]},
                               !.witnesses = t.witnesses + 1]
                ELSE t
      BY <2>3 DEF Deserialize
    <3>3. t.witnesses \in Int
      BY <2>1, <2>3, WitnessesArePaid
    <3> HIDE DEF t, d
    <3>4. CASE charged
      <4>1. d = [t EXCEPT !.signers = t.signers \cup {ServerKeys[Len(ServerKeys)]},
                          !.witnesses = t.witnesses + 1]
        BY <3>2, <3>4
      <4> QED BY <3>1, <3>4, <4>1
    <3>5. CASE ~charged
      BY <3>2, <3>3, <3>5
    <3> QED BY <2>1, <3>4, <3>5
  <2> HIDE DEF t, d, T
  <2>5. Cardinality(T) \in Nat /\ d.witnesses <= d.paidFor
    <3>1. /\ Cardinality(T) \in Nat /\ NumberOfWitnesses(Roots) \in Nat
          /\ 1 + Cardinality(T) + (IF charged THEN 2 ELSE 0) <= NumberOfWitnesses(Roots)
      BY <2>1, WitnessesArePaid DEF T
    <3> QED BY <2>3, <2>4, <3>1
  <2>6. Fits(cargo.quantity) /\ d.mint = d.sent
    <3>1. Fits(cargo.quantity) /\ cargo.quantity \in Int
      BY <2>1, CargoAssumption DEF Hopeless
    <3> QED BY <2>3, <2>4, <3>1, I32Facts
  <2>7. Needed \subseteq d.signers /\ Pay \in d.signers
    <3>1. \A k \in Needed : \E x \in T : GetPrivateKey(x) = k
      BY <2>1, NeededAreHeld DEF T
    <3> QED BY <2>3, <2>4, <3>1
  <2>8. charged => ServerKeys[1] \in d.signers /\ ServerKeys[Len(ServerKeys)] \in d.signers
    BY <2>3, <2>4
  <2>9. /\ n \in Nat /\ DOMAIN Roots = 1 .. (IF charged THEN n + 1 ELSE n)
        /\ \A i \in 1 .. Len(burn) : IsComplete(burn[i]) /\ Roots[i] = Written(burn[i])
        /\ Roots[n] = Written(json)
        /\ charged => Roots[n + 1] = ServerRoot
    BY <2>1, RootsFacts
  <2>10. /\ Ttl \in Int /\ Ttl <= ExpireSlot(json)
         /\ \A i \in 1 .. Len(burn) : Ttl <= ExpireSlot(burn[i])
    BY <2>1, TtlFacts
  <2>11. ASSUME NEW i \in 1 .. n PROVE Holds(Roots[i], d.signers, Ttl)
    <3>1. PICK j : IsComplete(j) /\ Roots[i] = Written(j) /\ Ttl <= ExpireSlot(j)
      <4>1. i \in 1 .. Len(burn) \/ i = n
        BY <2>9
      <4> QED BY <2>1, <2>9, <2>10, <4>1
    <3>2. RequiredSigners(Written(j)) \subseteq d.signers
      BY <2>7, <3>1 DEF Needed
    <3>3. /\ ~AsksTooMuch(Written(j)) /\ LocksIn(Written(j), "after") \ {0} = {}
          /\ 0 \notin LocksIn(Written(j), "before")
          /\ ~(Cardinality(LocksIn(Written(j), "before")) > 1)
          /\ \A p \in DOMAIN Written(j) : ~(Len(p) > 1 /\ Written(j)[p].kind = "before")
      BY <3>1 DEF Hopeless
    <3> QED BY <2>10, <3>1, <3>2, <3>3, OwnScriptsHold
  <2>12. ASSUME charged PROVE Holds(Roots[n + 1], d.signers, Ttl)
    BY <2>8, <2>9, <2>10, <2>12, ServerScriptHolds
  <2>13. \A i \in DOMAIN d.roots : Holds(d.roots[i], d.signers, d.ttl)
    <3> SUFFICES ASSUME NEW i \in DOMAIN Roots PROVE Holds(Roots[i], d.signers, Ttl)
      BY <2>3, <2>4
    <3>1. i \in 1 .. n \/ (charged /\ i = n + 1)
      BY <2>9
    <3> QED BY <2>11, <2>12, <3>1
  <2>14. slot < d.ttl
    BY <2>2, <2>4
  <2>15. Valid(d)
    BY <2>5, <2>6, <2>7, <2>13, <2>14 DEF Valid
  <2> QED BY <2>2, <2>15 DEF d
<1> QED BY <1>1, MintInvariant, PTL
=============================================================================
