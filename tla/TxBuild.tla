------------------------------ MODULE TxBuild ------------------------------
(***************************************************************************)
(* Building a transaction: TransactionsService.buildTx                      *)
(* (src/transactions/transactions.service.ts), which decides what goes in   *)
(* and out, Seed.buildTransactionMultisig (src/utils/serialization.util.ts),*)
(* which drafts a body with the largest fee there is, and                   *)
(* MultisigTransaction.adjustFee (src/utils/models/multisig-transaction.ts),*)
(* which replaces that fee by the price of the draft.                       *)
(*                                                                          *)
(* The ledger accepts a transaction whose inputs and mint are worth exactly *)
(* its outputs and its fee, for lovelace and for each asset, and whose fee  *)
(* is at least the price of its size.  Sizes appear as what they cost:      *)
(* size is the price of all but the change output.                          *)
(*                                                                          *)
(* An asset is a policy and a name; a name here stands for both.  The names *)
(* of a request are text, as the API shows them, or hexadecimal when the    *)
(* bytes are not printable.  buildMultiAssets and buildTransactionMint read *)
(* every name as hexadecimal, and buildTx encodes some of the names it      *)
(* hands over and others not.  The outputs carry whole quantities, the mint *)
(* field integers of 32 bits.                                               *)
(***************************************************************************)
EXTENDS Int32, Sequences, FiniteSets, Functions

CONSTANTS
  Name,         \* assets, as requests name them
  HexName,      \* those shown in hexadecimal: their bytes are not printable
  BlankName,    \* those with the empty name
  Tracking,     \* the asset that comes with the commission
  MinUtxo,      \* [SUBSET Name -> Nat]: the minimum of an output with these assets
  MaxFee,       \* the fee of a transaction of the largest size allowed
  OutputFee,    \* the price of the size of one output
  Wide,         \* the least quantity that takes more bytes to write
  WideFee,      \* the price of these bytes
  MinUTxOValue, \* protocols.minUTxOValue, where null compares as 0
  Request,      \* the requests of the model
  Commission,   \* the fees getNftFee may answer, 0 for none
  NoChange      \* no change output

Bundle == [Name -> Nat]
InputRecord == [value : Nat, assets : Bundle]

(* The outputs a client asks for: buildTx passes them on and only sums      *)
(* their lovelace up.  Burnt assets are listed with a negative quantity.    *)
RequestRecord ==
  [inputs : Seq(InputRecord),
   outputs : [value : Nat, assets : Bundle, size : Nat],
   burnouts : [Name -> Int],
   minting : BOOLEAN,
   recipients : Seq(Bundle),
   changeAddress : BOOLEAN]

ASSUME NameAssumption ==
  /\ IsFiniteSet(Name)
  /\ HexName \subseteq Name /\ BlankName \subseteq Name /\ Tracking \in Name
  /\ HexName \cap BlankName = {}
ASSUME PriceAssumption ==
  /\ MinUtxo \in [SUBSET Name -> Nat]
  /\ {MaxFee, OutputFee, Wide, WideFee, MinUTxOValue} \subseteq Nat
ASSUME RequestAssumption == Request \subseteq RequestRecord
ASSUME CommissionAssumption == Commission \subseteq Nat
ASSUME NoChangeAssumption == NoChange \notin Int

VARIABLES
  request,   \* the payload
  stage,     \* the code running, or how it ended
  turn,      \* the turn of the loop running
  total,     \* lovelace of the inputs
  spendable, \* spendableTotal: less what goes back with their assets
  costs,     \* outputCosts: lovelace of the outputs asked for and minted
  paid,      \* lovelace of coinSelection.outputs
  size,      \* the price of the body without a change output
  held,      \* assets of the inputs, as the ledger has them
  sent,      \* assets of coinSelection.outputs
  minted,    \* assets: what is burnt and minted, as buildTx collects it
  mint,      \* the mint field of the body
  mints,     \* tokens in the outputs to recipients
  change,    \* the quantity of coinSelection.change[0], or NoChange
  draft,     \* change and fee of the body with the largest fee
  tx         \* change and fee of the transaction handed back

vars == <<request, stage, turn, total, spendable, costs, paid, size, held, sent,
          minted, mint, mints, change, draft, tx>>

(* An asset of the ledger: the name's bytes are its text, or what its       *)
(* digits say.  Both are the same for the empty name only.                  *)
Asset == Name \X {"text", "digits"}
Quantities == [Asset -> Int]

AsText(n) == <<n, "text">>
AsDigits(n) == IF n \in BlankName THEN AsText(n) ELSE <<n, "digits">>
OnLedger(n) == IF n \in HexName THEN AsDigits(n) ELSE AsText(n)

(* The quantities of a bundle whose names the code encodes, of one whose    *)
(* names it does not, and of an output as the ledger has it.                *)
Encoded(b) == [a \in Asset |-> IF a = AsText(a[1]) THEN b[a[1]] ELSE 0]
Unencoded(b) == [a \in Asset |-> IF a = AsDigits(a[1]) THEN b[a[1]] ELSE 0]
Recorded(b) == [a \in Asset |-> IF a = OnLedger(a[1]) THEN b[a[1]] ELSE 0]
Plus(p, q) == [a \in Asset |-> p[a] + q[a]]

Listed(b) == {n \in Name : b[n] > 0}
Coin(c) == IF c = NoChange THEN 0 ELSE c

(* min_fee of the body with change output c.                                *)
MinFee(c) ==
  size + (IF c = NoChange THEN 0
          ELSE OutputFee + IF c >= Wide THEN WideFee ELSE 0)

Body == [change : Nat \cup {NoChange}, fee : Nat]
NoBody == [change |-> NoChange, fee |-> 0]

(* Every variable has its type.                                             *)
TypeOK ==
  /\ request \in Request
  /\ stage \in {"inputs", "minting", "change", "draft", "adjust",
                "built", "notEnoughFunds", "error"}
  /\ turn \in Nat \ {0}
  /\ total \in Nat /\ paid \in Nat /\ costs \in Nat /\ size \in Nat /\ mints \in Nat
  /\ spendable \in Int
  /\ held \in Quantities /\ sent \in Quantities
  /\ minted \in Quantities /\ mint \in Quantities
  /\ change \in Int \cup {NoChange}
  /\ draft \in Body /\ tx \in Body

(* buildTx starts with the burnt assets, whose names are not encoded, nor   *)
(* are those of the outputs asked for.                                      *)
Init ==
  /\ request \in Request
  /\ stage = "inputs" /\ turn = 1
  /\ total = 0 /\ spendable = 0 /\ mints = 0
  /\ costs = request.outputs.value
  /\ paid = request.outputs.value
  /\ size = request.outputs.size
  /\ held = [a \in Asset |-> 0]
  /\ sent = Unencoded(request.outputs.assets)
  /\ minted = Unencoded(request.burnouts)
  /\ mint = [a \in Asset |-> 0]
  /\ change = NoChange /\ draft = NoBody /\ tx = NoBody

(* Mutant: what is burnt is sent back.                                      *)
UnburntWithBurnt(b) == b

(* What is left of an input's assets; what would be negative is left out.   *)
Unburnt(b) ==
  [n \in Name |-> IF b[n] > 0 /\ b[n] + request.burnouts[n] > 0
                    THEN b[n] + request.burnouts[n] ELSE 0]

SpendPlainInput ==
  /\ stage = "inputs" /\ turn <= Len(request.inputs)
  /\ Listed(request.inputs[turn].assets) = {}
  /\ total' = total + request.inputs[turn].value
  /\ spendable' = spendable + request.inputs[turn].value
  /\ turn' = turn + 1
  /\ UNCHANGED <<request, stage, costs, paid, size, held, sent, minted, mint,
                 mints, change, draft, tx>>

(* An input with assets: they go back to its address, in an output with the *)
(* minimum of lovelace, and the rest of its lovelace can be spent.          *)
SpendInputWithAssets ==
  /\ stage = "inputs" /\ turn <= Len(request.inputs)
  /\ Listed(request.inputs[turn].assets) # {}
  /\ LET input == request.inputs[turn]
         back == Unburnt(input.assets)
         minAda == MinUtxo[Listed(back)]
     IN  /\ total' = total + input.value
         /\ spendable' = spendable + input.value - minAda
         /\ paid' = paid + minAda
         /\ held' = Plus(held, Recorded(input.assets))
         /\ sent' = Plus(sent, Encoded(back))
  /\ size' = size + OutputFee
  /\ turn' = turn + 1
  /\ UNCHANGED <<request, stage, costs, minted, mint, mints, change, draft,
                 tx>>

InputsDone ==
  /\ stage = "inputs" /\ turn > Len(request.inputs)
  /\ stage' = IF request.minting THEN "minting" ELSE "change"
  /\ turn' = 1
  /\ UNCHANGED <<request, total, spendable, costs, paid, size, held, sent,
                 minted, mint, mints, change, draft, tx>>

MintFor(tokens) ==
  /\ costs' = costs + MinUtxo[Listed(tokens)]
  /\ paid' = paid + MinUtxo[Listed(tokens)]
  /\ size' = size + OutputFee
  /\ sent' = Plus(sent, Encoded(tokens))
  /\ minted' = Plus(minted, Encoded(tokens))
  /\ mints' = mints + Cardinality(Listed(tokens))

MintForRecipient ==
  /\ stage = "minting" /\ turn <= Len(request.recipients)
  /\ MintFor(request.recipients[turn])
  /\ turn' = turn + 1
  /\ UNCHANGED <<request, stage, total, spendable, held, mint, change, draft,
                 tx>>

(* The answer of getNftFee arrives: no fee, or a fee, which goes to the     *)
(* business address with one tracking token for each token minted.          *)
ChargeCommission ==
  /\ stage = "minting" /\ turn > Len(request.recipients)
  /\ \E fee \in Commission :
       IF fee = 0
         THEN UNCHANGED <<costs, paid, size, sent, minted>>
         ELSE LET tracking == [n \in Name |-> IF n = Tracking THEN mints ELSE 0]
              IN  /\ costs' = costs + fee
                  /\ paid' = paid + fee
                  /\ size' = size + OutputFee
                  /\ sent' = Plus(sent, Encoded(tracking))
                  /\ minted' = Plus(minted, Encoded(tracking))
  /\ stage' = "change"
  /\ UNCHANGED <<request, turn, total, spendable, held, mint, mints, change,
                 draft, tx>>

(* The quota cannot be read from Redis.                                     *)
CommissionUnknown ==
  /\ stage = "minting" /\ turn > Len(request.recipients)
  /\ stage' = "error"
  /\ UNCHANGED <<request, turn, total, spendable, costs, paid, size, held,
                 sent, minted, mint, mints, change, draft, tx>>

(* A negative remainder is refused only here: with or without an address    *)
(* for the change, nothing is left for the fee when it is 0.                *)
DecideChange ==
  /\ stage = "change"
  /\ LET changes == spendable - costs
     IN  IF changes < 0
           THEN stage' = "notEnoughFunds" /\ UNCHANGED change
           ELSE /\ stage' = "draft"
                /\ change' = IF request.changeAddress /\ changes > 0
                               THEN changes ELSE NoChange
  /\ UNCHANGED <<request, turn, total, spendable, costs, paid, size, held,
                 sent, minted, mint, mints, draft, tx>>

(* Change that is too small gets no output.                                 *)
DraftChange(c) == IF c >= MinUTxOValue THEN c ELSE NoChange

(* The mint field: of each asset the sum, as an integer of the library.     *)
BuildTransactionMint(assets) == [a \in Asset |-> NewI32(assets[a])]

(* buildTransactionMultisig: the change pays the largest fee.  adjustFee    *)
(* makes the same mint field again.                                         *)
DraftBody ==
  /\ stage = "draft"
  /\ stage' = "adjust"
  /\ IF change = NoChange
       THEN change' = NoChange /\ draft' = [change |-> NoChange, fee |-> MaxFee]
       ELSE /\ change' = change - MaxFee
            /\ draft' = [change |-> DraftChange(change - MaxFee), fee |-> MaxFee]
  /\ mint' = BuildTransactionMint(minted)
  /\ UNCHANGED <<request, turn, total, spendable, costs, paid, size, held,
                 sent, minted, mints, tx>>

(* Mutant: the price of the body before its change output is added.         *)
AdjustedFeeWithoutChange == MinFee(NoChange)

(* min_fee of the draft.                                                    *)
AdjustedFee == MinFee(draft.change)

(* Mutant: the change is left as it was drafted.                            *)
ReturnedAsDrafted(txFee) == change

(* The change with the difference of the fees.                              *)
Returned(txFee) == change + (MaxFee - txFee)

(* Mutant: what is left over goes nowhere.                                  *)
FeeWithoutRemaining(txFee, c) == txFee

(* The price of the draft with what its outputs leave over.                 *)
FeeWith(txFee, c) ==
  LET remaining == total - (paid + Coin(c)) - txFee
  IN  IF remaining > 0 THEN txFee + remaining ELSE txFee

(* adjustFee with a change output: it gets the difference of the fees back. *)
AdjustChange ==
  /\ stage = "adjust" /\ change # NoChange /\ AdjustedFee < MaxFee
  /\ LET txFee == AdjustedFee
         given == Returned(txFee)
         kept == IF given < MinUTxOValue THEN NoChange ELSE given
     IN  /\ change' = given
         /\ IF given < 0
              THEN stage' = "notEnoughFunds" /\ UNCHANGED tx
              ELSE stage' = "built" /\ tx' = [change |-> kept, fee |-> FeeWith(txFee, kept)]
  /\ UNCHANGED <<request, turn, total, spendable, costs, paid, size, held,
                 sent, minted, mint, mints, draft>>

AdjustFeeOnly ==
  /\ stage = "adjust" /\ change = NoChange /\ AdjustedFee < MaxFee
  /\ stage' = "built"
  /\ tx' = [change |-> NoChange, fee |-> FeeWith(AdjustedFee, NoChange)]
  /\ UNCHANGED <<request, turn, total, spendable, costs, paid, size, held,
                 sent, minted, mint, mints, change, draft>>

(* The draft is larger than a transaction may be and is handed back.        *)
KeepDraft ==
  /\ stage = "adjust" /\ AdjustedFee >= MaxFee
  /\ stage' = "built" /\ tx' = draft
  /\ UNCHANGED <<request, turn, total, spendable, costs, paid, size, held,
                 sent, minted, mint, mints, change, draft>>

Next ==
  \/ SpendPlainInput \/ SpendInputWithAssets \/ InputsDone
  \/ MintForRecipient \/ ChargeCommission \/ CommissionUnknown
  \/ DecideChange \/ DraftBody \/ AdjustChange \/ AdjustFeeOnly \/ KeepDraft

Spec == Init /\ [][Next]_vars
-----------------------------------------------------------------------------
(* The draft was within the largest size.                                   *)
Sized == MinFee(draft.change) < MaxFee

(* buildTx and adjustFee conserve lovelace: what the outputs and the fee    *)
(* take is what the inputs have, through two corrections of the change and  *)
(* one of the fee.  The exception is a transaction without change whose     *)
(* inputs do not cover its fee: it is handed back all the same.             *)
LovelaceBalanced ==
  stage = "built" /\ Sized =>
    \/ total = paid + Coin(tx.change) + tx.fee
    \/ tx.change = NoChange /\ total - paid < tx.fee /\ tx.fee = size

(* The comment in adjustFee says that it avoids ValueNotConservedUTxO: what *)
(* is built within the largest size is balanced.                            *)
ValueConserved ==
  stage = "built" /\ Sized => total = paid + Coin(tx.change) + tx.fee

(* The fee of what is built covers its size, although it is the price of    *)
(* the draft: unless the change the draft left out is back, or now takes    *)
(* more bytes to write.                                                     *)
FeeSuffices ==
  stage = "built" /\ Sized =>
    \/ tx.fee >= MinFee(tx.change)
    \/ tx.change # NoChange /\ draft.change = NoChange
    \/ /\ tx.change # NoChange /\ draft.change # NoChange
       /\ tx.change >= Wide /\ draft.change < Wide

(* "not enough funds" is true: the inputs do not pay for the outputs and    *)
(* the size of the transaction without change.                              *)
RefusalGenuine ==
  stage = "notEnoughFunds" => total < paid + size

Balanced(a) == sent[a] = held[a] + mint[a]

(* What each input has of asset n, and what it loses: what is burnt, or all *)
(* it has when that is less.                                                *)
Has(n) == [i \in DOMAIN request.inputs |-> request.inputs[i].assets[n]]
Loses(n) ==
  [i \in DOMAIN request.inputs |->
     IF Has(n)[i] > 0 /\ Has(n)[i] > -request.burnouts[n]
       THEN -request.burnouts[n] ELSE Has(n)[i]]

Put(n) == SumFunctionOnSet(Has(n), DOMAIN request.inputs)
Lost(n) == SumFunctionOnSet(Loses(n), DOMAIN request.inputs)

(* A request whose asset n buildTx accounts for.  It encodes the name in    *)
(* what it gives back, and not in what is burnt or asked for:               *)
(* - a printable name is right only encoded, so that nothing may be lost,   *)
(*   and what is asked for must be what is burnt, as a rule nothing;        *)
(* - a hexadecimal one only as it is, so that all must be lost, and what is *)
(*   asked for be what the burn leaves;                                     *)
(* - the empty one either way: what the inputs lose, in all, must be what   *)
(*   is burnt and what is asked for.                                        *)
Handled(n) ==
  LET asked == request.outputs.assets[n]
      burnt == request.burnouts[n]
  IN  \/ n \notin HexName \cup BlankName /\ Lost(n) = 0 /\ asked = burnt
      \/ n \in HexName /\ Lost(n) = Put(n) /\ asked = Put(n) + burnt
      \/ n \in BlankName /\ Lost(n) = asked - burnt

(* What is burnt and minted of n are integers of the library, under its     *)
(* encoded name and under the other.                                        *)
Whole(n) == Fits(minted[AsText(n)]) /\ Fits(minted[<<n, "digits">>])

(* Assets of the inputs go back to their owners, minted ones to their       *)
(* recipients, burnt ones nowhere, and the commission's are minted: in what *)
(* is built, the outputs have what the inputs have and the mint field adds, *)
(* exactly if buildTx accounts for the asset and what it mints is within 32 *)
(* bits.  Not said is only what is neither, where the one may make up for   *)
(* the other.                                                               *)
AssetsBalanced ==
  stage = "built" =>
    \A n \in Name :
      Handled(n) \/ Whole(n) =>
        (Balanced(AsText(n)) /\ Balanced(<<n, "digits">>) <=> Handled(n) /\ Whole(n))

(* The comment in buildTx says that of the inputs' assets those not burnt   *)
(* are added to the outputs: where nothing is minted or asked for, what is  *)
(* missing of an asset the inputs hold enough of is what is burnt.          *)
OnlyBurntIsMissing ==
  stage = "built" /\ ~request.minting =>
    \A n \in Name \ HexName :
      /\ request.outputs.assets[n] = 0
      /\ held[AsText(n)] + request.burnouts[n] >= 0
      => sent[AsText(n)] = held[AsText(n)] + request.burnouts[n]
=============================================================================
