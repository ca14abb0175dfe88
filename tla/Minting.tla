------------------------------- MODULE Minting -------------------------------
(***************************************************************************)
(* The way of a mint: a client has a native script completed, asks for its  *)
(* address, has a transaction built that mints by it, and submits that to   *)
(* the chain (src/wallets/stakes.service.ts 101-115, submit, buildTx and    *)
(* deserialize of src/transactions/transactions.service.ts, and the witness *)
(* count of src/utils/models/multisig-transaction.ts).                      *)
(*                                                                          *)
(* What TxBuild models, outputs, change and fee, appears here only as the   *)
(* number of witnesses the fee pays for.  The node behind Ogmios, which     *)
(* Submission waits for, takes a transaction whose witnesses, validity and  *)
(* fee are right and whose inputs are unspent.                              *)
(***************************************************************************)
EXTENDS NativeScript, Metadata, Submission, Functions

CONSTANTS
  Script,     \* the JSON scripts a client may begin with
  Burn,       \* sequences of scripts it may burn by besides
  Cargo,      \* [first, second, quantity]: metadata of two tokens, how many
  ServerKeys, \* BUSINESS_POLICY_SCRIPT_KEYS
  ServerRoot, \* the script of BUSINESS_POLICY_SCRIPT
  Pay,        \* the key of the inputs
  Stray,      \* the text of a key nothing asks for
  Owned,      \* the texts of keys of scripts the client has from elsewhere
  LastSlot    \* bound: the slots of the model

(* A text is bech32 or the hexadecimal of CBOR; either gives the key.       *)
GetPrivateKey(text) == text[2]

Burnt == UNION {Range(b) : b \in Burn}

ASSUME ScriptAssumption == \A j \in Script : IsJsonScript(j)
ASSUME BurnAssumption == Burn \subseteq Seq(Burnt) /\ \A j \in Burnt : IsComplete(j)

(* The client has one text for every key of its scripts but for those to be *)
(* made.                                                                    *)
ASSUME OwnedAssumption ==
  /\ IsFiniteSet(Owned) /\ Owned \subseteq STRING \X Key
  /\ \A t, u \in Owned : GetPrivateKey(t) = GetPrivateKey(u) => t = u
  /\ \A t \in Owned : GetPrivateKey(t).by # "wallet"
  /\ \A j \in Script \cup Burnt : \A p \in DOMAIN j :
       j[p].type = "sig" /\ j[p].keyHash # NoKey =>
         \E t \in Owned : GetPrivateKey(t) = j[p].keyHash
ASSUME CargoAssumption ==
  \A c \in Cargo : c.quantity \in Nat /\ IsMetadata(c.first) /\ IsMetadata(c.second)

(* The first and the last of the server's keys are those of its script,     *)
(* which never expires (as in src/addresses/addresses.service.spec.ts 34-35)*)
ASSUME ServerAssumption ==
  /\ Len(ServerKeys) > 0 /\ ServerKeys[1] # ServerKeys[Len(ServerKeys)]
  /\ IsTree(ServerRoot, Position) /\ \A p \in DOMAIN ServerRoot : ServerRoot[p] \in Root
  /\ RequiredSigners(ServerRoot) = {ServerKeys[1], ServerKeys[Len(ServerKeys)]}
  /\ \A kind \in Locks : LocksIn(ServerRoot, kind) = {}
  /\ ~AsksTooMuch(ServerRoot)
ASSUME SlotAssumption == LastSlot \in Nat /\ LastSlot < MaxSlot

VARIABLES
  json,     \* the client's script, then the one returned to it
  burn,     \* the scripts it burns by
  cargo,    \* what it mints
  charged,  \* getNftFee gives a commission
  keys,     \* the texts of the private keys it holds
  policy,   \* the script of its policy, in a sequence of at most one
  address,  \* its address, likewise
  passedOn, \* the script an evaluation passed on, likewise
  evaluated, \* what the client was told of it
  signed,   \* the transaction built, likewise
  honest,   \* history: it signed with the keys asked for that it holds
  phase,    \* "script", "wallet", "built" or "refused"
  slot      \* the chain's

wish == <<burn, cargo, charged>>
wallet == <<json, keys, policy>>
evaluation == <<passedOn, evaluated>>
built == <<signed, honest, phase>>
mintVars == <<json, burn, cargo, charged, keys, policy, address, evaluation, signed, honest,
              phase, slot, accepted, call, told, lost>>

MintInit ==
  /\ json \in Script /\ burn \in Burn /\ cargo \in Cargo /\ charged \in BOOLEAN
  /\ keys = Owned
  /\ policy = <<>> /\ address = <<>> /\ passedOn = <<>> /\ evaluated = "nothing"
  /\ signed = <<>>
  /\ honest = TRUE /\ phase = "script"
  /\ slot = 0
  /\ SubmissionInit

(* buildNativeScript: the latest block's slot is read for a lock that is the*)
(* whole script; a lock that is part of one counts from slot 0.             *)
BuildNativeScript ==
  /\ phase = "script"
  /\ LET dated == json[<<>>].lockTime # <<>> /\ json[<<>>].type \in Locks
         script == BuildPolicyScript(json, IF dated THEN <<slot>> ELSE <<0>>, "wallet")
     IN  /\ json' = PolicyScriptToJson(script)
         /\ keys' = keys \cup {<<"xprv1", k>> : k \in GetScriptKeys(script)}
         /\ policy' = <<script.root>>
  /\ phase' = "wallet"
  /\ UNCHANGED <<wish, address, evaluation, signed, honest, slot, calls>>

(* getNativeScriptAddress, for the script returned.                         *)
GetNativeScriptAddress ==
  /\ phase # "script" /\ address = <<>>
  /\ address' = <<GetScriptAddress(BuildPolicyScript(json, <<>>, "address"))>>
  /\ UNCHANGED <<wish, wallet, evaluation, built, slot, calls>>

(* evaluateTx passes the script of an output on, as it was returned.        *)
EvaluateTx ==
  /\ phase # "script" /\ passedOn = <<>>
  /\ passedOn' = <<InnerNativeScript(json)>>
  /\ UNCHANGED <<wish, wallet, address, evaluated, built, slot, calls>>

(* The node's costs or its reason; without a response of the node the       *)
(* handler of the error fails itself.                                       *)
Evaluated ==
  /\ passedOn # <<>> /\ evaluated = "nothing"
  /\ evaluated' \in {"redeemers", "badRequest", "internalError"}
  /\ UNCHANGED <<wish, wallet, address, passedOn, built, slot, calls>>

ExpireSlot(j) == LET s == FindScriptExpireSlot(j) IN IF s = 0 THEN MaxSlot ELSE s

Ttl ==
  LET ttls == {ExpireSlot(j) : j \in {json} \cup Range(burn)} \cup {MaxSlot}
  IN  CHOOSE t \in ttls : \A u \in ttls : t <= u

BuiltRoot(j) == BuildPolicyScript(j, <<0>>, "build").root

(* The scripts of the transaction: of the burn, of the mint, of the tracking*)
(* token that comes with the commission.                                    *)
Roots ==
  [i \in DOMAIN burn |-> BuiltRoot(burn[i])] \o <<BuiltRoot(json)>>
    \o (IF charged THEN <<ServerRoot>> ELSE <<>>)

(* The witnesses the fee is computed for: the inputs' key, and every key of *)
(* each script.                                                             *)
NumberOfWitnesses(roots) ==
  1 + SumFunctionOnSet([i \in DOMAIN roots |-> Cardinality(RequiredSigners(roots[i]))],
                       DOMAIN roots)

(* The keys the client's own scripts ask for.                               *)
Needed == UNION {RequiredSigners(Roots[i]) : i \in 1 .. Len(burn) + 1}

(* Mutant: the labels of the second token replace those of the first.       *)
TxMetadataAssigned ==
  LET taken == {p[1] : p \in DOMAIN cargo.second \ {<<>>}}
      left  == {p \in DOMAIN cargo.first : p # <<>> /\ p[1] \notin taken}
  IN  ConstructMetadata([p \in left \cup DOMAIN cargo.second |->
                           IF p \in left THEN cargo.first[p] ELSE cargo.second[p]])

TxMetadata == ConstructMetadata(Merge(cargo.first, cargo.second))

KeysFor(S) == {t \in keys : GetPrivateKey(t) \in S}

(* MultisigTransaction: the inputs' key, every key given and, with the      *)
(* commission, the server's first sign; the fee pays for NumberOfWitnesses. *)
New(roots, given) ==
  [roots |-> roots, paidFor |-> NumberOfWitnesses(roots),
   signers |-> {Pay} \cup {GetPrivateKey(t) : t \in given}
                 \cup (IF charged THEN {ServerKeys[1]} ELSE {}),
   witnesses |-> 1 + Cardinality(given) + (IF charged THEN 1 ELSE 0)]

(* The transaction with its witnesses, scripts and metadata.                *)
Build(multisig, ttl, metadata) ==
  [roots |-> multisig.roots, paidFor |-> multisig.paidFor, signers |-> multisig.signers,
   witnesses |-> multisig.witnesses, ttl |-> ttl, metadata |-> metadata,
   mint |-> NewI32(cargo.quantity), sent |-> cargo.quantity, tracked |-> charged]

(* buildTx, and the texts of keys given to it besides that of the inputs:   *)
(* those needed that the client holds, or others.                           *)
BuildTx(given) ==
  /\ phase = "wallet"
  /\ honest' = (given = KeysFor(Needed))
  /\ \/ /\ Throws(TxMetadata)
        /\ phase' = "refused" /\ UNCHANGED signed
     \/ /\ ~Throws(TxMetadata)
        /\ phase' = "built"
        /\ signed' = <<Build(New(Roots, given), Ttl, BuildTransactionMetadata(TxMetadata))>>
  /\ UNCHANGED <<wish, wallet, address, evaluation, slot, calls>>

(* deserialize: a transaction with the tracking token gets the last of the  *)
(* server's witnesses.                                                      *)
Deserialize(t) ==
  IF t.tracked
    THEN [t EXCEPT !.signers = @ \cup {ServerKeys[Len(ServerKeys)]}, !.witnesses = @ + 1]
    ELSE t

(* What the node asks of a transaction, but for its inputs.                 *)
Valid(t) ==
  /\ slot < t.ttl
  /\ \A i \in DOMAIN t.roots : Holds(t.roots[i], t.signers, t.ttl)
  /\ Pay \in t.signers
  /\ t.witnesses <= t.paidFor
  /\ t.mint = t.sent

Submit(c) ==
  /\ phase = "built" /\ SubmitTx(c)
  /\ UNCHANGED <<wish, wallet, address, evaluation, built, slot>>

Judge(c) ==
  /\ JudgeTx(c, Valid(Deserialize(signed[1])))
  /\ UNCHANGED <<wish, wallet, address, evaluation, built, slot>>

Answer(c) ==
  /\ AnswerTx(c)
  /\ UNCHANGED <<wish, wallet, address, evaluation, built, slot>>

Lose(c) ==
  /\ LoseTx(c)
  /\ UNCHANGED <<wish, wallet, address, evaluation, built, slot>>

Tick ==
  /\ slot < LastSlot
  /\ slot' = slot + 1
  /\ UNCHANGED <<wish, wallet, address, evaluation, built, calls>>

Given == {KeysFor(Needed), KeysFor(Needed) \cup {Stray}, {}}

MintNext ==
  \/ BuildNativeScript \/ GetNativeScriptAddress \/ EvaluateTx \/ Evaluated
  \/ \E given \in Given : BuildTx(given)
  \/ \E c \in Call : Submit(c) \/ Judge(c) \/ Answer(c) \/ Lose(c)
  \/ Tick

MintSpec == MintInit /\ [][MintNext]_mintVars

-----------------------------------------------------------------------------
(* Every variable has its type; nothing is sent that was not built, and the *)
(* quantity of a mint is an integer of the library.                         *)
MintTypeOK ==
  /\ burn \in Burn /\ cargo \in Cargo /\ charged \in BOOLEAN
  /\ Len(policy) <= 1 /\ Len(address) <= 1 /\ Len(passedOn) <= 1
  /\ Len(signed) = (IF phase = "built" THEN 1 ELSE 0)
  /\ evaluated \in {"nothing", "redeemers", "badRequest", "internalError"}
  /\ evaluated # "nothing" => passedOn # <<>>
  /\ honest \in BOOLEAN
  /\ phase \in {"script", "wallet", "built", "refused"}
  /\ slot \in 0 .. LastSlot
  /\ SubmissionTypeOK
  /\ \A c \in Call : call[c] # "idle" => phase = "built"
  /\ \A i \in DOMAIN signed : Fits(signed[i].mint)

(* The script returned to the client stands for the script built: its       *)
(* address, the policy a transaction mints by, and what an evaluation passes*)
(* on are those of the script that was built first, with every new key and  *)
(* every slot in place.  A group without parts is not among the scripts: it *)
(* comes back without its list and cannot be built again                    *)
(* (serialization.util.ts 1144-1249, stakes.service.ts 101-115).            *)
PolicyKept ==
  /\ address # <<>> =>
       address[1] = [payment |-> GetScriptHash(policy[1]), stake |-> GetScriptHash(policy[1])]
  /\ passedOn # <<>> => passedOn[1] = Clause(policy[1])
  /\ phase = "built" => GetScriptHash(signed[1].roots[Len(burn) + 1]) = GetScriptHash(policy[1])

(* The cases in which a transaction cannot be valid: a group that asks for  *)
(* more parts than it has; 'after' a slot but 0, which is what a transaction*)
(* says it is valid from; several slots of 'before', or one deeper than the *)
(* script's own parts, where the time to live is not the earliest, or one   *)
(* that is no date; more tokens than an integer of the library holds.       *)
Hopeless ==
  \/ \E i \in 1 .. Len(burn) + 1 :
       LET befores == LocksIn(Roots[i], "before") IN
         \/ AsksTooMuch(Roots[i])
         \/ LocksIn(Roots[i], "after") \ {0} # {}
         \/ 0 \in befores \/ Cardinality(befores) > 1
         \/ \E p \in DOMAIN Roots[i] : Len(p) > 1 /\ Roots[i][p].kind = "before"
  \/ ~Fits(cargo.quantity)

(* Whoever signs with the keys asked for, with those the API made and handed*)
(* out among them, gets a transaction the node takes until its time to live *)
(* is over: scripts hold, the server's witnesses are complete, the fee pays *)
(* for all witnesses, but for the cases named (transactions.service.ts      *)
(* 173-290, 422-444, serialization.util.ts 1252-1332).                      *)
BuiltIsValid ==
  phase = "built" /\ honest /\ slot < signed[1].ttl /\ ~Hopeless
    => Valid(Deserialize(signed[1]))

(* The transaction carries what was asked for: of the metadata all labels   *)
(* that are integers, of two tokens both unless they disagree, and then the *)
(* second's unless it has a map where the first has a list; of numbers those*)
(* that fit into 32 bits.  Reading the metadata back and writing it again   *)
(* changes nothing (serialization.util.ts 829-974,                          *)
(* transactions.service.ts 248).                                            *)
CargoKept ==
  phase = "built" =>
    /\ \A m \in (IF Agree(cargo.first, cargo.second) THEN {cargo.first} ELSE {})
                 \cup (IF Hides(cargo.first, cargo.second) THEN {} ELSE {cargo.second}) :
         \A p \in DOMAIN m \ {<<>>} :
           p[1] \in Labels => /\ p \in DOMAIN signed[1].metadata
                              /\ Carries(signed[1].metadata[p], m[p])
    /\ Fits(cargo.quantity) => signed[1].mint = cargo.quantity
    /\ BuildTransactionMetadata(ConstructMetadata(ReverseMetadata(TxMetadata)))
         = signed[1].metadata
=============================================================================
