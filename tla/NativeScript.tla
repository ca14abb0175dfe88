----------------------------- MODULE NativeScript -----------------------------
(***************************************************************************)
(* Native scripts: what Seed (src/utils/serialization.util.ts) makes of a   *)
(* JsonScript, the scripts of the ledger it stands for, and what they mean. *)
(*                                                                          *)
(* A script is a tree; the steps of a path are positions in "scripts".  A   *)
(* part of a JSON script is a record of all the other fields of JsonScript: *)
(* slot = 0 is a missing slot, and the NaN that JSON turns into null;       *)
(* lockTime is <<>> if it is missing or no date, else <<n>>, n seconds from *)
(* now, <<0>> for "now".  A key is who made it and where, and stands for its*)
(* hash as well.  Slots stay far below 2^32, where the library's would wrap.*)
(***************************************************************************)
EXTENDS Trees

Position == Nat \ {0}

(* The new key that who makes for the part of a script at a path.           *)
NewKey(who, path) == [by |-> who, at |-> path]
NoKey == NewKey("nobody", <<>>)

(* The largest slot, what Number.MAX_SAFE_INTEGER is cut to.                *)
MaxSlot == 99

Groups == {"all", "any", "atLeast"}
Locks == {"after", "before"}

(* Keys of the client, of the server and of strangers, and those the API    *)
(* makes where a script, an address or a transaction is asked for.          *)
Maker == {"nobody", "client", "server", "stray", "wallet", "address", "build"}
Key == [by : Maker, at : Seq(Position)]
LockTime == {l \in Seq(Int) : Len(l) <= 1}
JsonScript ==
  [type : {"sig"} \cup Groups \cup Locks, keyHash : Key, slot : Int, lockTime : LockTime,
   require : Int]

(* A JSON script; a group has parts.                                        *)
IsJsonScript(json) ==
  /\ IsTree(json, Position)
  /\ \A p \in DOMAIN json : /\ json[p] \in JsonScript
                            /\ json[p].type \in Groups => Parts(json, p) # {}

(* A script as the API returns it: every key is there, and every date that  *)
(* counts is a slot.                                                        *)
IsComplete(json) ==
  /\ IsJsonScript(json)
  /\ \A p \in DOMAIN json : /\ json[p].lockTime = <<>>
                            /\ json[p].type = "sig" => json[p].keyHash # NoKey

(* The paths of a script that lead through groups only: the rest is built   *)
(* beside its root, or not at all.                                          *)
Grouped(json) == {p \in DOMAIN json : \A q \in Above(p) : json[q].type \in Groups}

-----------------------------------------------------------------------------
(* The ledger's scripts, from whose hash come the policy and the address.   *)

SigRoot(k) == [kind |-> "sig", key |-> k, slot |-> 0, n |-> 0]
GroupRoot(t, n) == [kind |-> t, key |-> NoKey, slot |-> 0, n |-> n]
LockRoot(t, s) == [kind |-> t, key |-> NoKey, slot |-> s, n |-> 0]
Root == [kind : {"sig"} \cup Groups \cup Locks, key : Key, slot : Int, n : Int]

(* No two scripts have the same hash.                                       *)
GetScriptHash(root) == <<"hash", root>>

(* Payment and stake are both the script's.                                 *)
GetScriptAddress(script) ==
  [payment |-> GetScriptHash(script.root), stake |-> GetScriptHash(script.root)]

(* H are the parts of the script that hold for a transaction with these     *)
(* signatures that is valid from slot 0 until ttl.                          *)
AreHolding(H, r, signers, ttl) ==
  \A p \in DOMAIN r :
    LET holding == Parts(r, p) \cap H
    IN  p \in H <=> CASE r[p].kind = "sig" -> r[p].key \in signers
                      [] r[p].kind = "all" -> holding = Parts(r, p)
                      [] r[p].kind = "any" -> holding # {}
                      [] r[p].kind = "atLeast" -> Cardinality(holding) >= r[p].n
                      [] r[p].kind = "after" -> r[p].slot <= 0
                      [] r[p].kind = "before" -> ttl <= r[p].slot

Holds(r, signers, ttl) == \E H \in SUBSET DOMAIN r : <<>> \in H /\ AreHolding(H, r, signers, ttl)

RequiredSigners(r) == {r[p].key : p \in {q \in DOMAIN r : r[q].kind = "sig"}}

-----------------------------------------------------------------------------
Plain(type) ==
  [type |-> type, keyHash |-> NoKey, slot |-> 0, lockTime |-> <<>>, require |-> 0]

(* The script of a single issuer, until a date if it is to be locked.       *)
BuildPolicyJsonScript(lock, lockTime) ==
  LET issuer == Tree(Plain("sig"), <<>>)
      until  == Tree([Plain("before") EXCEPT !.lockTime = lockTime], <<>>)
  IN  IF lock THEN Tree(Plain("all"), <<issuer, until>>) ELSE issuer

(* The slot of a lock; current is <<slot>>, or <<>> when it is not given.   *)
SlotOf(json, current) ==
  IF json.slot # 0 THEN json.slot
  ELSE IF json.lockTime = <<>> \/ current = <<>> THEN 0
  ELSE current[1] + json.lockTime[1]

(* What is built of one part, new is the key made if it has none.           *)
BuildPart(json, current, new) ==
  LET key  == IF json.keyHash = NoKey THEN new ELSE json.keyHash
      slot == SlotOf(json, current)
  IN  CASE json.type = "sig" ->
             [root |-> SigRoot(key), keyHash |-> key, made |-> {key} \ {json.keyHash}, slot |-> 0]
        [] json.type \in Groups ->
             [root |-> GroupRoot(json.type, IF json.type = "atLeast" THEN json.require ELSE 0),
              keyHash |-> NoKey, made |-> {}, slot |-> 0]
        [] json.type \in Locks ->
             [root |-> LockRoot(json.type, slot), keyHash |-> NoKey, made |-> {}, slot |-> slot]

(* The script, its parts beside their roots: the parts of a signature are   *)
(* not built; those of a lock are, and are not part of its root.            *)
BuildPolicyScript(json, current, who) ==
  LET parts == [p \in {q \in DOMAIN json : \A a \in Above(q) : json[a].type # "sig"} |->
                  BuildPart(json[p], current, NewKey(who, p))]
  IN  [parts |-> parts, root |-> [p \in Grouped(json) |-> parts[p].root]]

(* Mutant: the slot of a lock is left out.                                  *)
PolicyScriptToJsonSlotless(script) ==
  [p \in DOMAIN script.parts |->
     [type |-> script.parts[p].root.kind, keyHash |-> script.parts[p].keyHash, slot |-> 0,
      lockTime |-> <<>>, require |-> script.parts[p].root.n]]

PolicyScriptToJson(script) ==
  [p \in DOMAIN script.parts |->
     [type |-> script.parts[p].root.kind, keyHash |-> script.parts[p].keyHash,
      slot |-> script.parts[p].slot, lockTime |-> <<>>, require |-> script.parts[p].root.n]]

(* The private keys made with the script, all the client ever gets of them. *)
GetScriptKeys(script) == UNION {script.parts[p].made : p \in DOMAIN script.parts}

(* The slots of a kind of lock among the script's own parts.                *)
Slots(json, type) ==
  {json[p].slot : p \in {q \in DOMAIN json : Len(q) = 1 /\ json[q].type = type}} \ {0}

(* Mutant: the slot of a single lock counts for none.                       *)
FindExpireInGroups(json) ==
  IF Slots(json, "before") = {} THEN 0
  ELSE CHOOSE s \in Slots(json, "before") : \A u \in Slots(json, "before") : s >= u

(* The slot of 'before', or the latest among the parts; 0 if there is none. *)
FindScriptExpireSlot(json) ==
  IF json[<<>>].type = "before" THEN json[<<>>].slot
  ELSE IF Slots(json, "before") = {} THEN 0
  ELSE CHOOSE s \in Slots(json, "before") : \A u \in Slots(json, "before") : s >= u

(* A script of an output as an evaluation passes it on.                     *)
InnerNativeScript(json) ==
  [p \in Grouped(json) |->
     CASE json[p].type = "sig" -> [clause |-> "signature", from |-> json[p].keyHash]
       [] json[p].type \in {"all", "any"} -> [clause |-> json[p].type]
       [] json[p].type = "atLeast" -> [clause |-> "some", atLeast |-> json[p].require]
       [] json[p].type \in Locks -> [clause |-> json[p].type, slot |-> json[p].slot]]

-----------------------------------------------------------------------------
(* What the definitions above are checked against.                          *)

(* The slots of a kind of lock anywhere in a script of the ledger.          *)
LocksIn(r, kind) == {r[p].slot : p \in {q \in DOMAIN r : r[q].kind = kind}}

(* A group asks for more parts than it has: nothing makes it hold.          *)
AsksTooMuch(r) ==
  \E p \in DOMAIN r : \/ r[p].kind = "any" /\ Parts(r, p) = {}
                      \/ r[p].kind = "atLeast" /\ Cardinality(Parts(r, p)) < r[p].n

(* The script as Ogmios writes it.                                          *)
Clause(r) ==
  [p \in DOMAIN r |->
     CASE r[p].kind = "sig" -> [clause |-> "signature", from |-> r[p].key]
       [] r[p].kind \in {"all", "any"} -> [clause |-> r[p].kind]
       [] r[p].kind = "atLeast" -> [clause |-> "some", atLeast |-> r[p].n]
       [] r[p].kind \in Locks -> [clause |-> r[p].kind, slot |-> r[p].slot]]
=============================================================================
