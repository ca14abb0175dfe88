------------------------------ MODULE AssetNames ------------------------------
(***************************************************************************)
(* How the names of assets are shown in a list of outputs (convertAssetName *)
(* and isPrintableUtf8 of src/common/utils.ts): a name that can be printed  *)
(* in hexadecimal, another as it is.                                        *)
(*                                                                          *)
(* The expression that looks for characters that cannot be printed is one   *)
(* constant of the module with the flag "g", whose test starts where the    *)
(* last match ended.  Every list of every request uses it; no other code    *)
(* runs during one conversion.  The prefix of a label (CIP-68) goes before  *)
(* either form and is left out.                                             *)
(***************************************************************************)
EXTENDS Naturals, Sequences

CONSTANTS
  Name, \* names of assets, as the ledger database gives them
  Ends  \* [Name -> where its runs of characters that cannot be printed end]

ASSUME EndsAssumption == Ends \in [Name -> SUBSET (Nat \ {0})]

VARIABLES
  lastIndex, \* of UNPRINTABLE_CHARACTERS_REGEXP
  last,      \* history: the last conversion, in a sequence of at most one
  before     \* history: the one before it, likewise

names == <<lastIndex, last, before>>

Conversion == [name : Name, form : {"hex", "text"}]
Unprintable(c) == Ends[c.name] # {}

(* Every variable has its type.                                             *)
NamesTypeOK ==
  /\ lastIndex \in Nat
  /\ last = <<>> \/ \E c \in Conversion : last = <<c>>
  /\ before = <<>> \/ \E c \in Conversion : before = <<c>>

NamesInit == lastIndex = 0 /\ last = <<>> /\ before = <<>>

Ahead(n) == {e \in Ends[n] : e > lastIndex}

Show(n, form) == before' = last /\ last' = <<[name |-> n, form |-> form]>>

(* Mutant: a test that finds nothing leaves the index.                      *)
ShowInHexHere(n) == Ahead(n) = {} /\ UNCHANGED lastIndex /\ Show(n, "hex")

(* Nothing is found: the name is taken for one that can be printed, and the *)
(* next test starts at the beginning.                                       *)
ShowInHex(n) == Ahead(n) = {} /\ lastIndex' = 0 /\ Show(n, "hex")

ShowAsItIs(n) ==
  /\ lastIndex' \in Ahead(n) /\ \A e \in Ahead(n) : lastIndex' <= e
  /\ Show(n, "text")

NamesNext == \E n \in Name : ShowInHex(n) \/ ShowAsItIs(n)

NamesSpec == NamesInit /\ [][NamesNext]_names

-----------------------------------------------------------------------------
(* A name that can be printed is always in hexadecimal.  One that cannot is *)
(* in hexadecimal too, and so has two names where assets are compared, only *)
(* right after another was found, by whichever request, in one that has such*)
(* characters at least as far on: never twice in a row, and never the first *)
(* (utils.ts 25, 126-139).                                                  *)
MistakesFollowOthers ==
  last # <<>> =>
    IF Unprintable(last[1]) /\ last[1].form = "hex"
      THEN /\ before # <<>> /\ before[1].form = "text"
           /\ \A e \in Ends[last[1].name] : \E f \in Ends[before[1].name] : e <= f
      ELSE Unprintable(last[1]) \/ last[1].form = "hex"
=============================================================================
