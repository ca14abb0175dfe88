----------------------------- MODULE MCTxBuild -----------------------------
(* Small requests for TxBuild.  "token" and "tracking" have printable       *)
(* names, "label" one shown in hexadecimal, "blank" the empty one.  An      *)
(* output costs 2 in fees, the rest of a transaction 3, the largest 12.     *)
EXTENDS TxBuild, SequencesExt

MCName == {"token", "label", "blank", "tracking"}
MCMinUtxo == [assets \in SUBSET MCName |-> 2 + Cardinality(assets)]

Of(n, quantity) == [m \in MCName |-> IF m = n THEN quantity ELSE 0]
None == Of("token", 0)
Both == [m \in MCName |-> IF m \in {"token", "blank"} THEN 1 ELSE 0]

Inputs ==
  {[value |-> v, assets |-> None] : v \in {3, 9, 26}}
    \cup {[value |-> 9, assets |-> b] : b \in {Of("token", 2), Of("blank", 2), Of("label", 1)}}
    \cup {[value |-> 20, assets |-> Both]}

Outputs ==
  {[value |-> 0, assets |-> None, size |-> 3],
   [value |-> 6, assets |-> None, size |-> 5],
   [value |-> 6, assets |-> Of("blank", 1), size |-> 7],
   [value |-> 12, assets |-> Of("token", 1), size |-> 7]}

Burnouts == {None, Of("blank", -1), Of("blank", -3), Of("token", -1), Of("label", -1)}

Minting ==
  {<<FALSE, <<>>>>} \cup
  {<<TRUE, r>> : r \in {<<>>, <<Of("token", 3)>>, <<Both, Of("blank", 1)>>}}

MCRequest ==
  {[inputs |-> i, outputs |-> o, burnouts |-> b, minting |-> m[1], recipients |-> m[2],
    changeAddress |-> c] :
      i \in SeqOf(Inputs, 2) \ {<<>>}, o \in Outputs, b \in Burnouts, m \in Minting, c \in BOOLEAN}
=============================================================================
